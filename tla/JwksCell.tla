------------------------------ MODULE JwksCell ------------------------------
(***************************************************************************)
(* What the JWKS of main/auth_oidc.c is to those who use it: one cell that *)
(* a refresh replaces at one moment, by a document that passed validation, *)
(* that a request copies at one moment, and over which auth_ready opens a  *)
(* gate.                                                                   *)
(***************************************************************************)
CONSTANTS
  Documents,   \* the documents that pass auth_validate_jwks
  Null         \* no document

VARIABLES
  published,   \* the document a request would be given now
  copy,        \* the one that the request being served was given
  gate         \* auth_ready

vars == <<published, copy, gate>>

Init == published = Null /\ copy = Null /\ gate = FALSE

Replace ==
  /\ published' \in Documents
  /\ UNCHANGED <<copy, gate>>

Copy ==
  /\ copy = Null
  /\ copy' = published
  /\ UNCHANGED <<published, gate>>

Drop ==
  /\ copy' = Null
  /\ UNCHANGED <<published, gate>>

Open ==
  /\ published \in Documents
  /\ gate' = TRUE
  /\ UNCHANGED <<published, copy>>

Close ==
  /\ gate' = FALSE
  /\ UNCHANGED <<published, copy>>

Next == Replace \/ Copy \/ Drop \/ Open \/ Close

Spec == Init /\ [][Next]_vars
=============================================================================
