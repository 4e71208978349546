----------------------------- MODULE MCAuthOidc -----------------------------
(* AuthOidc under its fairness; one key, since liveness does not depend on *)
(* which key a document lists.                                             *)
EXTENDS AuthOidc
=============================================================================
