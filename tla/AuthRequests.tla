---------------------------- MODULE AuthRequests ----------------------------
(***************************************************************************)
(* What the protected API promises a client: AuthOidc with a history       *)
(* variable that remembers, for the request being served, what held while  *)
(* it was.  The history restricts nothing: every step of AuthOidc is a step *)
(* of this module.                                                         *)
(***************************************************************************)
EXTENDS AuthOidc

VARIABLE during

RequestsInit ==
  /\ Init
  /\ during = [listed |-> FALSE, kept |-> FALSE, ready |-> FALSE, synced |-> FALSE, steady |-> FALSE]

(* Over the life of a request: whether some published document and whether *)
(* every one had its key, whether the flags were ever set, and whether     *)
(* both were set throughout.                                               *)
PublishedKeys(p) == IF p \in {Null, Dangling} THEN {} ELSE p.keys

Observe ==
  LET lists == token'.form = "jwt" /\ token'.kid \in PublishedKeys(s_jwks_json')
      both  == auth_ready' /\ time_synced'
      fresh == [listed |-> lists, kept |-> lists, ready |-> auth_ready',
                synced |-> time_synced', steady |-> both]
  IN during' =
       IF req = "idle"
         THEN IF req' = "idle" THEN during ELSE fresh
         ELSE [listed |-> during.listed \/ lists,
               kept   |-> during.kept /\ (lists \/ s_jwks_json' = Dangling),
               ready  |-> during.ready \/ auth_ready',
               synced |-> during.synced \/ time_synced',
               steady |-> during.steady /\ both]

RequestsSpec == RequestsInit /\ [][Next /\ Observe]_<<vars, during>>

----------------------------------------------------------------------------
(* Properties.                                                             *)

(* A measurement is served only on a genuine token with good claims, whose *)
(* key was in a JWKS published while the request ran, and only if the      *)
(* gates were open at some moment of it.                                   *)
AcceptedSoundly ==
  response \in {"200", "503_sensor"} =>
    /\ token \in Jwts
    /\ token.genuine /\ token.claims = "OK"
    /\ during.listed
    /\ during.ready /\ during.synced

(* The converse: while memory lasts, a good token whose key stayed in the  *)
(* published JWKS, on a device that stayed ready and synchronised, is not  *)
(* refused, whatever refresh runs beside the request.                      *)
GoodTokenAccepted ==
  /\ ~tight
  /\ token \in Jwts /\ token.genuine /\ token.claims = "OK"
  /\ during.kept /\ during.steady
  /\ req = "idle" /\ response # "none"
  => response \in {"200", "503_sensor"}
=============================================================================
