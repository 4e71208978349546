-------------------------------- MODULE Once --------------------------------
(***************************************************************************)
(* What sensor_task_start, api_server_start and auth_oidc_start promise to *)
(* the tasks that call them: however many calls there are, at once or one  *)
(* after the other, a service comes up once and stays up; a call succeeds  *)
(* only if its service is up by then, and fails only while it is down.     *)
(* The promise is that of a call with something to start: without an       *)
(* audience auth_oidc_start returns ESP_OK and starts nothing.             *)
(***************************************************************************)
CONSTANTS
  Callers,    \* the tasks that call
  Services,   \* the sensor task, the API server, the OIDC task
  Null        \* no service

VARIABLES
  up,         \* the services that run
  wanted,     \* the service each caller asks for, or Null
  phase       \* how far its call is

vars == <<up, wanted, phase>>

Init ==
  /\ up = {}
  /\ wanted = [c \in Callers |-> Null]
  /\ phase = [c \in Callers |-> "idle"]

Goes(c, from, to) ==
  /\ phase[c] = from
  /\ phase' = [phase EXCEPT ![c] = to]

Call(c, s) ==
  /\ Goes(c, "idle", "calling")
  /\ wanted' = [wanted EXCEPT ![c] = s]
  /\ UNCHANGED up

Start(c) ==
  /\ wanted[c] \notin up
  /\ up' = up \cup {wanted[c]}
  /\ Goes(c, "calling", "ok")
  /\ UNCHANGED wanted

Join(c) ==
  /\ wanted[c] \in up
  /\ Goes(c, "calling", "ok")
  /\ UNCHANGED <<up, wanted>>

Fail(c) ==
  /\ wanted[c] \notin up
  /\ Goes(c, "calling", "failed")
  /\ UNCHANGED <<up, wanted>>

Return(c) ==
  /\ Goes(c, "ok", "idle") \/ Goes(c, "failed", "idle")
  /\ wanted' = [wanted EXCEPT ![c] = Null]
  /\ UNCHANGED up

Next ==
  \E c \in Callers :
    \/ \E s \in Services : Call(c, s)
    \/ Start(c) \/ Join(c) \/ Fail(c) \/ Return(c)

Spec == Init /\ [][Next]_vars
=============================================================================
