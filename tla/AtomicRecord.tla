---------------------------- MODULE AtomicRecord ----------------------------
(***************************************************************************)
(* What the firmware's shared records promise: app_status_set_* and        *)
(* app_status_get of main/app_status.h, sensor_latest_store and            *)
(* sensor_latest_get of main/sensor_task.h.  A call takes effect at one    *)
(* moment between its start and its return, and a read returns the whole   *)
(* record of that moment.  Only a call that began before the record was    *)
(* usable may be refused, for want of memory for its mutex; it may still   *)
(* be when another call has made the record usable meanwhile.              *)
(***************************************************************************)
CONSTANTS
  Tasks,     \* the tasks that call
  Fields,    \* the fields of the record
  Zero,      \* the zeroed record, which static memory starts with
  Updates,   \* what a call may write: some fields and their values
  NoAnswer   \* the answer of a call that has not been performed

VARIABLES
  record,    \* the record
  usable,    \* whether new calls can no longer be refused
  phase,     \* how far the call of a task is
  op,        \* that call: an update, or Get
  answer     \* the record a performed Get returns

vars == <<record, usable, phase, op, answer>>

Get == [f \in {} |-> Zero]      \* a call that writes nothing

Init ==
  /\ record = Zero
  /\ usable = FALSE
  /\ phase = [t \in Tasks |-> "idle"]
  /\ op = [t \in Tasks |-> Get]
  /\ answer = [t \in Tasks |-> NoAnswer]

Call(t, o) ==
  /\ phase[t] = "idle"
  /\ phase' = [phase EXCEPT ![t] = IF usable THEN "pending" ELSE "early"]
  /\ op' = [op EXCEPT ![t] = o]
  /\ UNCHANGED <<record, usable, answer>>

(* The record is usable, and any of the early calls will be performed.     *)
Admit ==
  /\ usable' = TRUE
  /\ \E admitted \in SUBSET {t \in Tasks : phase[t] = "early"} :
       phase' = [t \in Tasks |-> IF t \in admitted THEN "pending" ELSE phase[t]]
  /\ UNCHANGED <<record, op, answer>>

Refuse(t) ==
  /\ phase[t] = "early"
  /\ phase' = [phase EXCEPT ![t] = "idle"]
  /\ op' = [op EXCEPT ![t] = Get]
  /\ UNCHANGED <<record, usable, answer>>

Perform(t) ==
  /\ phase[t] = "pending"
  /\ phase' = [phase EXCEPT ![t] = "performed"]
  /\ record' = [f \in Fields |-> IF f \in DOMAIN op[t] THEN op[t][f] ELSE record[f]]
  /\ answer' = [answer EXCEPT ![t] = IF op[t] = Get THEN record ELSE NoAnswer]
  /\ UNCHANGED <<usable, op>>

Return(t) ==
  /\ phase[t] = "performed"
  /\ phase' = [phase EXCEPT ![t] = "idle"]
  /\ op' = [op EXCEPT ![t] = Get]
  /\ answer' = [answer EXCEPT ![t] = NoAnswer]
  /\ UNCHANGED <<record, usable>>

Next ==
  \/ Admit
  \/ \E t \in Tasks :
       \/ \E o \in Updates \cup {Get} : Call(t, o)
       \/ Refuse(t) \/ Perform(t) \/ Return(t)

Spec == Init /\ [][Next]_vars
=============================================================================
