--------------------------- MODULE GuardedRecord ---------------------------
(***************************************************************************)
(* A record behind a mutex that its first caller creates: all of           *)
(* main/app_status.c, and s_latest of main/sensor_task.c, which repeats    *)
(* the same code (as does auth_oidc_ensure_mutex for s_auth_mutex).  Any   *)
(* task may make any call at any time, the first ones included.            *)
(*                                                                         *)
(* A step is a critical section under the spinlock, one call of the        *)
(* semaphore library, or one field copied: a struct assignment is not      *)
(* atomic.  The semaphores are slots of the heap: one that was deleted may *)
(* be handed out again.                                                    *)
(***************************************************************************)
EXTENDS FiniteSets

CONSTANTS
  Tasks,     \* the tasks that call
  Handles,   \* the semaphores the heap has room for
  Null,      \* no semaphore, no task
  Fields,    \* the fields of the record
  Values,    \* their values
  Zero,      \* the zeroed record
  Updates,   \* what a call may write: some fields and their values
  NoAnswer   \* the answer of a call that has not been performed

ASSUME RecordAssumption ==
  /\ Fields # {}
  /\ Zero \in [Fields -> Values]
  /\ \A u \in Updates : /\ DOMAIN u # {} /\ DOMAIN u \subseteq Fields
                        /\ u = [f \in DOMAIN u |-> u[f]]
                        /\ \A f \in DOMAIN u : u[f] \in Values
  /\ Null \notin Tasks /\ Null \notin Handles

VARIABLES
  s_mutex,     \* s_status_mutex, s_latest_mutex
  live,        \* semaphores created and not deleted
  holder,      \* for each of them, the task that has taken it
  s_record,    \* s_status, s_latest
  pc,          \* where each task is in its call
  op,          \* that call: an update, or Get
  new_mutex,   \* the semaphore it has created
  copy,        \* the record a Get has copied so far
  left         \* the fields it has not accessed yet

local == <<op, new_mutex, copy, left>>
vars  == <<s_mutex, live, holder, s_record, pc, local>>

Get == [f \in {} |-> Zero]      \* a call that writes nothing

Init ==
  /\ s_mutex = Null
  /\ live = {}
  /\ holder = [h \in Handles |-> Null]
  /\ s_record = Zero
  /\ pc = [t \in Tasks |-> "idle"]
  /\ op = [t \in Tasks |-> Get]
  /\ new_mutex = [t \in Tasks |-> Null]
  /\ copy = [t \in Tasks |-> Zero]
  /\ left = [t \in Tasks |-> {}]

----------------------------------------------------------------------------
Goes(t, from, to) ==
  /\ pc[t] = from
  /\ pc' = [pc EXCEPT ![t] = to]

Call(t, o) ==
  /\ Goes(t, "idle", "ensure")
  /\ op' = [op EXCEPT ![t] = o]
  /\ UNCHANGED <<s_mutex, live, holder, s_record, new_mutex, copy, left>>

(* app_status_mutex_ensure looks for a mutex under the spinlock, ...       *)
SeeMutex(t) ==
  /\ Goes(t, "ensure", IF s_mutex # Null THEN "take" ELSE "create")
  /\ UNCHANGED <<s_mutex, live, holder, s_record, local>>

(* ... creates one without it, or ends the call when there is no memory,   *)
CreateUncheckedMutex(t) ==
  /\ Goes(t, "create", "take")
  /\ UNCHANGED <<s_mutex, live, holder, s_record, local>>

CreateMutex(t) ==
  /\ \E h \in Handles \ live :
       /\ live' = live \cup {h}
       /\ new_mutex' = [new_mutex EXCEPT ![t] = h]
  /\ Goes(t, "create", "publish")
  /\ UNCHANGED <<s_mutex, holder, s_record, op, copy, left>>

NoMemory(t) ==
  /\ Goes(t, "create", "idle")
  /\ op' = [op EXCEPT ![t] = Get]
  /\ UNCHANGED <<s_mutex, live, holder, s_record, new_mutex, copy, left>>

(* ... publishes it unless another task has been faster,                   *)
PublishBlindly(t) ==
  /\ Goes(t, "publish", "take")
  /\ s_mutex' = new_mutex[t]
  /\ new_mutex' = [new_mutex EXCEPT ![t] = Null]
  /\ UNCHANGED <<live, holder, s_record, op, copy, left>>

PublishMutex(t) ==
  /\ IF s_mutex = Null
       THEN /\ Goes(t, "publish", "take")
            /\ s_mutex' = new_mutex[t]
            /\ new_mutex' = [new_mutex EXCEPT ![t] = Null]
       ELSE /\ Goes(t, "publish", "delete")
            /\ UNCHANGED <<s_mutex, new_mutex>>
  /\ UNCHANGED <<live, holder, s_record, op, copy, left>>

(* ... and deletes its own if so.                                          *)
DeleteSpare(t) ==
  /\ Goes(t, "delete", "take")
  /\ live' = live \ {new_mutex[t]}
  /\ new_mutex' = [new_mutex EXCEPT ![t] = Null]
  /\ UNCHANGED <<s_mutex, holder, s_record, op, copy, left>>

TakeWithoutWaiting(t) ==
  /\ Goes(t, "take", "access")
  /\ holder' = [holder EXCEPT ![s_mutex] = t]
  /\ left' = [left EXCEPT ![t] = IF op[t] = Get THEN Fields ELSE DOMAIN op[t]]
  /\ UNCHANGED <<s_mutex, live, s_record, op, new_mutex, copy>>

(* The setters write their flag, sensor_latest_store_error two fields and  *)
(* sensor_latest_store all of them; the getters copy the whole record.     *)
Take(t) ==
  /\ Goes(t, "take", "access")
  /\ holder[s_mutex] = Null
  /\ holder' = [holder EXCEPT ![s_mutex] = t]
  /\ left' = [left EXCEPT ![t] = IF op[t] = Get THEN Fields ELSE DOMAIN op[t]]
  /\ UNCHANGED <<s_mutex, live, s_record, op, new_mutex, copy>>

Access(t) ==
  /\ \E f \in left[t] :
       /\ left' = [left EXCEPT ![t] = @ \ {f}]
       /\ IF op[t] = Get
            THEN /\ copy' = [copy EXCEPT ![t][f] = s_record[f]]
                 /\ UNCHANGED s_record
            ELSE /\ s_record' = [s_record EXCEPT ![f] = op[t][f]]
                 /\ UNCHANGED copy
  /\ Goes(t, "access", IF left'[t] = {} THEN "give" ELSE "access")
  /\ UNCHANGED <<s_mutex, live, holder, op, new_mutex>>

GiveAfterWriting(t) ==
  /\ Goes(t, "give", "idle")
  /\ holder' = [holder EXCEPT ![s_mutex] = IF op[t] = Get THEN @ ELSE Null]
  /\ op' = [op EXCEPT ![t] = Get]
  /\ copy' = [copy EXCEPT ![t] = Zero]
  /\ UNCHANGED <<s_mutex, live, s_record, new_mutex, left>>

Give(t) ==
  /\ Goes(t, "give", "idle")
  /\ holder' = [holder EXCEPT ![s_mutex] = Null]
  /\ op' = [op EXCEPT ![t] = Get]
  /\ copy' = [copy EXCEPT ![t] = Zero]
  /\ UNCHANGED <<s_mutex, live, s_record, new_mutex, left>>

Step(t) ==
  \/ SeeMutex(t) \/ CreateMutex(t) \/ NoMemory(t) \/ PublishMutex(t) \/ DeleteSpare(t)
  \/ Take(t) \/ Access(t) \/ Give(t)

Next ==
  \E t \in Tasks : Step(t) \/ \E o \in Updates \cup {Get} : Call(t, o)

(* FreeRTOS runs every task and gives a mutex to one that waits for it, so *)
(* no call starves at the lock; nobody has to call.                        *)
Fairness == \A t \in Tasks : SF_vars(Step(t))

Spec == Init /\ [][Next]_vars /\ Fairness

----------------------------------------------------------------------------
(* Properties.                                                             *)

InUse == {"take", "access", "give"}

(* Every variable keeps its type, and a task that is past the creation has *)
(* a mutex to take.                                                        *)
TypeOK ==
  /\ s_mutex \in Handles \cup {Null}
  /\ live \subseteq Handles
  /\ holder \in [Handles -> Tasks \cup {Null}]
  /\ s_record \in [Fields -> Values]
  /\ pc \in [Tasks -> {"idle", "ensure", "create", "publish", "delete"} \cup InUse]
  /\ op \in [Tasks -> Updates \cup {Get}]
  /\ new_mutex \in [Tasks -> Handles \cup {Null}]
  /\ copy \in [Tasks -> [Fields -> Values]]
  /\ left \in [Tasks -> SUBSET Fields]
  /\ \A t \in Tasks : pc[t] \in InUse => s_mutex # Null

(* However many tasks create a mutex at once, each one that exists is the  *)
(* published one or in the hands of the one task that will publish or      *)
(* delete it: none leaks, and none that anybody uses is deleted.           *)
MutexesOwned ==
  /\ live = ({s_mutex} \cup {new_mutex[t] : t \in Tasks}) \ {Null}
  /\ \A t \in Tasks : new_mutex[t] # Null =>
       /\ new_mutex[t] # s_mutex
       /\ \A u \in Tasks \ {t} : new_mutex[u] # new_mutex[t]

(* The record is what it would be if calls were atomic: a call is "early"  *)
(* until it is sure of a mutex, "pending" until it has taken it; an update *)
(* counts as performed from then on, a read once everything is copied.     *)
Writing(t) == pc[t] = "access" /\ op[t] # Get

Early(t) ==
  \/ pc[t] \in {"create", "publish", "delete"}
  \/ pc[t] = "ensure" /\ s_mutex = Null

PhaseBar ==
  [t \in Tasks |-> IF pc[t] = "idle" THEN "idle"
                   ELSE IF pc[t] = "give" \/ Writing(t) THEN "performed"
                   ELSE IF Early(t) THEN "early" ELSE "pending"]

RecordBar ==
  LET writer == holder[s_mutex]
      overwritten(f) == s_mutex # Null /\ writer # Null /\ op[writer] # Get /\ f \in left[writer]
  IN [f \in Fields |-> IF overwritten(f) THEN op[writer][f] ELSE s_record[f]]

AnswerBar ==
  [t \in Tasks |-> IF pc[t] = "give" /\ op[t] = Get THEN copy[t] ELSE NoAnswer]

Atomic == INSTANCE AtomicRecord
            WITH record <- RecordBar, usable <- (s_mutex # Null),
                 phase <- PhaseBar, answer <- AnswerBar

(* The callers of app_status.h and sensor_task.h get the atomic record     *)
(* they rely on: no torn read, no lost update, and no refusal of a call    *)
(* that begins when the mutex exists.                                      *)
ImplementsAtomicRecord == Atomic!Spec

(* Every call returns: no path keeps the mutex, none waits for a mutex     *)
(* that is gone.                                                           *)
CallsReturn == \A t \in Tasks : pc[t] # "idle" ~> pc[t] = "idle"
=============================================================================
