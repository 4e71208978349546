----------------------------- MODULE StartOnce ------------------------------
(***************************************************************************)
(* The start-once functions: the loop of sensor_task_start, of             *)
(* api_server_start and of auth_oidc_start, which guard the same two       *)
(* variables with a spinlock in the same way, and what they start.  A      *)
(* service is a task, or a server with handlers to register afterwards.    *)
(*                                                                         *)
(* A call begins at the loop: what auth_oidc_start checks before it, and   *)
(* its early ESP_OK without an audience, are in Provisioning.              *)
(*                                                                         *)
(* A step is a critical section or a library call.  Memory is short for a  *)
(* while only: at most MaxFailures creations and registrations fail.       *)
(***************************************************************************)
EXTENDS Naturals

CONSTANTS
  Callers,        \* the tasks that call
  Services,       \* what they start
  Registrations,  \* the number of handlers each service needs
  Instances,      \* numbered control blocks for tasks and servers
  MaxFailures,    \* bound: how many creations and registrations fail
  Null            \* no instance, no service

ASSUME StartAssumption ==
  /\ Registrations \in [Services -> Nat]
  /\ MaxFailures \in Nat
  /\ Instances \subseteq Nat
  /\ Null \notin Services /\ Null \notin Instances

VARIABLES
  s_handle,       \* per service: s_sensor_task_handle, s_server, s_auth_task_handle
  s_starting,     \* per service: s_sensor_task_starting, s_server_starting, ...
  runs,           \* what each instance is an instance of, if it exists
  handlers,       \* how many handlers are registered with it
  failures,       \* how many library calls have failed
  pc,             \* where each caller is in its call
  wanted,         \* the service it starts
  instance        \* the instance it has created: task_handle, server

callers   == <<pc, wanted, instance>>
startVars == <<s_handle, s_starting, runs, handlers, failures, callers>>

Init ==
  /\ s_handle = [s \in Services |-> Null]
  /\ s_starting = [s \in Services |-> FALSE]
  /\ runs = [i \in Instances |-> Null]
  /\ handlers = [i \in Instances |-> 0]
  /\ failures = 0
  /\ pc = [c \in Callers |-> "idle"]
  /\ wanted = [c \in Callers |-> Null]
  /\ instance = [c \in Callers |-> Null]

----------------------------------------------------------------------------
Goes(c, from, to) ==
  /\ pc[c] = from
  /\ pc' = [pc EXCEPT ![c] = to]

Fails ==
  /\ failures < MaxFailures
  /\ failures' = failures + 1

Call(c, s) ==
  /\ Goes(c, "idle", "check")
  /\ wanted' = [wanted EXCEPT ![c] = s]
  /\ UNCHANGED <<s_handle, s_starting, runs, handlers, failures, instance>>

(* The loop: return if the service runs, claim its start if nobody has,    *)
(* or sleep for a tick and look again, which changes nothing.              *)
Join(c) ==
  /\ Goes(c, "check", "ok")
  /\ s_handle[wanted[c]] # Null
  /\ UNCHANGED <<s_handle, s_starting, runs, handlers, failures, wanted, instance>>

ClaimTogether(c) ==
  /\ Goes(c, "check", "create")
  /\ s_handle[wanted[c]] = Null
  /\ s_starting' = [s_starting EXCEPT ![wanted[c]] = TRUE]
  /\ UNCHANGED <<s_handle, runs, handlers, failures, wanted, instance>>

Claim(c) ==
  /\ Goes(c, "check", "create")
  /\ s_handle[wanted[c]] = Null
  /\ ~s_starting[wanted[c]]
  /\ s_starting' = [s_starting EXCEPT ![wanted[c]] = TRUE]
  /\ UNCHANGED <<s_handle, runs, handlers, failures, wanted, instance>>

(* xTaskCreate, httpd_start.  Which free block they use makes no           *)
(* difference: it is the first.                                            *)
Create(c) ==
  /\ Goes(c, "create", "register")
  /\ \E i \in Instances :
       /\ runs[i] = Null
       /\ \A j \in Instances : j < i => runs[j] # Null
       /\ runs' = [runs EXCEPT ![i] = wanted[c]]
       /\ handlers' = [handlers EXCEPT ![i] = 0]
       /\ instance' = [instance EXCEPT ![c] = i]
  /\ UNCHANGED <<s_handle, s_starting, failures, wanted>>

CreateFails(c) ==
  /\ Goes(c, "create", "finish")
  /\ Fails
  /\ UNCHANGED <<s_handle, s_starting, runs, handlers, wanted, instance>>

(* httpd_register_uri_handler, until one fails: then httpd_stop.           *)
CreatedAtAll(c) == instance[c] # Null

Registered(c) == handlers[instance[c]] = Registrations[wanted[c]]

Register(c) ==
  /\ pc[c] = "register" /\ ~Registered(c)
  /\ handlers' = [handlers EXCEPT ![instance[c]] = @ + 1]
  /\ UNCHANGED <<s_handle, s_starting, runs, failures, callers>>

RegisterFails(c) ==
  /\ Goes(c, "register", "stop")
  /\ ~Registered(c)
  /\ Fails
  /\ UNCHANGED <<s_handle, s_starting, runs, handlers, wanted, instance>>

StopLeaking(c) ==
  /\ Goes(c, "stop", "finish")
  /\ instance' = [instance EXCEPT ![c] = Null]
  /\ UNCHANGED <<s_handle, s_starting, runs, handlers, failures, wanted>>

Stop(c) ==
  /\ Goes(c, "stop", "finish")
  /\ runs' = [runs EXCEPT ![instance[c]] = Null]
  /\ handlers' = [handlers EXCEPT ![instance[c]] = 0]
  /\ instance' = [instance EXCEPT ![c] = Null]
  /\ UNCHANGED <<s_handle, s_starting, failures, wanted>>

Publish(c) ==
  /\ Goes(c, "register", "ok")
  /\ Registered(c)
  /\ s_handle' = [s_handle EXCEPT ![wanted[c]] = instance[c]]
  /\ s_starting' = [s_starting EXCEPT ![wanted[c]] = FALSE]
  /\ instance' = [instance EXCEPT ![c] = Null]
  /\ UNCHANGED <<runs, handlers, failures, wanted>>

GiveUpClaimed(c) ==
  /\ Goes(c, "finish", "failed")
  /\ UNCHANGED <<s_handle, s_starting, runs, handlers, failures, wanted, instance>>

GiveUpSilently(c) ==
  /\ Goes(c, "finish", "ok")
  /\ s_starting' = [s_starting EXCEPT ![wanted[c]] = FALSE]
  /\ UNCHANGED <<s_handle, runs, handlers, failures, wanted, instance>>

GiveUp(c) ==
  /\ Goes(c, "finish", "failed")
  /\ s_starting' = [s_starting EXCEPT ![wanted[c]] = FALSE]
  /\ UNCHANGED <<s_handle, runs, handlers, failures, wanted, instance>>

Return(c) ==
  /\ Goes(c, "ok", "idle") \/ Goes(c, "failed", "idle")
  /\ wanted' = [wanted EXCEPT ![c] = Null]
  /\ UNCHANGED <<s_handle, s_starting, runs, handlers, failures, instance>>

Step(c) ==
  \/ Join(c) \/ Claim(c) \/ Create(c) \/ CreateFails(c) \/ Register(c) \/ RegisterFails(c)
  \/ Stop(c) \/ Publish(c) \/ GiveUp(c) \/ Return(c)

Next == \E c \in Callers : Step(c) \/ \E s \in Services : Call(c, s)

(* FreeRTOS runs every task: a caller that waits looks at every tick.      *)
Fairness == \A c \in Callers : WF_startVars(Step(c))

Spec == Init /\ [][Next]_startVars /\ Fairness

----------------------------------------------------------------------------
(* Properties.                                                             *)

Holding  == {"register", "stop"}            \* a caller that has an instance
Claiming == {"create", "finish"} \cup Holding

(* Every variable keeps its type, and a call is for a service.             *)
TypeOK ==
  /\ s_handle \in [Services -> Instances \cup {Null}]
  /\ s_starting \in [Services -> BOOLEAN]
  /\ runs \in [Instances -> Services \cup {Null}]
  /\ handlers \in [Instances -> Nat]
  /\ failures \in 0..MaxFailures
  /\ pc \in [Callers -> {"idle", "check", "ok", "failed"} \cup Claiming]
  /\ wanted \in [Callers -> Services \cup {Null}]
  /\ instance \in [Callers -> Instances \cup {Null}]
  /\ \A c \in Callers : pc[c] = "idle" \/ wanted[c] # Null

(* There is never a second task or server of a kind, nor one that nobody   *)
(* will ever stop or find: an instance is the published one, or belongs to *)
(* the one caller that is starting the service.                            *)
OneInstance ==
  /\ \A i, j \in Instances : runs[i] = runs[j] /\ runs[i] # Null => i = j
  /\ \A i \in Instances : runs[i] # Null =>
       \/ s_handle[runs[i]] = i
       \/ \E c \in Callers : pc[c] \in Holding /\ instance[c] = i /\ wanted[c] = runs[i]

(* What the other tasks find published exists and is complete: a server    *)
(* that lacks a handler is never taken for the service.                    *)
PublishedComplete ==
  \A s \in Services : s_handle[s] # Null =>
    /\ runs[s_handle[s]] = s
    /\ handlers[s_handle[s]] = Registrations[s]

UpBar    == {s \in Services : s_handle[s] # Null}
PhaseBar == [c \in Callers |-> IF pc[c] \in {"check"} \cup Claiming THEN "calling" ELSE pc[c]]

Service == INSTANCE Once WITH up <- UpBar, phase <- PhaseBar

(* Each function keeps the promise of Once, with any number of callers.    *)
ImplementsOnce == Service!Spec

(* Every call returns: a start that fails lets the waiting callers try.    *)
CallsReturn == \A c \in Callers : pc[c] # "idle" ~> pc[c] = "idle"
=============================================================================
