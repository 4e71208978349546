-------------------------- MODULE StartOnceProofs ---------------------------
(***************************************************************************)
(* For any callers, services, handlers and failures: the start-once        *)
(* functions start each service once, and completely.                      *)
(***************************************************************************)
EXTENDS StartOnce, TLAPS

(* The flag is a lock: one caller at most is between claiming a start and  *)
(* ending it, and until then nothing is published.                         *)
ClaimExclusive ==
  /\ \A c \in Callers : pc[c] \in Claiming =>
       s_starting[wanted[c]] /\ s_handle[wanted[c]] = Null
  /\ \A c, d \in Callers :
       pc[c] \in Claiming /\ pc[d] \in Claiming /\ wanted[c] = wanted[d] => c = d

(* A caller holds a running instance of what it starts.                    *)
HoldsInstance ==
  \A c \in Callers : pc[c] \in Holding =>
    instance[c] # Null /\ runs[instance[c]] = wanted[c]

(* No instance is without an owner.                                        *)
Owned ==
  \A i \in Instances : runs[i] # Null =>
    \/ s_handle[runs[i]] = i
    \/ \E c \in Callers : pc[c] \in Holding /\ instance[c] = i /\ wanted[c] = runs[i]

StartInv == TypeOK /\ ClaimExclusive /\ HoldsInstance /\ Owned /\ PublishedComplete

Acts(c) == Step(c) \/ \E s \in Services : Call(c, s)

LEMMA InitStartInv == Init => StartInv
<1> SUFFICES ASSUME Init PROVE StartInv
  OBVIOUS
<1>1. TypeOK
  BY StartAssumption DEF Init, TypeOK
<1>2. ClaimExclusive /\ HoldsInstance
  BY DEF Init, ClaimExclusive, HoldsInstance, Claiming, Holding
<1>3. Owned /\ PublishedComplete
  BY DEF Init, Owned, PublishedComplete
<1> QED
  BY <1>1, <1>2, <1>3 DEF StartInv

(* The caller that acts knows its service and what it holds.               *)
LEMMA CallerFacts ==
  ASSUME StartInv, NEW c \in Callers, pc[c] # "idle"
  PROVE  /\ wanted[c] \in Services
         /\ pc[c] \in Holding => instance[c] \in Instances
BY DEF StartInv, TypeOK, HoldsInstance

LEMMA TypeStep ==
  ASSUME StartInv, NEW c \in Callers, Acts(c)
  PROVE  TypeOK'
<1> USE DEF StartInv, TypeOK, Goes, Claiming, Holding
<1>1. ASSUME NEW s \in Services, Call(c, s) PROVE TypeOK'
  BY <1>1, StartAssumption DEF Call
<1>2. CASE Join(c)
  BY <1>2 DEF Join
<1>3. CASE Claim(c)
  BY <1>3, CallerFacts DEF Claim
<1>4. CASE Create(c)
  BY <1>4, CallerFacts DEF Create
<1>5. CASE CreateFails(c) \/ RegisterFails(c)
  BY <1>5, StartAssumption DEF CreateFails, RegisterFails, Fails
<1>6. CASE Register(c)
  BY <1>6, CallerFacts DEF Register, callers
<1>7. CASE Stop(c)
  BY <1>7, CallerFacts DEF Stop
<1>8. CASE Publish(c)
  BY <1>8, CallerFacts DEF Publish
<1>9. CASE GiveUp(c)
  BY <1>9, CallerFacts DEF GiveUp
<1>10. CASE Return(c)
  BY <1>10 DEF Return
<1> QED
  BY <1>1, <1>2, <1>3, <1>4, <1>5, <1>6, <1>7, <1>8, <1>9, <1>10 DEF Acts, Step

LEMMA ClaimStep ==
  ASSUME StartInv, NEW c \in Callers, Acts(c)
  PROVE  ClaimExclusive'
<1> USE DEF StartInv, TypeOK, Goes, Claiming, Holding, ClaimExclusive
<1>1. ASSUME NEW s \in Services, Call(c, s) PROVE ClaimExclusive'
  BY <1>1 DEF Call
<1>2. CASE Join(c)
  BY <1>2 DEF Join
<1>3. CASE Claim(c)
  BY <1>3, CallerFacts DEF Claim
<1>4. CASE Create(c)
  BY <1>4 DEF Create
<1>5. CASE CreateFails(c) \/ RegisterFails(c)
  BY <1>5 DEF CreateFails, RegisterFails
<1>6. CASE Register(c)
  BY <1>6 DEF Register, callers
<1>7. CASE Stop(c)
  BY <1>7 DEF Stop
<1>8. CASE Publish(c)
  <2>1. \A d \in Callers \ {c} : pc[d] \in Claiming => wanted[d] # wanted[c]
    BY <1>8 DEF Publish
  <2> QED
    BY <1>8, <2>1, CallerFacts DEF Publish
<1>9. CASE GiveUp(c)
  <2>1. \A d \in Callers \ {c} : pc[d] \in Claiming => wanted[d] # wanted[c]
    BY <1>9 DEF GiveUp
  <2> QED
    BY <1>9, <2>1, CallerFacts DEF GiveUp
<1>10. CASE Return(c)
  BY <1>10 DEF Return
<1> QED
  BY <1>1, <1>2, <1>3, <1>4, <1>5, <1>6, <1>7, <1>8, <1>9, <1>10 DEF Acts, Step

(* Two callers that hold instances hold different ones, and none that is   *)
(* published.                                                              *)
LEMMA HeldApart ==
  ASSUME StartInv, NEW c \in Callers, pc[c] \in Holding
  PROVE  /\ \A d \in Callers \ {c} : pc[d] \in Holding => instance[d] # instance[c]
         /\ \A s \in Services : s_handle[s] # instance[c]
<1>1. runs[instance[c]] = wanted[c] /\ s_handle[wanted[c]] = Null /\ instance[c] # Null
  BY DEF StartInv, ClaimExclusive, HoldsInstance, Claiming
<1>2. ASSUME NEW d \in Callers \ {c}, pc[d] \in Holding PROVE instance[d] # instance[c]
  BY <1>1, <1>2 DEF StartInv, ClaimExclusive, HoldsInstance, Claiming
<1>3. ASSUME NEW s \in Services, s_handle[s] = instance[c] PROVE FALSE
  BY <1>1, <1>3 DEF StartInv, PublishedComplete
<1> QED
  BY <1>2, <1>3

LEMMA InstanceStep ==
  ASSUME StartInv, NEW c \in Callers, Acts(c)
  PROVE  HoldsInstance' /\ Owned' /\ PublishedComplete'
<1> USE DEF StartInv, TypeOK, Goes, Claiming, Holding, HoldsInstance, Owned, PublishedComplete
<1>1. ASSUME NEW s \in Services, Call(c, s)
      PROVE  HoldsInstance' /\ Owned' /\ PublishedComplete'
  BY <1>1 DEF Call
<1>2. CASE Join(c) \/ Claim(c) \/ CreateFails(c) \/ RegisterFails(c) \/ GiveUp(c) \/ Return(c)
  BY <1>2 DEF Join, Claim, CreateFails, RegisterFails, GiveUp, Return
<1>3. CASE Create(c)
  <2> PICK i \in Instances : /\ runs[i] = Null
                             /\ runs' = [runs EXCEPT ![i] = wanted[c]]
                             /\ handlers' = [handlers EXCEPT ![i] = 0]
                             /\ instance' = [instance EXCEPT ![c] = i]
    BY <1>3 DEF Create
  <2>1. wanted[c] \in Services /\ wanted[c] # Null
    BY <1>3, CallerFacts, StartAssumption DEF Create
  <2>2. i # Null /\ \A s \in Services : s_handle[s] # i
    BY StartAssumption
  <2>3. \A d \in Callers : pc[d] \in Holding => instance[d] # i
    BY StartAssumption, CallerFacts
  <2>4. /\ pc[c] = "create" /\ pc' = [pc EXCEPT ![c] = "register"]
        /\ UNCHANGED <<s_handle, s_starting, failures, wanted>>
    BY <1>3 DEF Create
  <2>5. HoldsInstance'
    BY <2>1, <2>2, <2>3, <2>4
  <2>6. PublishedComplete'
    BY <2>2, <2>4
  <2>7. Owned'
    <3> SUFFICES ASSUME NEW j \in Instances, runs'[j] # Null
                 PROVE  \/ s_handle'[runs'[j]] = j
                        \/ \E d \in Callers : pc'[d] \in Holding /\ instance'[d] = j
                                              /\ wanted'[d] = runs'[j]
      OBVIOUS
    <3>1. CASE j = i
      BY <2>4, <3>1
    <3>2. CASE j # i
      BY <2>4, <3>2
    <3> QED
      BY <3>1, <3>2
  <2> QED
    BY <2>5, <2>6, <2>7
<1>4. CASE Register(c)
  BY <1>4, HeldApart DEF Register, callers
<1>5. CASE Stop(c)
  <2>1. /\ \A d \in Callers \ {c} : pc[d] \in Holding => instance[d] # instance[c]
        /\ \A s \in Services : s_handle[s] # instance[c]
    BY <1>5, HeldApart DEF Stop
  <2> QED
    BY <1>5, <2>1 DEF Stop
<1>6. CASE Publish(c)
  <2>1. /\ wanted[c] \in Services
        /\ instance[c] \in Instances /\ runs[instance[c]] = wanted[c] /\ instance[c] # Null
        /\ handlers[instance[c]] = Registrations[wanted[c]]
        /\ s_handle[wanted[c]] = Null
    BY <1>6, CallerFacts DEF Publish, Registered, ClaimExclusive
  <2>2. /\ s_handle' = [s_handle EXCEPT ![wanted[c]] = instance[c]]
        /\ instance' = [instance EXCEPT ![c] = Null]
        /\ pc[c] = "register" /\ pc' = [pc EXCEPT ![c] = "ok"]
        /\ UNCHANGED <<runs, handlers, failures, wanted>>
    BY <1>6 DEF Publish
  <2>3. HoldsInstance'
    BY <2>2
  <2>4. PublishedComplete'
    BY <2>1, <2>2
  <2>5. Owned'
    <3> SUFFICES ASSUME NEW j \in Instances, runs[j] # Null
                 PROVE  \/ s_handle'[runs[j]] = j
                        \/ \E d \in Callers : pc'[d] \in Holding /\ instance'[d] = j
                                              /\ wanted[d] = runs[j]
      BY <2>2
    <3>1. CASE s_handle[runs[j]] = j
      BY <2>1, <2>2, <3>1, StartAssumption
    <3>2. ASSUME NEW d \in Callers, pc[d] \in Holding, instance[d] = j, wanted[d] = runs[j]
          PROVE  \/ s_handle'[runs[j]] = j
                 \/ \E e \in Callers : pc'[e] \in Holding /\ instance'[e] = j
                                       /\ wanted[e] = runs[j]
      <4>1. CASE d = c
        BY <2>1, <2>2, <3>2, <4>1
      <4>2. CASE d # c
        BY <2>2, <3>2, <4>2
      <4> QED
        BY <4>1, <4>2
    <3> QED
      BY <3>1, <3>2
  <2> QED
    BY <2>3, <2>4, <2>5
<1> QED
  BY <1>1, <1>2, <1>3, <1>4, <1>5, <1>6 DEF Acts, Step

LEMMA StartInvStep ==
  ASSUME StartInv, [Next]_startVars
  PROVE  StartInv'
<1>1. CASE Next
  <2> PICK c \in Callers : Acts(c)
    BY <1>1 DEF Next, Acts
  <2> QED
    BY TypeStep, ClaimStep, InstanceStep DEF StartInv
<1>2. CASE UNCHANGED startVars
  BY <1>2 DEF startVars, callers, StartInv, TypeOK, ClaimExclusive, HoldsInstance, Owned,
              PublishedComplete
<1> QED
  BY <1>1, <1>2

LEMMA StartInvariant == Spec => []StartInv
<1>1. StartInv /\ [Next]_startVars => StartInv'
  BY StartInvStep
<1> QED
  BY <1>1, InitStartInv, PTL DEF Spec

(* One caller claims a service, so that there is one instance of it.       *)
LEMMA OneOwned == StartInv => OneInstance
<1> SUFFICES ASSUME StartInv,
                    NEW i \in Instances, NEW j \in Instances, runs[i] = runs[j], runs[i] # Null
             PROVE  i = j
  BY DEF OneInstance, StartInv, Owned
<1>1. runs[i] \in Services
  BY DEF StartInv, TypeOK
<1>2. CASE s_handle[runs[i]] # Null
  BY <1>2 DEF StartInv, Owned, ClaimExclusive, Claiming
<1>3. CASE s_handle[runs[i]] = Null
  <2>1. i # Null /\ j # Null
    BY StartAssumption
  <2> QED
    BY <1>3, <2>1 DEF StartInv, Owned, ClaimExclusive, Claiming
<1> QED
  BY <1>2, <1>3

(* Every variable of the start-once functions keeps its type.              *)
THEOREM StartTypeCorrect == Spec => []TypeOK
<1>1. StartInv => TypeOK
  BY DEF StartInv
<1> QED
  BY <1>1, StartInvariant, PTL

(* There is never a second sensor task, OIDC task or API server, and none  *)
(* that nobody owns, however the callers interleave and what fails.        *)
THEOREM StartedOnce == Spec => []OneInstance
<1> QED
  BY OneOwned, StartInvariant, PTL

(* A server that others find has all of its handlers.                      *)
THEOREM PublishedWhole == Spec => []PublishedComplete
<1>1. StartInv => PublishedComplete
  BY DEF StartInv
<1> QED
  BY <1>1, StartInvariant, PTL

----------------------------------------------------------------------------
(* The refinement.                                                         *)

LEMMA StepRefines ==
  ASSUME StartInv, NEW c \in Callers, Acts(c)
  PROVE  Service!Next \/ UNCHANGED Service!vars
<1> USE DEF StartInv, TypeOK, Goes, Claiming, Holding, Service!Goes
<1> DEFINE Silent == UNCHANGED <<UpBar, PhaseBar, wanted>>
<1>0. Silent => UNCHANGED Service!vars
  BY DEF Service!vars
<1>1. ASSUME NEW s \in Services, Call(c, s) PROVE Service!Call(c, s)
  BY <1>1 DEF Call, Service!Call, UpBar, PhaseBar
<1>2. CASE Join(c)
  <2>1. Service!Join(c)
    BY <1>2, CallerFacts DEF Join, Service!Join, UpBar, PhaseBar
  <2> QED
    BY <2>1 DEF Service!Next
<1>3. CASE Claim(c) \/ Create(c) \/ CreateFails(c) \/ RegisterFails(c) \/ Stop(c)
  <2>1. UNCHANGED <<s_handle, wanted>>
    BY <1>3 DEF Claim, Create, CreateFails, RegisterFails, Stop
  <2>2. PhaseBar' = PhaseBar
    BY <1>3 DEF Claim, Create, CreateFails, RegisterFails, Stop, PhaseBar
  <2> QED
    BY <1>0, <2>1, <2>2 DEF UpBar
<1>4. CASE Register(c)
  BY <1>0, <1>4 DEF Register, callers, UpBar, PhaseBar
<1>5. CASE Publish(c)
  <2>1. /\ pc[c] = "register" /\ pc' = [pc EXCEPT ![c] = "ok"]
        /\ s_handle' = [s_handle EXCEPT ![wanted[c]] = instance[c]] /\ wanted' = wanted
        /\ wanted[c] \in Services /\ s_handle[wanted[c]] = Null /\ instance[c] # Null
    BY <1>5, CallerFacts DEF Publish, ClaimExclusive, HoldsInstance
  <2>2. wanted[c] \notin UpBar /\ UpBar' = UpBar \cup {wanted[c]}
    BY <2>1 DEF UpBar
  <2>3. PhaseBar[c] = "calling" /\ PhaseBar' = [PhaseBar EXCEPT ![c] = "ok"]
    BY <2>1 DEF PhaseBar
  <2>4. Service!Start(c)
    BY <2>1, <2>2, <2>3 DEF Service!Start
  <2> QED
    BY <2>4 DEF Service!Next
<1>6. CASE GiveUp(c)
  <2>1. wanted[c] \notin UpBar /\ UNCHANGED <<UpBar, wanted>>
    BY <1>6 DEF GiveUp, UpBar, ClaimExclusive
  <2>2. PhaseBar[c] = "calling" /\ PhaseBar' = [PhaseBar EXCEPT ![c] = "failed"]
    BY <1>6 DEF GiveUp, PhaseBar
  <2>3. Service!Fail(c)
    BY <2>1, <2>2 DEF Service!Fail
  <2> QED
    BY <2>3 DEF Service!Next
<1>7. CASE Return(c)
  <2>1. Service!Return(c)
    BY <1>7 DEF Return, Service!Return, UpBar, PhaseBar
  <2> QED
    BY <2>1 DEF Service!Next
<1>8. ASSUME NEW s \in Services, Call(c, s) PROVE Service!Next
  BY <1>1, <1>8 DEF Service!Next
<1> QED
  BY <1>2, <1>3, <1>4, <1>5, <1>6, <1>7, <1>8 DEF Acts, Step

LEMMA InitRefines == Init => Service!Init
<1> SUFFICES ASSUME Init PROVE Service!Init
  OBVIOUS
<1>1. UpBar = {}
  BY DEF Init, UpBar
<1>2. PhaseBar = [c \in Callers |-> "idle"]
  BY DEF Init, PhaseBar, Claiming, Holding
<1> QED
  BY <1>1, <1>2 DEF Init, Service!Init

LEMMA NextRefines == StartInv /\ [Next]_startVars => [Service!Next]_(Service!vars)
<1> SUFFICES ASSUME StartInv, [Next]_startVars PROVE [Service!Next]_(Service!vars)
  OBVIOUS
<1>1. CASE Next
  <2> PICK c \in Callers : Acts(c)
    BY <1>1 DEF Next, Acts
  <2> QED
    BY StepRefines
<1>2. CASE UNCHANGED startVars
  BY <1>2 DEF startVars, callers, Service!vars, UpBar, PhaseBar
<1> QED
  BY <1>1, <1>2

(* sensor_task_start, api_server_start and auth_oidc_start start once: a   *)
(* call succeeds only if its service is up, and fails only while it is     *)
(* down, whoever else calls meanwhile.                                     *)
THEOREM StartsOnce == Spec => ImplementsOnce
<1> QED
  BY InitRefines, NextRefines, StartInvariant, PTL DEF Spec, ImplementsOnce, Service!Spec
=============================================================================
