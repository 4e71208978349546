------------------------ MODULE GuardedRecordProofs ------------------------
(***************************************************************************)
(* For any tasks, records and updates, and any room for semaphores: the    *)
(* record behind the lazily created mutex is an atomic record.             *)
(***************************************************************************)
EXTENDS GuardedRecord, TLAPS

Holding == {"access", "give"}

(* Nobody takes any mutex but the published one, and a task is between     *)
(* take and give exactly while it holds it.                                *)
OnlyHolder ==
  /\ \A h \in Handles : h # s_mutex => holder[h] = Null
  /\ \A t \in Tasks : pc[t] \in Holding => s_mutex # Null /\ holder[s_mutex] = t
  /\ \A t \in Tasks : s_mutex # Null /\ holder[s_mutex] = t => pc[t] \in Holding

(* A task has a semaphore in hand exactly between creating and publishing  *)
(* or deleting it.                                                         *)
InHand == \A t \in Tasks : new_mutex[t] # Null <=> pc[t] \in {"publish", "delete"}

(* The semaphores that exist are accounted for, as in MutexesOwned.        *)
Reached == \A t \in Tasks : pc[t] = "delete" => s_mutex # Null

(* What a task has not accessed yet, and what it has copied so far.        *)
AccessProgress ==
  \A t \in Tasks :
    /\ pc[t] # "access" => left[t] = {}
    /\ op[t] # Get => left[t] \subseteq DOMAIN op[t]
    /\ pc[t] \in Holding /\ op[t] = Get =>
         \A f \in Fields \ left[t] : copy[t][f] = s_record[f]

RecordInv == TypeOK /\ MutexesOwned /\ OnlyHolder /\ InHand /\ Reached /\ AccessProgress

LEMMA GetFacts == DOMAIN Get = {} /\ \A u \in Updates : u # Get
<1>1. DOMAIN Get = {}
  BY DEF Get
<1> QED
  BY <1>1, RecordAssumption

LEMMA InitRecordInv == Init => RecordInv
<1> SUFFICES ASSUME Init PROVE RecordInv
  OBVIOUS
<1>1. TypeOK
  BY RecordAssumption DEF Init, TypeOK, InUse
<1>2. MutexesOwned
  <2>1. \A t \in Tasks : new_mutex[t] = Null
    BY DEF Init
  <2> QED
    BY <2>1 DEF Init, MutexesOwned
<1>3. OnlyHolder /\ InHand /\ Reached /\ AccessProgress
  BY RecordAssumption, GetFacts DEF Init, OnlyHolder, InHand, Reached, AccessProgress, Holding
<1> QED
  BY <1>1, <1>2, <1>3 DEF RecordInv

----------------------------------------------------------------------------
(* The invariant, conjunct by conjunct.                                    *)

LEMMA TypeStep ==
  ASSUME RecordInv, NEW t \in Tasks, Step(t) \/ \E o \in Updates \cup {Get} : Call(t, o)
  PROVE  TypeOK'
<1> USE DEF RecordInv, TypeOK, Goes, InUse
<1>1. ASSUME NEW o \in Updates \cup {Get}, Call(t, o) PROVE TypeOK'
  BY <1>1 DEF Call
<1>2. CASE SeeMutex(t)
  BY <1>2 DEF SeeMutex, local
<1>3. CASE CreateMutex(t)
  BY <1>3 DEF CreateMutex
<1>4. CASE NoMemory(t)
  BY <1>4 DEF NoMemory
<1>5. CASE PublishMutex(t)
  BY <1>5 DEF PublishMutex, InHand
<1>6. CASE DeleteSpare(t)
  BY <1>6 DEF DeleteSpare, Reached
<1>7. CASE Take(t)
  <2>1. DOMAIN op[t] \subseteq Fields
    BY RecordAssumption, GetFacts
  <2> QED
    BY <1>7, <2>1 DEF Take
<1>8. CASE Access(t)
  <2> SUFFICES ASSUME NEW f \in left[t], Access(t),
                      left' = [left EXCEPT ![t] = @ \ {f}],
                      IF op[t] = Get
                        THEN copy' = [copy EXCEPT ![t][f] = s_record[f]] /\ UNCHANGED s_record
                        ELSE s_record' = [s_record EXCEPT ![f] = op[t][f]] /\ UNCHANGED copy
               PROVE  TypeOK'
    BY <1>8 DEF Access
  <2>1. f \in Fields
    OBVIOUS
  <2>2. s_record' \in [Fields -> Values]
    <3>1. CASE op[t] = Get
      BY <3>1
    <3>2. CASE op[t] # Get
      BY <3>2, <2>1, RecordAssumption DEF AccessProgress
    <3> QED
      BY <3>1, <3>2
  <2>3. copy' \in [Tasks -> [Fields -> Values]]
    <3>1. CASE op[t] = Get
      <4>1. s_record[f] \in Values
        BY <2>1
      <4>2. [copy[t] EXCEPT ![f] = s_record[f]] \in [Fields -> Values]
        BY <4>1
      <4>3. copy' = [copy EXCEPT ![t] = [copy[t] EXCEPT ![f] = s_record[f]]]
        BY <3>1
      <4> QED
        BY <4>2, <4>3
    <3>2. CASE op[t] # Get
      BY <3>2
    <3> QED
      BY <3>1, <3>2
  <2> QED
    BY <2>2, <2>3 DEF Access
<1>9. CASE Give(t)
  BY <1>9, RecordAssumption DEF Give
<1> QED
  BY <1>1, <1>2, <1>3, <1>4, <1>5, <1>6, <1>7, <1>8, <1>9 DEF Step

LEMMA MutexesStep ==
  ASSUME RecordInv, NEW t \in Tasks, Step(t) \/ \E o \in Updates \cup {Get} : Call(t, o)
  PROVE  MutexesOwned' /\ InHand' /\ Reached'
<1> USE DEF RecordInv, TypeOK, Goes, InHand, Reached, MutexesOwned
<1>1. ASSUME NEW o \in Updates \cup {Get}, Call(t, o) PROVE MutexesOwned' /\ InHand' /\ Reached'
  BY <1>1 DEF Call
<1>2. CASE SeeMutex(t)
  BY <1>2 DEF SeeMutex, local
<1>3. CASE CreateMutex(t)
  <2> PICK h \in Handles \ live : live' = live \cup {h} /\ new_mutex' = [new_mutex EXCEPT ![t] = h]
    BY <1>3 DEF CreateMutex
  <2>1. new_mutex[t] = Null /\ h # Null /\ h # s_mutex /\ \A u \in Tasks : new_mutex[u] # h
    BY <1>3, RecordAssumption DEF CreateMutex
  <2>2. {new_mutex'[u] : u \in Tasks} \ {Null} = ({new_mutex[u] : u \in Tasks} \ {Null}) \cup {h}
    BY <2>1
  <2>3. live' = ({s_mutex'} \cup {new_mutex'[u] : u \in Tasks}) \ {Null}
    BY <1>3, <2>1, <2>2 DEF CreateMutex
  <2> QED
    BY <1>3, <2>1, <2>3 DEF CreateMutex
<1>4. CASE NoMemory(t)
  BY <1>4 DEF NoMemory
<1>5. CASE PublishMutex(t)
  <2>1. new_mutex[t] # Null
    BY <1>5 DEF PublishMutex
  <2>2. CASE s_mutex = Null
    <3>1. {new_mutex'[u] : u \in Tasks} \ {Null} = ({new_mutex[u] : u \in Tasks} \ {Null}) \ {new_mutex[t]}
      BY <1>5, <2>1, <2>2 DEF PublishMutex
    <3>2. live' = ({s_mutex'} \cup {new_mutex'[u] : u \in Tasks}) \ {Null}
      BY <1>5, <2>1, <2>2, <3>1 DEF PublishMutex
    <3>3. \A u \in Tasks : new_mutex'[u] # Null => new_mutex'[u] = new_mutex[u] /\ u # t
      BY <1>5, <2>1, <2>2 DEF PublishMutex
    <3>4. InHand' /\ Reached'
      BY <1>5, <2>1, <2>2, <3>3 DEF PublishMutex
    <3> QED
      BY <1>5, <2>1, <2>2, <3>2, <3>3, <3>4 DEF PublishMutex
  <2>3. CASE s_mutex # Null
    BY <1>5, <2>1, <2>3 DEF PublishMutex
  <2> QED
    BY <2>2, <2>3
<1>6. CASE DeleteSpare(t)
  <2>1. new_mutex[t] # Null
    BY <1>6 DEF DeleteSpare
  <2>2. {new_mutex'[u] : u \in Tasks} \ {Null} = ({new_mutex[u] : u \in Tasks} \ {Null}) \ {new_mutex[t]}
    BY <1>6, <2>1 DEF DeleteSpare
  <2>3. live' = ({s_mutex'} \cup {new_mutex'[u] : u \in Tasks}) \ {Null}
    BY <1>6, <2>1, <2>2 DEF DeleteSpare
  <2> QED
    BY <1>6, <2>1, <2>3 DEF DeleteSpare
<1>7. CASE Take(t)
  BY <1>7 DEF Take
<1>8. CASE Access(t)
  BY <1>8 DEF Access
<1>9. CASE Give(t)
  BY <1>9 DEF Give
<1> QED
  BY <1>1, <1>2, <1>3, <1>4, <1>5, <1>6, <1>7, <1>8, <1>9 DEF Step

LEMMA HolderStep ==
  ASSUME RecordInv, NEW t \in Tasks, Step(t) \/ \E o \in Updates \cup {Get} : Call(t, o)
  PROVE  OnlyHolder'
<1> USE DEF RecordInv, TypeOK, Goes, OnlyHolder, Holding, InUse
<1>1. ASSUME NEW o \in Updates \cup {Get}, Call(t, o) PROVE OnlyHolder'
  BY <1>1 DEF Call
<1>2. CASE SeeMutex(t)
  BY <1>2 DEF SeeMutex
<1>3. CASE CreateMutex(t)
  BY <1>3 DEF CreateMutex
<1>4. CASE NoMemory(t)
  BY <1>4 DEF NoMemory
<1>5. CASE PublishMutex(t)
  <2>1. CASE s_mutex = Null
    <3>1. \A h \in Handles : holder[h] = Null
      BY <2>1, RecordAssumption
    <3>2. \A u \in Tasks : pc'[u] \notin Holding /\ holder'[s_mutex'] # u
      BY <1>5, <2>1, <3>1, RecordAssumption DEF PublishMutex, InHand
    <3> QED
      BY <1>5, <3>1, <3>2 DEF PublishMutex
  <2>2. CASE s_mutex # Null
    BY <1>5, <2>2 DEF PublishMutex
  <2> QED
    BY <2>1, <2>2
<1>6. CASE DeleteSpare(t)
  BY <1>6 DEF DeleteSpare
<1>7. CASE Take(t)
  BY <1>7, RecordAssumption DEF Take
<1>8. CASE Access(t)
  BY <1>8 DEF Access
<1>9. CASE Give(t)
  BY <1>9, RecordAssumption DEF Give
<1> QED
  BY <1>1, <1>2, <1>3, <1>4, <1>5, <1>6, <1>7, <1>8, <1>9 DEF Step

(* What one field access does, in both kinds of call.                      *)
LEMMA AccessEffect ==
  ASSUME RecordInv, NEW t \in Tasks, Access(t)
  PROVE  \E f \in left[t] :
           /\ f \in Fields
           /\ left' = [left EXCEPT ![t] = left[t] \ {f}]
           /\ op[t] = Get  => /\ copy' = [copy EXCEPT ![t] = [copy[t] EXCEPT ![f] = s_record[f]]]
                              /\ s_record' = s_record
           /\ op[t] # Get => s_record' = [s_record EXCEPT ![f] = op[t][f]] /\ copy' = copy
BY DEF Access, RecordInv, TypeOK

LEMMA ProgressStep ==
  ASSUME RecordInv, NEW t \in Tasks, Step(t) \/ \E o \in Updates \cup {Get} : Call(t, o)
  PROVE  AccessProgress'
<1> USE DEF RecordInv, TypeOK, Goes, AccessProgress, Holding, InUse
<1>1. ASSUME NEW o \in Updates \cup {Get}, Call(t, o) PROVE AccessProgress'
  BY <1>1 DEF Call
<1>2. CASE SeeMutex(t)
  BY <1>2 DEF SeeMutex, local
<1>3. CASE CreateMutex(t)
  BY <1>3 DEF CreateMutex
<1>4. CASE NoMemory(t)
  BY <1>4 DEF NoMemory
<1>5. CASE PublishMutex(t)
  BY <1>5 DEF PublishMutex
<1>6. CASE DeleteSpare(t)
  BY <1>6 DEF DeleteSpare
<1>7. CASE Take(t)
  BY <1>7 DEF Take
<1>8. CASE Access(t)
  <2> PICK f \in left[t] :
           /\ f \in Fields
           /\ left' = [left EXCEPT ![t] = left[t] \ {f}]
           /\ op[t] = Get  => /\ copy' = [copy EXCEPT ![t] = [copy[t] EXCEPT ![f] = s_record[f]]]
                              /\ s_record' = s_record
           /\ op[t] # Get => s_record' = [s_record EXCEPT ![f] = op[t][f]] /\ copy' = copy
    BY <1>8, AccessEffect
  <2>1. pc[t] = "access" /\ pc' = [pc EXCEPT ![t] = IF left'[t] = {} THEN "give" ELSE "access"] /\ op' = op
    BY <1>8 DEF Access
  <2>2. \A u \in Tasks \ {t} : pc[u] \notin Holding
    BY <2>1 DEF OnlyHolder
  <2>3. CASE op[t] = Get
    <3>1. \A g \in Fields \ left'[t] : copy'[t][g] = s_record'[g]
      BY <2>1, <2>3
    <3> QED
      BY <2>1, <2>2, <2>3, <3>1
  <2>4. CASE op[t] # Get
    BY <2>1, <2>2, <2>4
  <2> QED
    BY <2>3, <2>4
<1>9. CASE Give(t)
  BY <1>9 DEF Give
<1> QED
  BY <1>1, <1>2, <1>3, <1>4, <1>5, <1>6, <1>7, <1>8, <1>9 DEF Step

LEMMA RecordInvStep == RecordInv /\ [Next]_vars => RecordInv'
<1> SUFFICES ASSUME RecordInv, [Next]_vars PROVE RecordInv'
  OBVIOUS
<1>1. CASE Next
  <2> PICK t \in Tasks : Step(t) \/ \E o \in Updates \cup {Get} : Call(t, o)
    BY <1>1 DEF Next
  <2> QED
    BY TypeStep, MutexesStep, HolderStep, ProgressStep DEF RecordInv
<1>2. CASE UNCHANGED vars
  BY <1>2 DEF vars, local, RecordInv, TypeOK, MutexesOwned, OnlyHolder, InHand, Reached, AccessProgress
<1> QED
  BY <1>1, <1>2

LEMMA RecordInvariant == Spec => []RecordInv
<1>1. Init => RecordInv
  BY InitRecordInv
<1>2. RecordInv /\ [Next]_vars => RecordInv'
  BY RecordInvStep
<1> QED
  BY <1>1, <1>2, PTL DEF Spec

(* Every variable of app_status.c and of the latest reading keeps its      *)
(* type, and nobody takes a mutex that is not there.                       *)
THEOREM RecordTypeCorrect == Spec => []TypeOK
<1>1. RecordInv => TypeOK
  BY DEF RecordInv
<1> QED
  BY <1>1, RecordInvariant, PTL

(* No semaphore leaks, has two owners or is deleted in use, however many   *)
(* tasks race to create it.                                                *)
THEOREM MutexesAccounted == Spec => []MutexesOwned
<1>1. RecordInv => MutexesOwned
  BY DEF RecordInv
<1> QED
  BY <1>1, RecordInvariant, PTL

----------------------------------------------------------------------------
(* The refinement.                                                         *)

LEMMA SameGet == Atomic!Get = Get
BY DEF Atomic!Get, Get

(* A step that only moves one task between phases.                         *)
LEMMA PhaseOf ==
  ASSUME NEW t \in Tasks
  PROVE  PhaseBar[t] = IF pc[t] = "idle" THEN "idle"
                       ELSE IF pc[t] = "give" \/ Writing(t) THEN "performed"
                       ELSE IF Early(t) THEN "early" ELSE "pending"
BY DEF PhaseBar

LEMMA InitRefines == Init => Atomic!Init
<1> SUFFICES ASSUME Init PROVE Atomic!Init
  OBVIOUS
<1>1. RecordBar = Zero
  BY RecordAssumption DEF Init, RecordBar
<1>2. PhaseBar = [t \in Tasks |-> "idle"] /\ AnswerBar = [t \in Tasks |-> NoAnswer]
  BY DEF Init, PhaseBar, AnswerBar
<1> QED
  BY <1>1, <1>2, SameGet DEF Init, Atomic!Init

(* What stays the same unless the holder acts.                             *)
LEMMA RecordBarFrame ==
  ASSUME RecordInv, NEW t \in Tasks, pc[t] \notin Holding, pc'[t] \notin Holding,
         s_record' = s_record, holder' = holder, left' = left,
         \A u \in Tasks : u # t => op'[u] = op[u],
         s_mutex' = s_mutex \/ (s_mutex = Null /\ \A h \in Handles : holder[h] = Null),
         s_mutex' \in Handles \cup {Null}
  PROVE  RecordBar' = RecordBar
<1> USE DEF RecordInv, OnlyHolder, Holding
<1>1. CASE s_mutex' = Null
  BY <1>1 DEF RecordBar
<1>2. CASE s_mutex' # Null /\ holder[s_mutex'] = Null
  BY <1>2 DEF RecordBar
<1>3. CASE s_mutex' # Null /\ holder[s_mutex'] # Null
  <2>1. s_mutex' = s_mutex
    BY <1>3
  <2>2. holder[s_mutex] \in Tasks /\ holder[s_mutex] # t
    BY <1>3, <2>1 DEF TypeOK
  <2> QED
    BY <1>3, <2>1, <2>2 DEF RecordBar
<1> QED
  BY <1>1, <1>2, <1>3

LEMMA AnswerBarFrame ==
  ASSUME NEW t \in Tasks, AnswerBar'[t] = AnswerBar[t],
         \A u \in Tasks \ {t} : pc'[u] = pc[u] /\ op'[u] = op[u] /\ copy'[u] = copy[u]
  PROVE  AnswerBar' = AnswerBar
BY DEF AnswerBar

AbstractUnchanged ==
  UNCHANGED <<RecordBar, PhaseBar, AnswerBar, op>> /\ (s_mutex' # Null) = (s_mutex # Null)

LEMMA CallRefines ==
  ASSUME RecordInv, NEW t \in Tasks, NEW o \in Updates \cup {Get}, Call(t, o)
  PROVE  Atomic!Call(t, o)
<1> USE DEF Call, Goes, RecordInv, TypeOK
<1>1. RecordBar' = RecordBar
  BY RecordBarFrame DEF Holding
<1>2. AnswerBar' = AnswerBar
  BY AnswerBarFrame DEF AnswerBar
<1>3. PhaseBar[t] = "idle"
  BY DEF PhaseBar
<1>4. PhaseBar' = [PhaseBar EXCEPT ![t] = IF s_mutex # Null THEN "pending" ELSE "early"]
  BY DEF PhaseBar, Writing, Early
<1> QED
  BY <1>1, <1>2, <1>3, <1>4 DEF Atomic!Call

(* Steps no caller can notice.                                             *)
LEMMA SilentRefines ==
  ASSUME RecordInv, NEW t \in Tasks,
         \/ SeeMutex(t) \/ CreateMutex(t)
         \/ s_mutex # Null /\ PublishMutex(t)
         \/ op[t] = Get /\ Take(t)
  PROVE  AbstractUnchanged
<1> USE DEF Goes, RecordInv, TypeOK, local
<1>1. CASE SeeMutex(t)
  <2>1. RecordBar' = RecordBar
    BY <1>1, RecordBarFrame DEF Holding, SeeMutex
  <2>2. AnswerBar' = AnswerBar
    BY <1>1, AnswerBarFrame DEF AnswerBar, SeeMutex
  <2>3. PhaseBar' = PhaseBar
    BY <1>1 DEF PhaseBar, Writing, Early, SeeMutex
  <2> QED
    BY <1>1, <2>1, <2>2, <2>3 DEF AbstractUnchanged, SeeMutex
<1>2. CASE CreateMutex(t)
  <2>1. RecordBar' = RecordBar
    BY <1>2, RecordBarFrame DEF Holding, CreateMutex
  <2>2. AnswerBar' = AnswerBar
    BY <1>2, AnswerBarFrame DEF AnswerBar, CreateMutex
  <2>3. PhaseBar' = PhaseBar
    BY <1>2 DEF PhaseBar, Writing, Early, CreateMutex
  <2> QED
    BY <1>2, <2>1, <2>2, <2>3 DEF AbstractUnchanged, CreateMutex
<1>3. CASE s_mutex # Null /\ PublishMutex(t)
  <2>1. RecordBar' = RecordBar
    BY <1>3, RecordBarFrame DEF Holding, PublishMutex
  <2>2. AnswerBar' = AnswerBar
    BY <1>3, AnswerBarFrame DEF AnswerBar, PublishMutex
  <2>3. PhaseBar' = PhaseBar
    BY <1>3 DEF PhaseBar, Writing, Early, PublishMutex
  <2> QED
    BY <1>3, <2>1, <2>2, <2>3 DEF AbstractUnchanged, PublishMutex
<1>4. CASE op[t] = Get /\ Take(t)
  <2>1. RecordBar' = RecordBar
    BY <1>4 DEF RecordBar, Take, InUse
  <2>2. AnswerBar' = AnswerBar
    BY <1>4, AnswerBarFrame DEF AnswerBar, Take
  <2>3. PhaseBar' = PhaseBar
    BY <1>4 DEF PhaseBar, Writing, Early, Take
  <2> QED
    BY <1>4, <2>1, <2>2, <2>3 DEF AbstractUnchanged, Take
<1> QED
  BY <1>1, <1>2, <1>3, <1>4

LEMMA RefusalRefines ==
  ASSUME RecordInv, NEW t \in Tasks, NoMemory(t)
  PROVE  Atomic!Refuse(t)
<1> USE DEF NoMemory, Goes, RecordInv, TypeOK
<1>1. RecordBar' = RecordBar
  BY RecordBarFrame DEF Holding
<1>2. AnswerBar' = AnswerBar
  BY AnswerBarFrame DEF AnswerBar
<1>3. PhaseBar[t] = "early"
  BY DEF PhaseBar, Writing, Early
<1>4. PhaseBar' = [PhaseBar EXCEPT ![t] = "idle"]
  BY DEF PhaseBar, Writing, Early
<1> QED
  BY <1>1, <1>2, <1>3, <1>4, SameGet DEF Atomic!Refuse

LEMMA PublishRefines ==
  ASSUME RecordInv, NEW t \in Tasks, s_mutex = Null, PublishMutex(t)
  PROVE  Atomic!Admit
<1> USE DEF PublishMutex, Goes, RecordInv, TypeOK
<1>1. new_mutex[t] \in Handles /\ s_mutex' = new_mutex[t] /\ s_mutex' # Null
  BY DEF InHand
<1>2. \A h \in Handles : holder[h] = Null
  BY RecordAssumption DEF OnlyHolder
<1>3. RecordBar' = RecordBar
  BY <1>1, <1>2, RecordBarFrame DEF Holding
<1>4. AnswerBar' = AnswerBar
  BY AnswerBarFrame DEF AnswerBar
<1> DEFINE admitted == {u \in Tasks : pc[u] = "ensure" \/ u = t}
<1>5. admitted \subseteq {u \in Tasks : PhaseBar[u] = "early"}
  BY DEF PhaseBar, Writing, Early
<1>6. PhaseBar' = [u \in Tasks |-> IF u \in admitted THEN "pending" ELSE PhaseBar[u]]
  BY <1>1 DEF PhaseBar, Writing, Early, InUse
<1> QED
  BY <1>1, <1>3, <1>4, <1>5, <1>6 DEF Atomic!Admit

LEMMA DeleteRefines ==
  ASSUME RecordInv, NEW t \in Tasks, DeleteSpare(t)
  PROVE  Atomic!Admit
<1> USE DEF DeleteSpare, Goes, RecordInv, TypeOK
<1>1. s_mutex # Null
  BY DEF Reached
<1>2. RecordBar' = RecordBar
  BY RecordBarFrame DEF Holding
<1>3. AnswerBar' = AnswerBar
  BY AnswerBarFrame DEF AnswerBar
<1>4. {t} \subseteq {u \in Tasks : PhaseBar[u] = "early"}
  BY DEF PhaseBar, Writing, Early
<1>5. PhaseBar' = [u \in Tasks |-> IF u \in {t} THEN "pending" ELSE PhaseBar[u]]
  BY <1>1 DEF PhaseBar, Writing, Early
<1> QED
  BY <1>1, <1>2, <1>3, <1>4, <1>5 DEF Atomic!Admit

LEMMA UpdateRefines ==
  ASSUME RecordInv, NEW t \in Tasks, op[t] # Get, Take(t)
  PROVE  Atomic!Perform(t)
<1> USE DEF Take, Goes, RecordInv, TypeOK
<1>1. s_mutex # Null /\ t # Null
  BY RecordAssumption DEF InUse
<1>2. RecordBar = s_record
  BY <1>1 DEF RecordBar
<1>3. RecordBar' = [f \in Fields |-> IF f \in DOMAIN op[t] THEN op[t][f] ELSE s_record[f]]
  BY <1>1 DEF RecordBar
<1>4. AnswerBar[t] = NoAnswer /\ AnswerBar' = AnswerBar
  BY AnswerBarFrame DEF AnswerBar
<1>5. PhaseBar[t] = "pending"
  BY DEF PhaseBar, Writing, Early
<1>6. PhaseBar' = [PhaseBar EXCEPT ![t] = "performed"]
  BY DEF PhaseBar, Writing, Early
<1>7. AnswerBar' = [AnswerBar EXCEPT ![t] = NoAnswer]
  BY <1>4 DEF AnswerBar
<1> QED
  BY <1>1, <1>2, <1>3, <1>5, <1>6, <1>7, SameGet DEF Atomic!Perform

LEMMA ReturnRefines ==
  ASSUME RecordInv, NEW t \in Tasks, Give(t)
  PROVE  Atomic!Return(t)
<1> USE DEF Give, Goes, RecordInv, TypeOK
<1>1. s_mutex # Null /\ holder[s_mutex] = t /\ left[t] = {}
  BY DEF InUse, OnlyHolder, Holding, AccessProgress
<1>2. RecordBar' = RecordBar
  BY <1>1 DEF RecordBar
<1>3. PhaseBar[t] = "performed"
  BY DEF PhaseBar
<1>4. PhaseBar' = [PhaseBar EXCEPT ![t] = "idle"]
  BY DEF PhaseBar, Writing, Early
<1>5. AnswerBar' = [AnswerBar EXCEPT ![t] = NoAnswer]
  BY DEF AnswerBar
<1> QED
  BY <1>2, <1>3, <1>4, <1>5, SameGet DEF Atomic!Return

(* Copying or writing one field: only the copy of the last one shows.      *)
LEMMA AccessRefines ==
  ASSUME RecordInv, NEW t \in Tasks, Access(t)
  PROVE  AbstractUnchanged \/ Atomic!Perform(t)
<1> USE DEF Goes, RecordInv, TypeOK
<1> PICK f \in left[t] :
         /\ f \in Fields
         /\ left' = [left EXCEPT ![t] = left[t] \ {f}]
         /\ op[t] = Get  => /\ copy' = [copy EXCEPT ![t] = [copy[t] EXCEPT ![f] = s_record[f]]]
                            /\ s_record' = s_record
         /\ op[t] # Get => s_record' = [s_record EXCEPT ![f] = op[t][f]] /\ copy' = copy
  BY AccessEffect
<1>1. /\ pc[t] = "access" /\ pc' = [pc EXCEPT ![t] = IF left'[t] = {} THEN "give" ELSE "access"]
      /\ UNCHANGED <<s_mutex, live, holder, op, new_mutex>>
  BY DEF Access
<1>2. s_mutex # Null /\ holder[s_mutex] = t /\ t # Null
  BY <1>1, RecordAssumption DEF OnlyHolder, Holding
<1>3. CASE op[t] # Get
  <2>1. RecordBar' = RecordBar
    BY <1>1, <1>2, <1>3 DEF RecordBar
  <2>2. PhaseBar' = PhaseBar
    BY <1>1, <1>3 DEF PhaseBar, Writing, Early
  <2>3. AnswerBar' = AnswerBar
    BY <1>1, <1>3 DEF AnswerBar
  <2> QED
    BY <1>1, <2>1, <2>2, <2>3 DEF AbstractUnchanged
<1>4. CASE op[t] = Get /\ left'[t] # {}
  <2>1. RecordBar' = RecordBar
    BY <1>1, <1>2, <1>4 DEF RecordBar
  <2>2. PhaseBar' = PhaseBar
    BY <1>1, <1>4 DEF PhaseBar, Writing, Early
  <2>3. AnswerBar' = AnswerBar
    BY <1>1, <1>4 DEF AnswerBar
  <2> QED
    BY <1>1, <2>1, <2>2, <2>3 DEF AbstractUnchanged
<1>5. CASE op[t] = Get /\ left'[t] = {}
  <2>1. RecordBar = s_record /\ RecordBar' = s_record
    BY <1>1, <1>2, <1>5 DEF RecordBar
  <2>2. PhaseBar[t] = "pending" /\ PhaseBar' = [PhaseBar EXCEPT ![t] = "performed"]
    BY <1>1, <1>5 DEF PhaseBar, Writing, Early
  <2>3. copy'[t] = s_record
    <3>1. \A g \in Fields \ left[t] : copy[t][g] = s_record[g]
      BY <1>1, <1>5 DEF AccessProgress, Holding
    <3>2. left[t] = {f}
      BY <1>5
    <3> QED
      BY <1>5, <3>1, <3>2
  <2>4. AnswerBar' = [AnswerBar EXCEPT ![t] = s_record]
    BY <1>1, <1>5, <2>3 DEF AnswerBar
  <2>5. RecordBar' = [g \in Fields |-> IF g \in DOMAIN op[t] THEN op[t][g] ELSE RecordBar[g]]
    BY <1>5, <2>1, GetFacts
  <2> QED
    BY <1>1, <1>2, <1>5, <2>1, <2>2, <2>4, <2>5, SameGet DEF Atomic!Perform
<1> QED
  BY <1>3, <1>4, <1>5

LEMMA StepRefines == RecordInv /\ [Next]_vars => [Atomic!Next]_(Atomic!vars)
<1> SUFFICES ASSUME RecordInv, [Next]_vars PROVE [Atomic!Next]_(Atomic!vars)
  OBVIOUS
<1>1. AbstractUnchanged => UNCHANGED Atomic!vars
  BY DEF AbstractUnchanged, Atomic!vars
<1>2. CASE Next
  <2> PICK t \in Tasks : Step(t) \/ \E o \in Updates \cup {Get} : Call(t, o)
    BY <1>2 DEF Next
  <2>1. ASSUME NEW o \in Updates \cup {Get}, Call(t, o) PROVE Atomic!Next
    BY <2>1, CallRefines, SameGet DEF Atomic!Next
  <2>2. CASE SeeMutex(t) \/ CreateMutex(t)
    BY <1>1, <2>2, SilentRefines
  <2>3. CASE NoMemory(t)
    BY <2>3, RefusalRefines DEF Atomic!Next
  <2>4. CASE PublishMutex(t)
    BY <1>1, <2>4, SilentRefines, PublishRefines DEF Atomic!Next
  <2>5. CASE DeleteSpare(t)
    BY <2>5, DeleteRefines DEF Atomic!Next
  <2>6. CASE Take(t)
    BY <1>1, <2>6, SilentRefines, UpdateRefines DEF Atomic!Next
  <2>7. CASE Access(t)
    BY <1>1, <2>7, AccessRefines DEF Atomic!Next
  <2>8. CASE Give(t)
    BY <2>8, ReturnRefines DEF Atomic!Next
  <2> QED
    BY <2>1, <2>2, <2>3, <2>4, <2>5, <2>6, <2>7, <2>8 DEF Step
<1>3. CASE UNCHANGED vars
  <2>1. UNCHANGED <<RecordBar, PhaseBar, AnswerBar>>
    BY <1>3 DEF vars, local, RecordBar, PhaseBar, AnswerBar, Writing, Early
  <2> QED
    BY <1>1, <1>3, <2>1 DEF vars, local, AbstractUnchanged
<1> QED
  BY <1>2, <1>3

(* The lazily created mutex makes every call of app_status.c and of the    *)
(* latest reading atomic, from the very first ones on: a setter's flag is  *)
(* never lost, a getter never sees half an update.                         *)
THEOREM RecordIsAtomic == Spec => ImplementsAtomicRecord
<1>1. Init => Atomic!Init
  BY InitRefines
<1>2. RecordInv /\ [Next]_vars => [Atomic!Next]_(Atomic!vars)
  BY StepRefines
<1> QED
  BY <1>1, <1>2, RecordInvariant, PTL DEF Spec, ImplementsAtomicRecord, Atomic!Spec
=============================================================================
