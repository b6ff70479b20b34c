---------------------- MODULE SynchronousRoundsProofs ----------------------
(***************************************************************************)
(* Machine-checked proofs about the synchronous rounds, for every coupling *)
(* matrix, worker count, batch size, number of pool threads and set of     *)
(* operations that may throw.                                              *)
(***************************************************************************)
EXTENDS SynchronousRounds, FiniteSetTheorems, TLAPS

USE AccessorAssumption, TaskGroupAssumption, RoundsAssumption

\* The bookkeeping of the task of each worker within the round.
BatchInv ==
  \A w \in Workers :
     /\ pc[w] # "next"
     /\ todo[w] \subseteq myPreviouslyLocked[w] \ done
     /\ current[w] \subseteq myPreviouslyLocked[w] \ (done \cup todo[w])
     /\ myPreviouslyLocked[w] \subseteq todo[w] \cup current[w] \cup done
     /\ pc[w] \notin {"busy", "threw"} <=> current[w] = {}
     /\ pc[w] = "left" => todo[w] = {}
     /\ \A p, q \in current[w] : p = q

\* The batches of a round share nothing.
DisjointInv ==
  /\ Exclusive(InRound)
  /\ \A v, w \in Workers : v # w => myPreviouslyLocked[v] \cap myPreviouslyLocked[w] = {}

\* What is not remaining is done, and what is done but remaining is of the round,
\* which is taken off by the next call of nextAll().
RemainedInv ==
  /\ CouplingMatrix \ myRemainedItems \subseteq done
  /\ InRound \subseteq myRemainedItems
  /\ done \cap myRemainedItems \subseteq InRound

\* Where the main thread is, and where the tasks are then.
PhaseInv ==
  /\ round = "schedule" => \A w \in Workers : pc[w] = "left"
  /\ outcome # "processing" => \A w \in Workers : pc[w] \in Ended
  /\ outcome = "output" => done = CouplingMatrix
  /\ (\E w \in Workers : pc[w] = "skipped") => cancelled

\* The inductive invariant.
IInv ==
  /\ TypeOK
  /\ BatchInv
  /\ DisjointInv
  /\ RemainedInv
  /\ PhaseInv
-----------------------------------------------------------------------------
(* The inductive invariant *)

\* When the main thread is at nextAll(), the whole round has been processed.
LEMMA RoundDone ==
  ASSUME IInv, round = "schedule"
  PROVE  InRound \subseteq done
<1>1. \A w \in Workers : pc[w] = "left" /\ todo[w] = {} /\ current[w] = {}
  BY DEF IInv, PhaseInv, BatchInv
<1>2. \A w \in Workers : myPreviouslyLocked[w] \subseteq done
  BY <1>1 DEF IInv, BatchInv
<1>3. QED
  BY <1>2 DEF InRound

\* The indexers that a round may take are limited, but to more than none.
LEMMA LimitPositive == BatchSize * Cardinality(Workers) \in Nat \ {0}
<1>1. Cardinality(Workers) \in Nat \ {0}
  BY FS_CardinalityType, FS_EmptySet
<1>2. \A m, n \in Nat \ {0} : m * n \in Nat \ {0}
  BY SMT
<1>3. QED
  BY <1>1, <1>2

\* With nothing locked, a scan takes nothing only when nothing is there.
LEMMA EmptyRound ==
  ASSUME NEW remained, {} \in Scan(remained, {}, BatchSize * Cardinality(Workers))
  PROVE  remained = {}
<1>1. Cardinality({}) < BatchSize * Cardinality(Workers)
  BY LimitPositive, FS_EmptySet
<1>2. \A ind \in remained \ {} : isLocked(ind, lockItem({}, {}))
  BY <1>1 DEF Scan
<1>3. lockItem({}, {}) = {}
  BY DEF lockItem, ItemsOfAll
<1>4. QED
  BY <1>2, <1>3 DEF isLocked

\* What nextAll() does, with its choices named.
LEMMA NextAllChoices ==
  ASSUME nextAll
  PROVE  \E taken, batches :
           /\ taken \subseteq myRemainedItems \ InRound
           /\ Exclusive(taken)
           /\ batches \in [Workers -> SUBSET taken]
           /\ UNION {batches[w] : w \in Workers} = taken
           /\ \A v, w \in Workers : v # w => batches[v] \cap batches[w] = {}
           /\ taken = {} => myRemainedItems \ InRound = {}
           /\ myRemainedItems' = myRemainedItems \ InRound
           /\ myLockedItems' = lockItem(taken, {})
           /\ myPreviouslyLocked' = batches
           /\ todo' = batches
           /\ pc' = [w \in Workers |-> IF batches[w] = {} THEN "left" ELSE "submitted"]
           /\ IF taken = {} THEN outcome' = "output" /\ round' = round
                            ELSE round' = "wait" /\ outcome' = outcome
<1> DEFINE remained == myRemainedItems \ InRound
<1>1. PICK taken \in Scan(remained, {}, BatchSize * Cardinality(Workers)) :
        \E batches \in Batches(taken) :
           /\ myRemainedItems' = remained
           /\ myLockedItems' = lockItem(taken, {})
           /\ myPreviouslyLocked' = batches
           /\ todo' = batches
           /\ pc' = [w \in Workers |-> IF batches[w] = {} THEN "left" ELSE "submitted"]
           /\ IF taken = {} THEN outcome' = "output" /\ UNCHANGED round
                            ELSE round' = "wait" /\ UNCHANGED outcome
  BY DEF nextAll
<1>2. PICK batches \in Batches(taken) :
           /\ myRemainedItems' = remained
           /\ myLockedItems' = lockItem(taken, {})
           /\ myPreviouslyLocked' = batches
           /\ todo' = batches
           /\ pc' = [w \in Workers |-> IF batches[w] = {} THEN "left" ELSE "submitted"]
           /\ IF taken = {} THEN outcome' = "output" /\ UNCHANGED round
                            ELSE round' = "wait" /\ UNCHANGED outcome
  BY <1>1
<1>3. taken \subseteq remained /\ Exclusive(taken)
  BY <1>1 DEF Scan
<1>4. /\ batches \in [Workers -> SUBSET taken]
      /\ UNION {batches[w] : w \in Workers} = taken
      /\ \A v, w \in Workers : v # w => batches[v] \cap batches[w] = {}
  <2>1. batches \in [Workers -> {b \in SUBSET taken : Cardinality(b) <= BatchSize}]
    BY <1>2 DEF Batches
  <2>2. batches \in [Workers -> SUBSET taken]
    BY <2>1
  <2>3. QED
    BY <2>2, <1>2 DEF Batches
<1>5. taken = {} => remained = {}
  BY <1>1, EmptyRound
<1>6. QED
  BY <1>2, <1>3, <1>4, <1>5

LEMMA InitIInv == Init => IInv
<1> SUFFICES ASSUME Init PROVE IInv
  OBVIOUS
<1>1. TypeOK
  BY DEF Init, TypeOK, TasksTypeOK, PcStates, Ended
<1>2. BatchInv
  BY DEF Init, BatchInv
<1>3. DisjointInv
  BY DEF Init, DisjointInv, InRound, Exclusive
<1>4. RemainedInv
  BY DEF Init, RemainedInv, InRound
<1>5. PhaseInv
  BY DEF Init, PhaseInv, cancelled
<1>6. QED
  BY <1>1, <1>2, <1>3, <1>4, <1>5 DEF IInv

\* A round is scheduled.
LEMMA NextAllIInv ==
  ASSUME IInv, nextAll
  PROVE  IInv'
<1>1. PICK taken, batches :
        /\ taken \subseteq myRemainedItems \ InRound
        /\ Exclusive(taken)
        /\ batches \in [Workers -> SUBSET taken]
        /\ UNION {batches[w] : w \in Workers} = taken
        /\ \A v, w \in Workers : v # w => batches[v] \cap batches[w] = {}
        /\ taken = {} => myRemainedItems \ InRound = {}
        /\ myRemainedItems' = myRemainedItems \ InRound
        /\ myLockedItems' = lockItem(taken, {})
        /\ myPreviouslyLocked' = batches
        /\ todo' = batches
        /\ pc' = [w \in Workers |-> IF batches[w] = {} THEN "left" ELSE "submitted"]
        /\ IF taken = {} THEN outcome' = "output" /\ round' = round
                         ELSE round' = "wait" /\ outcome' = outcome
  BY NextAllChoices
<1>2. /\ round = "schedule" /\ outcome = "processing"
      /\ current' = current /\ done' = done
  BY DEF nextAll
<1>3. \A w \in Workers : pc[w] = "left" /\ current[w] = {}
  BY <1>2 DEF IInv, PhaseInv, BatchInv
<1>4. InRound' = taken
  BY <1>1 DEF InRound
<1>5. taken \cap done = {} /\ taken \subseteq CouplingMatrix
  BY <1>1 DEF IInv, RemainedInv, TypeOK
<1>6. TypeOK'
  <2>1. myRemainedItems' \in SUBSET CouplingMatrix
    BY <1>1 DEF IInv, TypeOK
  <2>2. batches \in [Workers -> SUBSET CouplingMatrix]
    BY <1>1, <1>5
  <2>3. myLockedItems' \in SUBSET Items
    BY <1>1 DEF lockItem, ItemsOfAll
  <2>4. pc' \in [Workers -> PcStates]
    BY <1>1 DEF PcStates, Ended
  <2>5. round' \in {"schedule", "wait"} /\ outcome' \in {"processing", "output", "rethrown"}
    BY <1>1, <1>2
  <2>6. QED
    BY <1>1, <1>2, <2>1, <2>2, <2>3, <2>4, <2>5 DEF IInv, TypeOK, TasksTypeOK
<1>7. BatchInv'
  <2> SUFFICES ASSUME NEW w \in Workers
               PROVE  /\ pc'[w] # "next"
                      /\ todo'[w] \subseteq myPreviouslyLocked'[w] \ done'
                      /\ current'[w] \subseteq myPreviouslyLocked'[w] \ (done' \cup todo'[w])
                      /\ myPreviouslyLocked'[w] \subseteq todo'[w] \cup current'[w] \cup done'
                      /\ pc'[w] \notin {"busy", "threw"} <=> current'[w] = {}
                      /\ pc'[w] = "left" => todo'[w] = {}
                      /\ \A p, q \in current'[w] : p = q
    BY DEF BatchInv
  <2>1. /\ pc'[w] = IF batches[w] = {} THEN "left" ELSE "submitted"
        /\ todo'[w] = batches[w] /\ myPreviouslyLocked'[w] = batches[w]
        /\ current'[w] = {} /\ batches[w] \subseteq taken
    BY <1>1, <1>2, <1>3
  <2>2. QED
    BY <2>1, <1>2, <1>5
<1>8. DisjointInv'
  BY <1>1, <1>4 DEF DisjointInv
<1>9. RemainedInv'
  BY <1>1, <1>2, <1>4, RoundDone DEF IInv, RemainedInv
<1>10. PhaseInv'
  <2>1. CASE taken = {}
    <3>1. \A w \in Workers : pc'[w] = "left"
      BY <2>1, <1>1
    <3>2. done' = CouplingMatrix
      BY <2>1, <1>1, <1>2, RoundDone DEF IInv, RemainedInv, TypeOK, TasksTypeOK
    <3>3. QED
      BY <3>1, <3>2 DEF PhaseInv, Ended, cancelled
  <2>2. CASE taken # {}
    <3>1. round' = "wait" /\ outcome' = "processing"
      BY <2>2, <1>1, <1>2
    <3>2. \A w \in Workers : pc'[w] \in {"left", "submitted"}
      BY <1>1
    <3>3. QED
      BY <3>1, <3>2 DEF PhaseInv
  <2>3. QED
    BY <2>1, <2>2
<1>11. QED
  BY <1>6, <1>7, <1>8, <1>9, <1>10 DEF IInv

\* The steps of a task leave the accessor alone, and are taken while the main thread
\* is in wait().
LEMMA TaskIInv ==
  ASSUME IInv, NEW w \in Workers,
         Start(w) \/ Skip(w) \/ Begin(w) \/ End(w) \/ Throw(w)
  PROVE  IInv'
<1>1. /\ UNCHANGED <<myRemainedItems, myPreviouslyLocked, myLockedItems, round, outcome>>
      /\ myPreviouslyLocked \in [Workers -> SUBSET CouplingMatrix]
      /\ todo \in [Workers -> SUBSET CouplingMatrix]
      /\ current \in [Workers -> SUBSET CouplingMatrix]
      /\ pc \in [Workers -> PcStates]
      /\ done \subseteq CouplingMatrix
      /\ outcome \in {"processing", "output", "rethrown"}
  BY DEF IInv, TypeOK, TasksTypeOK, Start, Skip, Begin, End, Throw, mainVars, dataVars,
         StartTask, SkipTask, BeginProcess, EndProcess, ThrowProcess
<1>2. InRound' = InRound /\ DisjointInv'
  BY <1>1 DEF IInv, DisjointInv, InRound
<1>3. pc[w] \notin Ended /\ outcome = "processing" /\ round = "wait"
  <2>1. pc[w] \in {"submitted", "batch", "busy"}
    BY DEF Start, Skip, Begin, End, Throw, StartTask, SkipTask, BeginProcess, EndProcess,
           ThrowProcess
  <2>2. pc[w] \notin Ended
    BY <2>1 DEF Ended
  <2>3. QED
    BY <1>1, <2>2 DEF IInv, PhaseInv, TypeOK, Ended
<1>4. ASSUME Start(w) PROVE IInv'
  <2>1. /\ pc[w] = "submitted" /\ pc' = [pc EXCEPT ![w] = "batch"]
        /\ UNCHANGED <<todo, current, done>> /\ ~cancelled
    BY <1>4 DEF Start, StartTask
  <2>2. TypeOK'
    BY <1>1, <2>1 DEF IInv, TypeOK, TasksTypeOK, PcStates
  <2>3. BatchInv'
    BY <1>1, <2>1 DEF IInv, BatchInv
  <2>4. RemainedInv'
    BY <1>1, <1>2, <2>1 DEF IInv, RemainedInv
  <2>5. PhaseInv'
    BY <1>1, <1>3, <2>1 DEF IInv, PhaseInv, cancelled
  <2>6. QED
    BY <1>2, <2>2, <2>3, <2>4, <2>5 DEF IInv
<1>5. ASSUME Skip(w) PROVE IInv'
  <2>1. /\ pc[w] = "submitted" /\ pc' = [pc EXCEPT ![w] = "skipped"]
        /\ UNCHANGED <<todo, current, done>> /\ cancelled
    BY <1>5 DEF Skip, SkipTask
  <2>2. TypeOK'
    BY <1>1, <2>1 DEF IInv, TypeOK, TasksTypeOK, PcStates, Ended
  <2>3. BatchInv'
    BY <1>1, <2>1 DEF IInv, BatchInv
  <2>4. RemainedInv'
    BY <1>1, <1>2, <2>1 DEF IInv, RemainedInv
  <2>5. PhaseInv'
    BY <1>1, <1>3, <2>1 DEF IInv, PhaseInv, cancelled
  <2>6. QED
    BY <1>2, <2>2, <2>3, <2>4, <2>5 DEF IInv
<1>6. ASSUME Begin(w) PROVE IInv'
  <2>1. PICK ind \in todo[w] : BeginProcess(w, ind)
    BY <1>6 DEF Begin
  <2>2. /\ pc[w] = "batch"
        /\ todo' = [todo EXCEPT ![w] = todo[w] \ {ind}]
        /\ current' = [current EXCEPT ![w] = {ind}]
        /\ pc' = [pc EXCEPT ![w] = "busy"]
        /\ done' = done
    BY <2>1 DEF BeginProcess
  <2>3. TypeOK'
    BY <1>1, <2>1, <2>2 DEF IInv, TypeOK, TasksTypeOK, PcStates
  <2>4. BatchInv'
    BY <1>1, <2>1, <2>2 DEF IInv, BatchInv
  <2>5. RemainedInv'
    BY <1>1, <1>2, <2>2 DEF IInv, RemainedInv
  <2>6. PhaseInv'
    BY <1>1, <1>3, <2>2 DEF IInv, PhaseInv, cancelled
  <2>7. QED
    BY <1>2, <2>3, <2>4, <2>5, <2>6 DEF IInv
<1>7. ASSUME End(w) PROVE IInv'
  <2>1. /\ pc[w] = "busy"
        /\ done' = done \cup current[w]
        /\ current' = [current EXCEPT ![w] = {}]
        /\ pc' = [pc EXCEPT ![w] = IF todo[w] = {} THEN "left" ELSE "batch"]
        /\ todo' = todo
    BY <1>7 DEF End, EndProcess
  <2>2. TypeOK'
    BY <1>1, <2>1 DEF IInv, TypeOK, TasksTypeOK, PcStates, Ended
  <2>3. current[w] \subseteq myPreviouslyLocked[w]
    BY DEF IInv, BatchInv
  <2>4. \A v \in Workers \ {w} : myPreviouslyLocked[v] \cap current[w] = {}
    BY <2>3 DEF IInv, DisjointInv
  <2>5. BatchInv'
    <3> SUFFICES ASSUME NEW v \in Workers
                 PROVE  /\ pc'[v] # "next"
                        /\ todo[v] \subseteq myPreviouslyLocked[v] \ done'
                        /\ current'[v] \subseteq myPreviouslyLocked[v] \ (done' \cup todo[v])
                        /\ myPreviouslyLocked[v] \subseteq todo[v] \cup current'[v] \cup done'
                        /\ pc'[v] \notin {"busy", "threw"} <=> current'[v] = {}
                        /\ pc'[v] = "left" => todo[v] = {}
                        /\ \A p, q \in current'[v] : p = q
      BY <1>1, <2>1 DEF BatchInv
    <3>1. CASE v = w
      BY <3>1, <1>1, <2>1 DEF IInv, BatchInv
    <3>2. CASE v # w
      BY <3>2, <1>1, <2>1, <2>4 DEF IInv, BatchInv
    <3>3. QED
      BY <3>1, <3>2
  <2>6. RemainedInv'
    <3>1. current[w] \subseteq InRound
      BY <2>3 DEF InRound
    <3>2. QED
      BY <1>1, <1>2, <2>1, <3>1 DEF IInv, RemainedInv
  <2>7. PhaseInv'
    BY <1>1, <1>3, <2>1 DEF IInv, PhaseInv, cancelled
  <2>8. QED
    BY <1>2, <2>2, <2>5, <2>6, <2>7 DEF IInv
<1>8. ASSUME Throw(w) PROVE IInv'
  <2>1. /\ pc[w] = "busy" /\ pc' = [pc EXCEPT ![w] = "threw"]
        /\ UNCHANGED <<todo, current, done>>
    BY <1>8 DEF Throw, ThrowProcess
  <2>2. TypeOK'
    BY <1>1, <2>1 DEF IInv, TypeOK, TasksTypeOK, PcStates, Ended
  <2>3. BatchInv'
    BY <1>1, <2>1 DEF IInv, BatchInv
  <2>4. RemainedInv'
    BY <1>1, <1>2, <2>1 DEF IInv, RemainedInv
  <2>5. PhaseInv'
    BY <1>1, <1>3, <2>1 DEF IInv, PhaseInv, cancelled
  <2>6. QED
    BY <1>2, <2>2, <2>3, <2>4, <2>5 DEF IInv
<1>9. QED
  BY <1>4, <1>5, <1>6, <1>7, <1>8

\* The round ends; without an exception nobody was skipped, so every task has left.
LEMMA WaitIInv ==
  ASSUME IInv, Wait
  PROVE  IInv'
<1>1. /\ \A w \in Workers : pc[w] \in Ended
      /\ UNCHANGED <<myRemainedItems, myPreviouslyLocked, myLockedItems, pc, todo, current, done>>
      /\ outcome = "processing"
      /\ IF cancelled THEN outcome' = "rethrown" /\ round' = round
                      ELSE round' = "schedule" /\ outcome' = outcome
  BY DEF Wait, Joined, dataVars, taskVars
<1>2. TypeOK'
  BY <1>1 DEF IInv, TypeOK, TasksTypeOK
<1>3. BatchInv' /\ DisjointInv' /\ RemainedInv'
  BY <1>1 DEF IInv, BatchInv, DisjointInv, RemainedInv, InRound
<1>4. PhaseInv'
  <2>1. CASE cancelled
    <3>1. round = "wait"
      BY DEF Wait
    <3>2. QED
      BY <2>1, <3>1, <1>1 DEF IInv, PhaseInv, cancelled
  <2>2. CASE ~cancelled
    <3>1. \A w \in Workers : pc[w] = "left"
      BY <2>2, <1>1 DEF IInv, PhaseInv, cancelled, Ended
    <3>2. QED
      BY <2>2, <3>1, <1>1 DEF IInv, PhaseInv, cancelled
  <2>3. QED
    BY <2>1, <2>2
<1>5. QED
  BY <1>2, <1>3, <1>4 DEF IInv

LEMMA StepIInv == IInv /\ [Next]_vars => IInv'
<1> SUFFICES ASSUME IInv, [Next]_vars PROVE IInv'
  OBVIOUS
<1>1. ASSUME UNCHANGED vars PROVE IInv'
  BY <1>1 DEF vars, dataVars, groupVars, taskVars, IInv, TypeOK, TasksTypeOK, BatchInv,
     DisjointInv, RemainedInv, PhaseInv, InRound, cancelled
<1>2. QED
  BY <1>1, NextAllIInv, TaskIInv, WaitIInv DEF Next, Terminated

\* The inductive invariant holds in every reachable state.
THEOREM Invariance == SafeSpec => []IInv
BY InitIInv, StepIInv, PTL DEF SafeSpec

\* Every variable of the rounds keeps its type.
THEOREM TypeCorrect == SafeSpec => []TypeOK
<1>1. IInv => TypeOK
  BY DEF IInv
<1>2. QED
  BY <1>1, Invariance, PTL
-----------------------------------------------------------------------------
(* What follows from it *)

\* Every round is accounted for before the next one: what unlockAll() has taken off
\* is done, and at nextAll() so is the whole round.
THEOREM RoundsAccountFor == SafeSpec => []RoundAccounted
<1>1. IInv => RoundAccounted
  BY RoundDone DEF RoundAccounted, IInv, RemainedInv
<1>2. QED
  BY <1>1, Invariance, PTL

\* Items change hands between rounds only, when no task is under way, and exactly the
\* previous round is taken off the remaining pairs.
THEOREM RoundsSeparate == SafeSpec => RoundsNeverOverlap
<1> DEFINE A == myLockedItems' # myLockedItems =>
                  /\ \A w \in Workers : pc[w] = "left" /\ current[w] = {}
                  /\ myRemainedItems \ myRemainedItems' = InRound
<1>1. ASSUME IInv, [Next]_vars PROVE [A]_vars
  <2>1. CASE nextAll
    <3>1. round = "schedule"
      BY <2>1 DEF nextAll
    <3>2. \A w \in Workers : pc[w] = "left" /\ current[w] = {}
      BY <1>1, <3>1 DEF IInv, PhaseInv, BatchInv
    <3>3. myRemainedItems' = myRemainedItems \ InRound
      BY <2>1, NextAllChoices
    <3>4. QED
      BY <1>1, <3>2, <3>3 DEF IInv, RemainedInv
  <2>2. ASSUME NEW w \in Workers,
               Start(w) \/ Skip(w) \/ Begin(w) \/ End(w) \/ Throw(w)
        PROVE  myLockedItems' = myLockedItems
    BY <2>2 DEF Start, Skip, Begin, End, Throw, mainVars, dataVars
  <2>3. Wait \/ UNCHANGED vars => myLockedItems' = myLockedItems
    BY DEF Wait, vars, dataVars
  <2>4. QED
    BY <1>1, <2>1, <2>2, <2>3 DEF Next, Terminated
<1>2. SafeSpec => [][A]_vars
  BY <1>1, Invariance, PTL DEF SafeSpec
<1>3. QED
  BY <1>2 DEF RoundsNeverOverlap
-----------------------------------------------------------------------------
(* The rounds implement the executor's contract *)

LEMMA ContractInit == Init => Contract!Init
BY DEF Init, Contract!Init, InProgress, Failed

LEMMA ContractBegin ==
  ASSUME IInv, NEW w \in Workers, Begin(w)
  PROVE  Contract!Next
<1>1. PICK ind \in todo[w] : BeginProcess(w, ind)
  BY DEF Begin
<1>2. /\ pc[w] = "batch" /\ current[w] = {} /\ outcome = "processing"
      /\ current' = [current EXCEPT ![w] = {ind}]
      /\ pc' = [pc EXCEPT ![w] = "busy"]
      /\ UNCHANGED <<outcome, done>>
  BY <1>1 DEF BeginProcess, IInv, BatchInv, PhaseInv, Ended
<1>3. /\ current \in [Workers -> SUBSET CouplingMatrix]
      /\ pc \in [Workers -> PcStates]
      /\ ind \in CouplingMatrix /\ ind \in myPreviouslyLocked[w] /\ ind \notin done
  BY <1>1 DEF IInv, TypeOK, TasksTypeOK, BatchInv
<1>4. InProgress' = InProgress \cup {ind}
  BY <1>2, <1>3 DEF InProgress
<1>5. Failed' = Failed
  BY <1>2, <1>3 DEF Failed
<1>6. ASSUME NEW q \in InProgress \cup Failed
      PROVE  /\ q # ind /\ q \in CouplingMatrix
             /\ ItemsOf(ind) \cap ItemsOf(q) = {}
  <2>1. PICK v \in Workers \ {w} : q \in current[v]
    BY <1>2, <1>6 DEF InProgress, Failed
  <2>2. q \in myPreviouslyLocked[v] /\ q \in CouplingMatrix
    BY <1>3, <2>1 DEF IInv, BatchInv
  <2>3. q # ind
    BY <1>3, <2>1, <2>2 DEF IInv, DisjointInv
  <2>4. q \in InRound /\ ind \in InRound
    BY <1>3, <2>1, <2>2 DEF InRound
  <2>5. QED
    BY <2>2, <2>3, <2>4 DEF IInv, DisjointInv, Exclusive
<1>7. Contract!Begin(ind)
  BY <1>2, <1>3, <1>4, <1>5, <1>6 DEF Contract!Begin
<1>8. QED
  BY <1>3, <1>7 DEF Contract!Next

LEMMA ContractEnd ==
  ASSUME IInv, NEW w \in Workers, End(w) \/ Throw(w)
  PROVE  Contract!Next
<1>1. /\ pc[w] = "busy"
      /\ current \in [Workers -> SUBSET CouplingMatrix]
      /\ pc \in [Workers -> PcStates]
      /\ \A v \in Workers \ {w} : current[v] \cap current[w] = {}
  BY DEF End, Throw, EndProcess, ThrowProcess, IInv, TypeOK, TasksTypeOK, BatchInv,
         DisjointInv
<1>2. PICK ind \in CouplingMatrix : current[w] = {ind}
  BY <1>1 DEF IInv, BatchInv
<1>3. ind \in InProgress
  BY <1>1, <1>2 DEF InProgress
<1>4. ASSUME End(w) PROVE Contract!Return(ind)
  <2>1. /\ done' = done \cup {ind}
        /\ current' = [current EXCEPT ![w] = {}]
        /\ pc' = [pc EXCEPT ![w] = IF todo[w] = {} THEN "left" ELSE "batch"]
        /\ outcome' = outcome
    BY <1>2, <1>4 DEF End, EndProcess
  <2>2. InProgress' = InProgress \ {ind}
    BY <1>1, <1>2, <2>1 DEF InProgress
  <2>3. Failed' = Failed
    BY <1>1, <2>1 DEF Failed
  <2>4. QED
    BY <1>3, <2>1, <2>2, <2>3 DEF Contract!Return
<1>5. ASSUME Throw(w) PROVE Contract!Throw(ind)
  <2>1. /\ pc' = [pc EXCEPT ![w] = "threw"]
        /\ UNCHANGED <<current, outcome, done>>
    BY <1>5 DEF Throw, ThrowProcess
  <2>2. InProgress' = InProgress \ {ind}
    BY <1>1, <1>2, <2>1 DEF InProgress
  <2>3. Failed' = Failed \cup {ind}
    BY <1>1, <1>2, <2>1 DEF Failed
  <2>4. QED
    BY <1>3, <2>1, <2>2, <2>3 DEF Contract!Throw
<1>6. QED
  BY <1>4, <1>5 DEF Contract!Next

\* Scheduling the last, empty round is prepareOutput(); scheduling any other one
\* is not seen.
LEMMA ContractSchedule ==
  ASSUME IInv, nextAll
  PROVE  [Contract!Next]_(Contract!contractVars)
<1>1. PICK taken, batches :
        /\ taken \subseteq myRemainedItems \ InRound
        /\ Exclusive(taken)
        /\ batches \in [Workers -> SUBSET taken]
        /\ UNION {batches[w] : w \in Workers} = taken
        /\ \A v, w \in Workers : v # w => batches[v] \cap batches[w] = {}
        /\ taken = {} => myRemainedItems \ InRound = {}
        /\ myRemainedItems' = myRemainedItems \ InRound
        /\ myLockedItems' = lockItem(taken, {})
        /\ myPreviouslyLocked' = batches
        /\ todo' = batches
        /\ pc' = [w \in Workers |-> IF batches[w] = {} THEN "left" ELSE "submitted"]
        /\ IF taken = {} THEN outcome' = "output" /\ round' = round
                         ELSE round' = "wait" /\ outcome' = outcome
  BY NextAllChoices
<1>2. /\ outcome = "processing" /\ round = "schedule"
      /\ UNCHANGED <<current, done>>
  BY DEF nextAll
<1>3. \A w \in Workers : pc[w] \notin {"busy", "threw"} /\ pc'[w] \notin {"busy", "threw"}
  BY <1>1, <1>2 DEF IInv, PhaseInv
<1>4. InProgress = {} /\ Failed = {} /\ InProgress' = {} /\ Failed' = {}
  BY <1>3 DEF InProgress, Failed
<1>5. CASE taken = {}
  <2>1. done = CouplingMatrix
    BY <1>1, <1>2, <1>5, RoundDone DEF IInv, RemainedInv, TypeOK, TasksTypeOK
  <2>2. QED
    BY <1>1, <1>2, <1>4, <1>5, <2>1 DEF Contract!Next, Contract!PrepareOutput
<1>6. CASE taken # {}
  BY <1>1, <1>2, <1>4, <1>6 DEF Contract!contractVars
<1>7. QED
  BY <1>5, <1>6

\* The end of a round is not seen, unless it rethrows.
LEMMA ContractWait ==
  ASSUME IInv, Wait
  PROVE  [Contract!Next]_(Contract!contractVars)
<1>1. /\ outcome = "processing"
      /\ \A w \in Workers : pc[w] \in Ended
      /\ outcome' = IF cancelled THEN "rethrown" ELSE outcome
      /\ UNCHANGED <<pc, current, done>>
  BY DEF Wait, Joined, taskVars
<1>2. UNCHANGED <<InProgress, Failed>>
  BY <1>1 DEF InProgress, Failed
<1>3. CASE cancelled
  <2>1. InProgress = {}
    BY <1>1 DEF InProgress, Ended
  <2>2. Failed # {}
    BY <1>3 DEF cancelled, Failed, IInv, BatchInv
  <2>3. QED
    BY <1>1, <1>2, <1>3, <2>1, <2>2 DEF Contract!Next, Contract!Rethrow
<1>4. CASE ~cancelled
  BY <1>1, <1>2, <1>4 DEF Contract!contractVars
<1>5. QED
  BY <1>3, <1>4

\* A task is started or skipped.
LEMMA ContractStutter ==
  ASSUME IInv, NEW w \in Workers, Start(w) \/ Skip(w)
  PROVE  UNCHANGED Contract!contractVars
<1>1. /\ UNCHANGED <<current, outcome, done>>
      /\ current[w] = {}
      /\ \A v \in Workers \ {w} : pc'[v] = pc[v]
      /\ pc \in [Workers -> PcStates]
  BY DEF Start, Skip, StartTask, SkipTask, IInv, TypeOK, TasksTypeOK, BatchInv
<1>2. /\ \A x : x \in InProgress' <=> x \in InProgress
      /\ \A x : x \in Failed' <=> x \in Failed
  BY <1>1 DEF InProgress, Failed
<1>3. InProgress' = InProgress /\ Failed' = Failed
  BY <1>2
<1>4. QED
  BY <1>1, <1>3 DEF Contract!contractVars

\* Every coupled pair is processed exactly once, never two with a common item at a
\* time, and prepareOutput() runs only on the complete result.
THEOREM Refinement == SafeSpec => KeepsContract
<1>1. ASSUME IInv, [Next]_vars PROVE [Contract!Next]_(Contract!contractVars)
  <2>1. CASE UNCHANGED vars
    BY <2>1 DEF vars, groupVars, taskVars, Contract!contractVars, InProgress, Failed
  <2>2. CASE nextAll
    BY <1>1, <2>2, ContractSchedule
  <2>3. CASE Wait
    BY <1>1, <2>3, ContractWait
  <2>4. ASSUME NEW w \in Workers,
               Start(w) \/ Skip(w) \/ Begin(w) \/ End(w) \/ Throw(w)
        PROVE  [Contract!Next]_(Contract!contractVars)
    BY <1>1, <2>4, ContractBegin, ContractEnd, ContractStutter
  <2>5. QED
    BY <1>1, <2>1, <2>2, <2>3, <2>4 DEF Next, Terminated
<1>2. QED
  BY <1>1, ContractInit, Invariance, PTL DEF SafeSpec, KeepsContract, Contract!Spec
=============================================================================
