-------------------- MODULE AsynchronousDispatcherProofs --------------------
(***************************************************************************)
(* Machine-checked proofs about the asynchronous dispatcher, for every     *)
(* coupling matrix, worker count, batch size, number of pool threads and   *)
(* set of operations that may throw.                                       *)
(***************************************************************************)
EXTENDS AsynchronousDispatcher, FiniteSetTheorems, TLAPS

USE AccessorAssumption, TaskGroupAssumption, DispatcherAssumption

\* The bookkeeping of one worker's batch: what it has not begun, what it is
\* processing and what it has done of it.
BatchInv ==
  \A w \in Workers :
     /\ pc[w] \in {"submitted", "left", "skipped"} => ids[w] = {}
     /\ todo[w] \subseteq ids[w] \ done
     /\ current[w] \subseteq ids[w] \ (done \cup todo[w])
     /\ ids[w] \subseteq todo[w] \cup current[w] \cup done
     /\ pc[w] = "batch" => todo[w] # {}
     /\ pc[w] \notin {"busy", "threw"} <=> current[w] = {}
     /\ pc[w] \notin {"batch", "busy", "threw"} => todo[w] = {}
     /\ \A p, q \in current[w] : p = q

\* What is remained is exactly what is not done, except for batches that were
\* processed but not handed back; nobody owns what has been handed back.
RemainedInv ==
  /\ CouplingMatrix \ myRemainedItems \subseteq done
  /\ myQueue \subseteq myRemainedItems \ done
  /\ \A w \in Workers : ids[w] \subseteq myRemainedItems
  /\ done \cap myRemainedItems \subseteq UNION {ids[w] : w \in Workers}

\* The main thread leaves wait() only when every task has ended.
JoinInv ==
  /\ outcome # "processing" => \A w \in Workers : pc[w] \in Ended
  /\ outcome = "output" => ~cancelled
  /\ (\E w \in Workers : pc[w] = "skipped") => cancelled

\* The inductive invariant.
IInv ==
  /\ TypeOK
  /\ LocksMatchOwners
  /\ BatchInv
  /\ RemainedInv
  /\ LeaversStrandNothing
  /\ JoinInv
-----------------------------------------------------------------------------
(* Lemmas about the scan of the remained indexers *)

\* The limit of produce() is never zero.
LEMMA ProductsPositive == nProducts \in Nat \ {0}
<1>1. Cardinality(Workers) \in Nat \ {0}
  BY FS_CardinalityType, FS_EmptySet
<1>2. ItemCount * BatchSize \in Nat \ {0}
  BY SMT
<1>3. \A m, n \in Nat \ {0} : m * n \in Nat \ {0}
  BY SMT
<1>4. QED
  BY <1>1, <1>2, <1>3 DEF nProducts

\* A scan that takes nothing met only indexers with a locked item.
LEMMA EmptyScan ==
  ASSUME NEW remained, NEW locked, NEW limit \in Nat \ {0},
         {} \in Scan(remained, locked, limit)
  PROVE  \A ind \in remained : isLocked(ind, locked)
<1>1. Cardinality({}) < limit
  BY FS_EmptySet
<1>2. \A ind \in remained \ {} : isLocked(ind, lockItem({}, locked))
  BY <1>1 DEF Scan
<1>3. lockItem({}, locked) = locked
  BY DEF lockItem, ItemsOfAll
<1>4. QED
  BY <1>2, <1>3

\* consume() returns an empty batch only from an empty queue.
LEMMA EmptyConsume ==
  ASSUME NEW queue, {} \in Consumed(queue)
  PROVE  queue = {}
<1>1. Cardinality({}) < BatchSize
  BY FS_EmptySet
<1>2. QED
  BY <1>1 DEF Consumed

\* What next(w) does, with the choices of produce() and consume() named.
LEMMA NextChoices ==
  ASSUME NEW w \in Workers, next(w)
  PROVE  \E produced, batch :
           /\ produced \subseteq myRemainedItems \ ids[w]
           /\ Exclusive(produced)
           /\ \A ind \in produced : ~isLocked(ind, unlock(ids[w], myLockedItems))
           /\ batch \subseteq myQueue \cup produced
           /\ batch = {} =>
                /\ myQueue \cup produced = {}
                /\ \A ind \in myRemainedItems \ ids[w] :
                      isLocked(ind, unlock(ids[w], myLockedItems))
           /\ myRemainedItems' = myRemainedItems \ ids[w]
           /\ myLockedItems' = lockItem(produced, unlock(ids[w], myLockedItems))
           /\ myQueue' = (myQueue \cup produced) \ batch
           /\ ids' = [ids EXCEPT ![w] = batch]
           /\ todo' = [todo EXCEPT ![w] = batch]
           /\ pc' = [pc EXCEPT ![w] = IF batch = {} THEN "left" ELSE "batch"]
<1> DEFINE remained == myRemainedItems \ ids[w]
           unlocked == unlock(ids[w], myLockedItems)
<1>1. PICK produced \in Produced(remained, unlocked) :
        \E batch \in Consumed(myQueue \cup produced) :
           /\ myRemainedItems' = remained
           /\ myLockedItems' = lockItem(produced, unlocked)
           /\ myQueue' = (myQueue \cup produced) \ batch
           /\ ids' = [ids EXCEPT ![w] = batch]
           /\ todo' = [todo EXCEPT ![w] = batch]
           /\ pc' = [pc EXCEPT ![w] = IF batch = {} THEN "left" ELSE "batch"]
  BY DEF next
<1>2. PICK batch \in Consumed(myQueue \cup produced) :
           /\ myRemainedItems' = remained
           /\ myLockedItems' = lockItem(produced, unlocked)
           /\ myQueue' = (myQueue \cup produced) \ batch
           /\ ids' = [ids EXCEPT ![w] = batch]
           /\ todo' = [todo EXCEPT ![w] = batch]
           /\ pc' = [pc EXCEPT ![w] = IF batch = {} THEN "left" ELSE "batch"]
  BY <1>1
<1>3. /\ produced \subseteq remained
      /\ Exclusive(produced)
      /\ \A ind \in produced : ~isLocked(ind, unlocked)
  <2>1. CASE myQueue = {}
    BY <2>1, <1>1 DEF Produced, Scan
  <2>2. CASE myQueue # {}
    <3>1. produced = {}
      BY <2>2, <1>1 DEF Produced
    <3>2. QED
      BY <3>1 DEF Exclusive
  <2>3. QED
    BY <2>1, <2>2
<1>4. batch \subseteq myQueue \cup produced
  BY <1>2 DEF Consumed
<1>5. ASSUME batch = {}
      PROVE  /\ myQueue \cup produced = {}
             /\ \A ind \in remained : isLocked(ind, unlocked)
  <2>1. myQueue \cup produced = {}
    BY <1>2, <1>5, EmptyConsume
  <2>2. {} \in Scan(remained, unlocked, nProducts)
    BY <2>1, <1>1 DEF Produced
  <2>3. QED
    BY <2>1, <2>2, EmptyScan, ProductsPositive
<1>6. QED
  BY <1>2, <1>3, <1>4, <1>5
-----------------------------------------------------------------------------
(* The inductive invariant *)

LEMMA InitIInv == Init => IInv
<1> SUFFICES ASSUME Init PROVE IInv
  OBVIOUS
<1>1. TypeOK
  BY DEF Init, TypeOK, TasksTypeOK, PcStates, Ended
<1>2. LocksMatchOwners
  BY DEF Init, LocksMatchOwners, ItemsOfAll, Owned, Exclusive
<1>3. BatchInv
  BY DEF Init, BatchInv
<1>4. RemainedInv
  BY DEF Init, RemainedInv
<1>5. LeaversStrandNothing
  BY DEF Init, LeaversStrandNothing
<1>6. JoinInv
  BY DEF Init, JoinInv, cancelled
<1>7. QED
  BY <1>1, <1>2, <1>3, <1>4, <1>5, <1>6 DEF IInv

\* next(w) keeps the locks in step with their owners.
LEMMA NextLocks ==
  ASSUME IInv, NEW w \in Workers, next(w)
  PROVE  LocksMatchOwners'
<1>1. PICK produced, batch :
        /\ produced \subseteq myRemainedItems \ ids[w]
        /\ Exclusive(produced)
        /\ \A ind \in produced : ~isLocked(ind, unlock(ids[w], myLockedItems))
        /\ batch \subseteq myQueue \cup produced
        /\ myLockedItems' = lockItem(produced, unlock(ids[w], myLockedItems))
        /\ myQueue' = (myQueue \cup produced) \ batch
        /\ ids' = [ids EXCEPT ![w] = batch]
  BY NextChoices
<1> DEFINE Others == myQueue \cup UNION {ids[v] : v \in Workers \ {w}}
<1>2. /\ ids \in [Workers -> SUBSET CouplingMatrix]
      /\ myQueue \subseteq CouplingMatrix
      /\ myRemainedItems \subseteq CouplingMatrix
      /\ produced \subseteq CouplingMatrix
  BY <1>1 DEF IInv, TypeOK
<1>3. /\ Owned = Others \cup ids[w]
      /\ Others \cap ids[w] = {}
      /\ Exclusive(Owned)
      /\ Owned \subseteq CouplingMatrix
  BY <1>2 DEF IInv, LocksMatchOwners, Owned
<1>4. unlock(ids[w], myLockedItems) = ItemsOfAll(Others)
  <2>1. myLockedItems = ItemsOfAll(Others \cup ids[w])
    BY <1>3 DEF IInv, LocksMatchOwners
  <2>2. \A p \in Others, q \in ids[w] : ItemsOf(p) \cap ItemsOf(q) = {}
    BY <1>3 DEF Exclusive
  <2>3. \A i \in ItemsOfAll(Others) : i \notin ItemsOfAll(ids[w])
    BY <2>2 DEF ItemsOfAll
  <2>4. ItemsOfAll(Others \cup ids[w]) = ItemsOfAll(Others) \cup ItemsOfAll(ids[w])
    BY DEF ItemsOfAll
  <2>5. QED
    BY <2>1, <2>3, <2>4 DEF unlock
<1>5. \A p \in produced, q \in Others : ItemsOf(p) \cap ItemsOf(q) = {}
  <2>1. \A p \in CouplingMatrix : ItemsOf(p) \subseteq Items
    BY DEF ItemsOf, Items
  <2>2. \A p \in produced : \A i \in ItemsOf(p) : i \notin ItemsOfAll(Others)
    BY <1>1, <1>4 DEF isLocked
  <2>3. QED
    BY <1>2, <2>1, <2>2 DEF ItemsOfAll
<1>6. produced \cap Others = {}
  BY <1>5 DEF ItemsOf
<1>7. Owned' = Others \cup produced
  <2>1. UNION {ids'[v] : v \in Workers} = batch \cup UNION {ids[v] : v \in Workers \ {w}}
    BY <1>1, <1>2
  <2>2. QED
    BY <1>1, <2>1 DEF Owned
<1>8. myLockedItems' = ItemsOfAll(Owned)'
  BY <1>1, <1>4, <1>7 DEF lockItem, ItemsOfAll
<1>9. Exclusive(Owned)'
  BY <1>1, <1>3, <1>5, <1>7 DEF Exclusive
<1>10. \A u, v \in Workers :
          /\ ids'[u] \cap myQueue' = {}
          /\ u # v => ids'[u] \cap ids'[v] = {}
  <2>1. /\ \A u \in Workers : ids[u] \cap myQueue = {}
        /\ \A u, v \in Workers : u # v => ids[u] \cap ids[v] = {}
    BY DEF IInv, LocksMatchOwners
  <2>2. \A u \in Workers \ {w} : ids[u] \cap (myQueue \cup produced) = {}
    BY <1>6, <2>1
  <2>3. /\ ids'[w] = batch
        /\ \A u \in Workers \ {w} : ids'[u] = ids[u]
    BY <1>1, <1>2
  <2>4. QED
    BY <1>1, <2>1, <2>2, <2>3
<1>11. QED
  BY <1>8, <1>9, <1>10 DEF LocksMatchOwners

\* ... and the rest of the invariant.
LEMMA NextIInv ==
  ASSUME IInv, NEW w \in Workers, next(w)
  PROVE  IInv'
<1>1. PICK produced, batch :
        /\ produced \subseteq myRemainedItems \ ids[w]
        /\ \A ind \in produced : ~isLocked(ind, unlock(ids[w], myLockedItems))
        /\ batch \subseteq myQueue \cup produced
        /\ batch = {} =>
             /\ myQueue \cup produced = {}
             /\ \A ind \in myRemainedItems \ ids[w] :
                   isLocked(ind, unlock(ids[w], myLockedItems))
        /\ myRemainedItems' = myRemainedItems \ ids[w]
        /\ myLockedItems' = lockItem(produced, unlock(ids[w], myLockedItems))
        /\ myQueue' = (myQueue \cup produced) \ batch
        /\ ids' = [ids EXCEPT ![w] = batch]
        /\ todo' = [todo EXCEPT ![w] = batch]
        /\ pc' = [pc EXCEPT ![w] = IF batch = {} THEN "left" ELSE "batch"]
  BY NextChoices
<1>2. pc[w] = "next" /\ UNCHANGED <<current, outcome, done>>
  BY DEF next
<1>3. /\ TypeOK
      /\ ids \in [Workers -> SUBSET CouplingMatrix]
      /\ todo \in [Workers -> SUBSET CouplingMatrix]
      /\ current \in [Workers -> SUBSET CouplingMatrix]
      /\ pc \in [Workers -> PcStates]
      /\ produced \subseteq CouplingMatrix
      /\ batch \subseteq CouplingMatrix
  BY <1>1 DEF IInv, TypeOK, TasksTypeOK
<1>4. TypeOK'
  BY <1>1, <1>2, <1>3
  DEF TypeOK, TasksTypeOK, PcStates, Ended, lockItem, unlock, ItemsOfAll
<1>5. /\ todo[w] = {}
      /\ current[w] = {}
      /\ ids[w] \subseteq done
  BY <1>2 DEF IInv, BatchInv
<1>6. /\ ids'[w] = batch /\ todo'[w] = batch
      /\ pc'[w] = IF batch = {} THEN "left" ELSE "batch"
      /\ \A v \in Workers \ {w} : ids'[v] = ids[v] /\ todo'[v] = todo[v] /\ pc'[v] = pc[v]
  BY <1>1, <1>3
\* An indexer that is remained and done is in the batch of another worker, so
\* its items are locked and the scan does not take it again.
<1>7. produced \cap done = {}
  <2> SUFFICES ASSUME NEW p \in produced, p \in done PROVE FALSE
    OBVIOUS
  <2>1. PICK v \in Workers : p \in ids[v]
    BY <1>1 DEF IInv, RemainedInv
  <2>2. v # w
    BY <1>1, <2>1
  <2>3. p[1] \in Items /\ p[1] \in ItemsOf(p)
    BY <1>3 DEF ItemsOf, Items
  <2>4. p[1] \in myLockedItems
    BY <2>1, <2>3 DEF IInv, LocksMatchOwners, Owned, ItemsOfAll
  <2>5. p[1] \notin ItemsOfAll(ids[w])
    <3>1. \A q \in ids[w] : q # p /\ q \in Owned
      BY <2>1, <2>2 DEF IInv, LocksMatchOwners, Owned
    <3>2. p \in Owned
      BY <2>1 DEF Owned
    <3>3. QED
      BY <2>3, <3>1, <3>2 DEF IInv, LocksMatchOwners, Exclusive, ItemsOfAll
  <2>6. isLocked(p, unlock(ids[w], myLockedItems))
    BY <2>3, <2>4, <2>5 DEF isLocked, unlock
  <2>7. QED
    BY <1>1, <2>6
<1>8. batch \cap done = {}
  BY <1>1, <1>7 DEF IInv, RemainedInv
<1>9. BatchInv'
  <2> SUFFICES ASSUME NEW v \in Workers
               PROVE  /\ pc'[v] \in {"submitted", "left", "skipped"} => ids'[v] = {}
                      /\ todo'[v] \subseteq ids'[v] \ done
                      /\ current[v] \subseteq ids'[v] \ (done \cup todo'[v])
                      /\ ids'[v] \subseteq todo'[v] \cup current[v] \cup done
                      /\ pc'[v] = "batch" => todo'[v] # {}
                      /\ pc'[v] \notin {"busy", "threw"} <=> current[v] = {}
                      /\ pc'[v] \notin {"batch", "busy", "threw"} => todo'[v] = {}
                      /\ \A p, q \in current[v] : p = q
    BY <1>2 DEF BatchInv
  <2>1. CASE v = w
    BY <2>1, <1>5, <1>6, <1>8
  <2>2. CASE v # w
    BY <2>2, <1>6 DEF IInv, BatchInv
  <2>3. QED
    BY <2>1, <2>2
<1>10. RemainedInv'
  <2>1. CouplingMatrix \ myRemainedItems' \subseteq done'
    BY <1>1, <1>2, <1>5 DEF IInv, RemainedInv
  <2>2. \A v \in Workers \ {w} : ids[v] \cap ids[w] = {}
    BY DEF IInv, LocksMatchOwners
  <2>3. myQueue' \subseteq myRemainedItems' \ done'
    BY <1>1, <1>2, <1>5, <1>7 DEF IInv, RemainedInv
  <2>4. \A v \in Workers : ids'[v] \subseteq myRemainedItems'
    <3>1. batch \subseteq myRemainedItems'
      BY <1>1, <1>5, <1>8 DEF IInv, RemainedInv
    <3>2. \A v \in Workers \ {w} : ids[v] \subseteq myRemainedItems'
      BY <1>1, <2>2 DEF IInv, RemainedInv
    <3>3. QED
      BY <3>1, <3>2, <1>6
  <2>5. done' \cap myRemainedItems' \subseteq UNION {ids'[v] : v \in Workers}
    <3> SUFFICES ASSUME NEW p \in done, p \in myRemainedItems, p \notin ids[w]
                 PROVE  \E v \in Workers : p \in ids'[v]
      BY <1>1, <1>2
    <3>1. PICK v \in Workers : p \in ids[v]
      BY DEF IInv, RemainedInv
    <3>2. QED
      BY <3>1, <1>6
  <2>6. QED
    BY <2>1, <2>3, <2>4, <2>5 DEF RemainedInv
\* A worker leaves only if every remaining indexer has an item that another
\* worker's batch has locked.
<1>11. LeaversStrandNothing'
  <2>1. CASE batch # {}
    BY <2>1, <1>6 DEF LeaversStrandNothing
  <2>2. CASE batch = {}
    <3>1. CASE myRemainedItems' = {}
      BY <3>1 DEF LeaversStrandNothing
    <3>2. CASE myRemainedItems' # {}
      <4>1. PICK p \in myRemainedItems \ ids[w] : isLocked(p, unlock(ids[w], myLockedItems))
        BY <1>1, <2>2, <3>2
      <4>2. PICK i \in myLockedItems : i \notin ItemsOfAll(ids[w])
        BY <4>1 DEF isLocked, unlock
      <4>3. PICK q \in Owned : i \in ItemsOf(q)
        BY <4>2 DEF IInv, LocksMatchOwners, ItemsOfAll
      <4>4. i \in Items
        BY <4>2 DEF IInv, TypeOK
      <4>5. PICK v \in Workers \ {w} : q \in ids[v]
        BY <1>1, <2>2, <4>2, <4>3, <4>4 DEF Owned, ItemsOfAll
      <4>6. QED
        BY <4>5, <1>6 DEF LeaversStrandNothing
    <3>3. QED
      BY <3>1, <3>2
  <2>3. QED
    BY <2>1, <2>2
<1>12. JoinInv'
  <2>1. outcome = "processing"
    BY <1>2 DEF IInv, JoinInv, Ended
  <2>2. cancelled => cancelled'
    BY <1>2, <1>6 DEF cancelled
  <2>3. (\E v \in Workers : pc'[v] = "skipped") => \E v \in Workers : pc[v] = "skipped"
    BY <1>6
  <2>4. QED
    BY <2>1, <2>2, <2>3, <1>2 DEF IInv, JoinInv
<1>13. QED
  BY <1>4, <1>9, <1>10, <1>11, <1>12, NextLocks DEF IInv

\* The steps of a task between two calls of next() leave the accessor alone:
\* only the bookkeeping of its own batch can change.
LEMMA TaskIInv ==
  ASSUME IInv, NEW w \in Workers,
         Start(w) \/ Skip(w) \/ Begin(w) \/ End(w) \/ Throw(w)
  PROVE  IInv'
<1>1. /\ UNCHANGED <<myRemainedItems, myQueue, myLockedItems, ids, outcome>>
      /\ ids \in [Workers -> SUBSET CouplingMatrix]
      /\ todo \in [Workers -> SUBSET CouplingMatrix]
      /\ current \in [Workers -> SUBSET CouplingMatrix]
      /\ pc \in [Workers -> PcStates]
      /\ done \subseteq CouplingMatrix
      /\ outcome \in {"processing", "output", "rethrown"}
  BY DEF IInv, TypeOK, TasksTypeOK, Start, Skip, Begin, End, Throw, dataVars,
         StartTask, SkipTask, BeginProcess, EndProcess, ThrowProcess
<1>2. LocksMatchOwners'
  BY <1>1 DEF IInv, LocksMatchOwners, Owned
<1>3. ASSUME Start(w) PROVE IInv'
  <2>1. pc[w] = "submitted" /\ pc' = [pc EXCEPT ![w] = "next"]
        /\ UNCHANGED <<todo, current, done>>
    BY <1>3 DEF Start, StartTask
  <2>2. ids[w] = {} /\ todo[w] = {} /\ current[w] = {} /\ ~cancelled
    BY <1>3, <2>1 DEF IInv, BatchInv, Start, StartTask
  <2>3. TypeOK'
    BY <1>1, <2>1 DEF IInv, TypeOK, TasksTypeOK, PcStates
  <2>4. BatchInv'
    BY <1>1, <2>1, <2>2 DEF IInv, BatchInv
  <2>5. RemainedInv' /\ LeaversStrandNothing'
    BY <1>1, <2>1 DEF IInv, RemainedInv, LeaversStrandNothing
  <2>6. JoinInv'
    BY <1>1, <2>1, <2>2 DEF IInv, JoinInv, cancelled, Ended
  <2>7. QED
    BY <1>2, <2>3, <2>4, <2>5, <2>6 DEF IInv
<1>4. ASSUME Skip(w) PROVE IInv'
  <2>1. pc[w] = "submitted" /\ pc' = [pc EXCEPT ![w] = "skipped"]
        /\ UNCHANGED <<todo, current, done>> /\ cancelled
    BY <1>4 DEF Skip, SkipTask
  <2>2. ids[w] = {} /\ todo[w] = {} /\ current[w] = {}
    BY <2>1 DEF IInv, BatchInv
  <2>3. TypeOK'
    BY <1>1, <2>1 DEF IInv, TypeOK, TasksTypeOK, PcStates, Ended
  <2>4. BatchInv'
    BY <1>1, <2>1, <2>2 DEF IInv, BatchInv
  <2>5. RemainedInv' /\ LeaversStrandNothing'
    BY <1>1, <2>1 DEF IInv, RemainedInv, LeaversStrandNothing
  <2>6. JoinInv'
    BY <1>1, <2>1 DEF IInv, JoinInv, cancelled, Ended
  <2>7. QED
    BY <1>2, <2>3, <2>4, <2>5, <2>6 DEF IInv
<1>5. ASSUME Begin(w) PROVE IInv'
  <2>1. PICK ind \in todo[w] : BeginProcess(w, ind)
    BY <1>5 DEF Begin
  <2>2. /\ pc[w] = "batch"
        /\ todo' = [todo EXCEPT ![w] = todo[w] \ {ind}]
        /\ current' = [current EXCEPT ![w] = {ind}]
        /\ pc' = [pc EXCEPT ![w] = "busy"]
        /\ done' = done
    BY <2>1 DEF BeginProcess
  <2>3. TypeOK'
    BY <1>1, <2>1, <2>2 DEF IInv, TypeOK, TasksTypeOK, PcStates
  <2>4. BatchInv'
    BY <1>1, <2>1, <2>2 DEF IInv, BatchInv
  <2>5. RemainedInv' /\ LeaversStrandNothing'
    BY <1>1, <2>2 DEF IInv, RemainedInv, LeaversStrandNothing
  <2>6. JoinInv'
    BY <1>1, <2>2 DEF IInv, JoinInv, cancelled, Ended
  <2>7. QED
    BY <1>2, <2>3, <2>4, <2>5, <2>6 DEF IInv
<1>6. ASSUME End(w) PROVE IInv'
  <2>1. /\ pc[w] = "busy"
        /\ done' = done \cup current[w]
        /\ current' = [current EXCEPT ![w] = {}]
        /\ pc' = [pc EXCEPT ![w] = IF todo[w] = {} THEN "next" ELSE "batch"]
        /\ todo' = todo
    BY <1>6 DEF End, EndProcess
  <2>2. TypeOK'
    BY <1>1, <2>1 DEF IInv, TypeOK, TasksTypeOK, PcStates
  <2>3. current[w] \subseteq ids[w]
    BY DEF IInv, BatchInv
  <2>4. \A v \in Workers \ {w} : ids[v] \cap current[w] = {}
    BY <2>3 DEF IInv, LocksMatchOwners
  <2>5. BatchInv'
    <3> SUFFICES ASSUME NEW v \in Workers
                 PROVE  /\ pc'[v] \in {"submitted", "left", "skipped"} => ids[v] = {}
                        /\ todo[v] \subseteq ids[v] \ done'
                        /\ current'[v] \subseteq ids[v] \ (done' \cup todo[v])
                        /\ ids[v] \subseteq todo[v] \cup current'[v] \cup done'
                        /\ pc'[v] = "batch" => todo[v] # {}
                        /\ pc'[v] \notin {"busy", "threw"} <=> current'[v] = {}
                        /\ pc'[v] \notin {"batch", "busy", "threw"} => todo[v] = {}
                        /\ \A p, q \in current'[v] : p = q
      BY <1>1, <2>1 DEF BatchInv
    <3>1. CASE v = w
      BY <3>1, <1>1, <2>1 DEF IInv, BatchInv
    <3>2. CASE v # w
      BY <3>2, <1>1, <2>1, <2>4 DEF IInv, BatchInv
    <3>3. QED
      BY <3>1, <3>2
  <2>6. RemainedInv'
    <3>1. myQueue \cap current[w] = {}
      BY <2>3 DEF IInv, LocksMatchOwners
    <3>2. QED
      BY <1>1, <2>1, <2>3, <3>1 DEF IInv, RemainedInv
  <2>7. LeaversStrandNothing'
    BY <1>1, <2>1 DEF IInv, LeaversStrandNothing
  <2>8. JoinInv'
    BY <1>1, <2>1 DEF IInv, JoinInv, cancelled, Ended
  <2>9. QED
    BY <1>2, <2>2, <2>5, <2>6, <2>7, <2>8 DEF IInv
<1>7. ASSUME Throw(w) PROVE IInv'
  <2>1. pc[w] = "busy" /\ pc' = [pc EXCEPT ![w] = "threw"]
        /\ UNCHANGED <<todo, current, done>>
    BY <1>7 DEF Throw, ThrowProcess
  <2>2. TypeOK'
    BY <1>1, <2>1 DEF IInv, TypeOK, TasksTypeOK, PcStates, Ended
  <2>3. BatchInv'
    BY <1>1, <2>1 DEF IInv, BatchInv
  <2>4. RemainedInv' /\ LeaversStrandNothing'
    BY <1>1, <2>1 DEF IInv, RemainedInv, LeaversStrandNothing
  <2>5. JoinInv'
    BY <1>1, <2>1 DEF IInv, JoinInv, cancelled, Ended
  <2>6. QED
    BY <1>2, <2>2, <2>3, <2>4, <2>5 DEF IInv
<1>8. QED
  BY <1>3, <1>4, <1>5, <1>6, <1>7

LEMMA StepIInv == IInv /\ [Next]_vars => IInv'
<1> SUFFICES ASSUME IInv, [Next]_vars PROVE IInv'
  OBVIOUS
<1>1. ASSUME NEW w \in Workers,
             Start(w) \/ Skip(w) \/ next(w) \/ Begin(w) \/ End(w) \/ Throw(w)
      PROVE  IInv'
  BY <1>1, NextIInv, TaskIInv
<1>2. ASSUME Wait PROVE IInv'
  <2>1. UNCHANGED <<dataVars, taskVars, done>>
    BY <1>2 DEF Wait
  <2>2. TypeOK'
    BY <1>2, <2>1 DEF IInv, TypeOK, TasksTypeOK, Wait, dataVars, taskVars
  <2>3. LocksMatchOwners' /\ BatchInv' /\ RemainedInv' /\ LeaversStrandNothing'
    BY <2>1 DEF IInv, LocksMatchOwners, Owned, BatchInv, RemainedInv,
                LeaversStrandNothing, dataVars, taskVars
  <2>4. JoinInv'
    BY <1>2, <2>1 DEF IInv, JoinInv, Wait, Joined, cancelled, taskVars
  <2>5. QED
    BY <2>2, <2>3, <2>4 DEF IInv
<1>3. ASSUME UNCHANGED vars PROVE IInv'
  BY <1>3 DEF vars, dataVars, groupVars, taskVars, IInv, TypeOK, TasksTypeOK,
     LocksMatchOwners, Owned, BatchInv, RemainedInv, LeaversStrandNothing, JoinInv,
     cancelled
<1>4. QED
  BY <1>1, <1>2, <1>3 DEF Next, Terminated

\* The inductive invariant holds in every reachable state.
THEOREM Invariance == SafeSpec => []IInv
BY InitIInv, StepIInv, PTL DEF SafeSpec
-----------------------------------------------------------------------------
(* What follows from it *)

\* Type correctness.
THEOREM TypeCorrect == SafeSpec => []TypeOK
BY Invariance, PTL DEF IInv

\* Mutual exclusion: myLockedItems is exactly what the queued and handed-out
\* indexers need, and no two of those share an item.
THEOREM MutualExclusion == SafeSpec => []LocksMatchOwners
BY Invariance, PTL DEF IInv

\* An empty myRemainedItems does mean that everything has been processed.
THEOREM RemainedIsExact == SafeSpec => []RemainedCoversUnprocessed
<1>1. IInv => RemainedCoversUnprocessed
  BY DEF IInv, RemainedInv, RemainedCoversUnprocessed
<1>2. QED
  BY <1>1, Invariance, PTL

\* A worker that leaves early strands nothing.
THEOREM NothingStranded == SafeSpec => []LeaversStrandNothing
BY Invariance, PTL DEF IInv

\* When wait() returns normally everything has been processed: each worker has
\* left, so none holds a batch, and leavers strand nothing.
LEMMA OutputComplete ==
  ASSUME IInv, \A w \in Workers : pc[w] \in Ended, ~cancelled
  PROVE  done = CouplingMatrix
<1>1. \A w \in Workers : pc[w] = "left" /\ ids[w] = {}
  BY DEF Ended, cancelled, IInv, JoinInv, BatchInv
<1>2. myRemainedItems = {}
  BY <1>1 DEF IInv, LeaversStrandNothing
<1>3. QED
  BY <1>2 DEF IInv, RemainedInv, TypeOK, TasksTypeOK

\* Only the worker that holds an item's indexer unlocks it, after processing.
THEOREM OwnerUnlocks == SafeSpec => OnlyOwnerUnlocks
<1> DEFINE A == \A i \in myLockedItems \ myLockedItems' :
                   \E w \in Workers : /\ pc[w] = "next"
                                      /\ i \in ItemsOfAll(ids[w])
                                      /\ ids[w] \subseteq done
<1>1. ASSUME IInv, [Next]_vars PROVE [A]_vars
  <2>1. ASSUME NEW w \in Workers, next(w) PROVE A
    <3>1. myLockedItems \ myLockedItems' \subseteq ItemsOfAll(ids[w])
      BY <2>1, NextChoices DEF lockItem, unlock
    <3>2. pc[w] = "next" /\ ids[w] \subseteq done
      BY <1>1, <2>1 DEF next, IInv, BatchInv
    <3>3. QED
      BY <3>1, <3>2
  <2>2. ASSUME NEW w \in Workers,
               Start(w) \/ Skip(w) \/ Begin(w) \/ End(w) \/ Throw(w)
        PROVE  myLockedItems' = myLockedItems
    BY <2>2 DEF Start, Skip, Begin, End, Throw, dataVars
  <2>3. Wait \/ UNCHANGED vars => myLockedItems' = myLockedItems
    BY DEF Wait, vars, dataVars
  <2>4. QED
    BY <1>1, <2>1, <2>2, <2>3 DEF Next, Terminated
<1>2. SafeSpec => [][A]_vars
  BY <1>1, Invariance, PTL DEF SafeSpec
<1>3. QED
  BY <1>2 DEF OnlyOwnerUnlocks
-----------------------------------------------------------------------------
(* The dispatcher implements the executor's contract *)

LEMMA ContractInit == Init => Contract!Init
BY DEF Init, Contract!Init, InProgress, Failed

LEMMA ContractBegin ==
  ASSUME IInv, NEW w \in Workers, Begin(w)
  PROVE  Contract!Next
<1>1. PICK ind \in todo[w] : BeginProcess(w, ind)
  BY DEF Begin
<1>2. /\ pc[w] = "batch" /\ current[w] = {} /\ outcome = "processing"
      /\ current' = [current EXCEPT ![w] = {ind}]
      /\ pc' = [pc EXCEPT ![w] = "busy"]
      /\ UNCHANGED <<outcome, done>>
  BY <1>1 DEF BeginProcess, IInv, BatchInv, JoinInv, Ended
<1>3. /\ current \in [Workers -> SUBSET CouplingMatrix]
      /\ pc \in [Workers -> PcStates]
      /\ ind \in CouplingMatrix /\ ind \in ids[w] /\ ind \notin done
  BY <1>1 DEF IInv, TypeOK, TasksTypeOK, BatchInv
<1>4. InProgress' = InProgress \cup {ind}
  BY <1>2, <1>3 DEF InProgress
<1>5. Failed' = Failed
  BY <1>2, <1>3 DEF Failed
<1>6. ASSUME NEW q \in InProgress \cup Failed
      PROVE  /\ q # ind /\ q \in CouplingMatrix
             /\ ItemsOf(ind) \cap ItemsOf(q) = {}
  <2>1. PICK v \in Workers \ {w} : q \in current[v]
    BY <1>2, <1>6 DEF InProgress, Failed
  <2>2. q \in ids[v] /\ q \in CouplingMatrix
    BY <1>3, <2>1 DEF IInv, BatchInv
  <2>3. q # ind
    BY <1>3, <2>1, <2>2 DEF IInv, LocksMatchOwners
  <2>4. q \in Owned /\ ind \in Owned
    BY <1>3, <2>1, <2>2 DEF Owned
  <2>5. QED
    BY <2>2, <2>3, <2>4 DEF IInv, LocksMatchOwners, Exclusive
<1>7. Contract!Begin(ind)
  BY <1>2, <1>3, <1>4, <1>5, <1>6 DEF Contract!Begin
<1>8. QED
  BY <1>3, <1>7 DEF Contract!Next

LEMMA ContractEnd ==
  ASSUME IInv, NEW w \in Workers, End(w) \/ Throw(w)
  PROVE  Contract!Next
<1>1. /\ pc[w] = "busy"
      /\ current \in [Workers -> SUBSET CouplingMatrix]
      /\ pc \in [Workers -> PcStates]
      /\ \A v \in Workers \ {w} : current[v] \cap current[w] = {}
  BY DEF End, Throw, EndProcess, ThrowProcess, IInv, TypeOK, TasksTypeOK, BatchInv,
         LocksMatchOwners
<1>2. PICK ind \in CouplingMatrix : current[w] = {ind}
  BY <1>1 DEF IInv, BatchInv
<1>3. ind \in InProgress
  BY <1>1, <1>2 DEF InProgress
<1>4. ASSUME End(w) PROVE Contract!Return(ind)
  <2>1. /\ done' = done \cup {ind}
        /\ current' = [current EXCEPT ![w] = {}]
        /\ pc' = [pc EXCEPT ![w] = IF todo[w] = {} THEN "next" ELSE "batch"]
        /\ outcome' = outcome
    BY <1>2, <1>4 DEF End, EndProcess
  <2>2. InProgress' = InProgress \ {ind}
    BY <1>1, <1>2, <2>1 DEF InProgress
  <2>3. Failed' = Failed
    BY <1>1, <2>1 DEF Failed
  <2>4. QED
    BY <1>3, <2>1, <2>2, <2>3 DEF Contract!Return
<1>5. ASSUME Throw(w) PROVE Contract!Throw(ind)
  <2>1. /\ pc' = [pc EXCEPT ![w] = "threw"]
        /\ UNCHANGED <<current, outcome, done>>
    BY <1>5 DEF Throw, ThrowProcess
  <2>2. InProgress' = InProgress \ {ind}
    BY <1>1, <1>2, <2>1 DEF InProgress
  <2>3. Failed' = Failed \cup {ind}
    BY <1>1, <1>2, <2>1 DEF Failed
  <2>4. QED
    BY <1>3, <2>1, <2>2, <2>3 DEF Contract!Throw
<1>6. QED
  BY <1>4, <1>5 DEF Contract!Next

LEMMA ContractWait ==
  ASSUME IInv, Wait
  PROVE  Contract!Next
<1>1. /\ outcome = "processing"
      /\ \A w \in Workers : pc[w] \in Ended
      /\ outcome' = IF cancelled THEN "rethrown" ELSE "output"
      /\ UNCHANGED <<pc, current, done>>
  BY DEF Wait, Joined, taskVars
<1>2. UNCHANGED <<InProgress, Failed>>
  BY <1>1 DEF InProgress, Failed
<1>3. CASE cancelled
  <2>1. InProgress = {}
    BY <1>1 DEF InProgress, Ended
  <2>2. Failed # {}
    BY <1>3 DEF cancelled, Failed, IInv, BatchInv
  <2>3. QED
    BY <1>1, <1>2, <1>3, <2>1, <2>2 DEF Contract!Next, Contract!Rethrow
<1>4. CASE ~cancelled
  <2>1. done = CouplingMatrix
    BY <1>1, <1>4, OutputComplete
  <2>2. QED
    BY <1>1, <1>2, <1>4, <2>1 DEF Contract!Next, Contract!PrepareOutput
<1>5. QED
  BY <1>3, <1>4

\* The other steps stutter.
LEMMA ContractStutter ==
  ASSUME IInv, NEW w \in Workers, Start(w) \/ Skip(w) \/ next(w)
  PROVE  UNCHANGED Contract!contractVars
<1>1. /\ UNCHANGED <<current, outcome, done>>
      /\ current[w] = {}
      /\ \A v \in Workers \ {w} : pc'[v] = pc[v]
      /\ pc \in [Workers -> PcStates]
  <2>1. pc \in [Workers -> PcStates] /\ pc[w] \notin {"busy", "threw"}
    BY DEF Start, Skip, next, StartTask, SkipTask, IInv, TypeOK, TasksTypeOK
  <2>2. current[w] = {}
    BY <2>1 DEF IInv, BatchInv
  <2>3. UNCHANGED <<current, outcome, done>>
    BY DEF Start, Skip, next, StartTask, SkipTask
  <2>4. \E x : pc' = [pc EXCEPT ![w] = x]
    <3>1. CASE next(w)
      BY <3>1, NextChoices
    <3>2. CASE Start(w) \/ Skip(w)
      BY <3>2 DEF Start, Skip, StartTask, SkipTask
    <3>3. QED
      BY <3>1, <3>2
  <2>5. QED
    BY <2>1, <2>2, <2>3, <2>4
<1>2. /\ \A x : x \in InProgress' <=> x \in InProgress
      /\ \A x : x \in Failed' <=> x \in Failed
  BY <1>1 DEF InProgress, Failed
<1>3. InProgress' = InProgress /\ Failed' = Failed
  BY <1>2
<1>4. QED
  BY <1>1, <1>3 DEF Contract!contractVars

\* Every coupled pair is processed exactly once, never two with a common item at
\* a time, and prepareOutput() runs only on the complete result.
THEOREM Refinement == SafeSpec => KeepsContract
<1>1. ASSUME IInv, [Next]_vars PROVE [Contract!Next]_(Contract!contractVars)
  <2>1. CASE UNCHANGED vars
    BY <2>1 DEF vars, groupVars, taskVars, Contract!contractVars, InProgress, Failed
  <2>2. CASE Wait
    BY <1>1, <2>2, ContractWait
  <2>3. ASSUME NEW w \in Workers,
               Start(w) \/ Skip(w) \/ next(w) \/ Begin(w) \/ End(w) \/ Throw(w)
        PROVE  [Contract!Next]_(Contract!contractVars)
    BY <1>1, <2>3, ContractBegin, ContractEnd, ContractStutter
  <2>4. QED
    BY <1>1, <2>1, <2>2, <2>3 DEF Next, Terminated
<1>2. QED
  BY <1>1, ContractInit, Invariance, PTL DEF SafeSpec, KeepsContract, Contract!Spec
=============================================================================
