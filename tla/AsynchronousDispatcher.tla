----------------------- MODULE AsynchronousDispatcher -----------------------
(***************************************************************************)
(* ThreadPoolExecutor::runAsynchronouslyOnCoupledData with the             *)
(* AsynchronousDispatcher, the default way to run a coupled operation.     *)
(* One task per worker asks next() for a batch of indexers, processes each *)
(* of them, and hands the batch back with the following call of next().    *)
(* next() runs under myMutex, so it is one action.                         *)
(***************************************************************************)
EXTENDS ParallelAccessor, TaskGroup

ASSUME DispatcherAssumption == Throwing \subseteq CouplingMatrix

VARIABLES myRemainedItems, \* indexers not handed back yet
          myQueue,         \* indexers produced (and locked) but not consumed
          myLockedItems,   \* items of the indexers handed out or queued
          ids              \* the batch each worker got from next()

dataVars == <<myRemainedItems, myQueue, myLockedItems, ids>>
vars     == <<dataVars, groupVars>>

TypeOK ==
  /\ myRemainedItems \in SUBSET CouplingMatrix
  /\ myQueue \in SUBSET CouplingMatrix
  /\ myLockedItems \in SUBSET Items
  /\ ids \in [Workers -> SUBSET CouplingMatrix]
  /\ TasksTypeOK(CouplingMatrix)

\* setCouplingMatrix: every element of the matrix is to be processed; one task
\* per worker is submitted.
Init ==
  /\ myRemainedItems = CouplingMatrix
  /\ myQueue = {}
  /\ myLockedItems = {}
  /\ ids = [w \in Workers |-> {}]
  /\ pc = [w \in Workers |-> "submitted"]
  /\ todo = [w \in Workers |-> {}]
  /\ current = [w \in Workers |-> {}]
  /\ outcome = "processing"
  /\ done = {}

\* Mutant: a share of the items, which is rounded to nothing.
nProductsShare == ItemCount \div (BatchSize * Cardinality(Workers))

nProducts == ItemCount * BatchSize * Cardinality(Workers)

\* produce(): only an empty queue is refilled.
Produced(remained, locked) ==
  IF myQueue = {} THEN Scan(remained, locked, nProducts) ELSE {{}}

\* consume(): at most BatchSize from the front of the queue.
Consumed(queue) ==
  {batch \in SUBSET queue :
     /\ Cardinality(batch) <= BatchSize
     /\ Cardinality(batch) < BatchSize => batch = queue}

\* next(prevLocked): hand back the previous batch, refill the queue if it is
\* empty, take a batch; a worker that gets nothing leaves for good.
next(w) ==
  /\ pc[w] = "next"
  /\ LET remained == myRemainedItems \ ids[w]
         unlocked == unlock(ids[w], myLockedItems)
     IN \E produced \in Produced(remained, unlocked) :
          \E batch \in Consumed(myQueue \cup produced) :
             /\ myRemainedItems' = remained
             /\ myLockedItems' = lockItem(produced, unlocked)
             /\ myQueue' = (myQueue \cup produced) \ batch
             /\ ids' = [ids EXCEPT ![w] = batch]
             /\ todo' = [todo EXCEPT ![w] = batch]
             /\ pc' = [pc EXCEPT ![w] = IF batch = {} THEN "left" ELSE "batch"]
  /\ UNCHANGED <<current, outcome, done>>

\* The main thread leaves wait() and runs prepareOutput(), or rethrows.
Wait ==
  /\ Joined
  /\ outcome' = IF cancelled THEN "rethrown" ELSE "output"
  /\ UNCHANGED <<dataVars, taskVars, done>>

Terminated == outcome # "processing" /\ UNCHANGED vars

Start(w) == StartTask(w, "next") /\ UNCHANGED dataVars
Skip(w)  == SkipTask(w) /\ UNCHANGED dataVars
Begin(w) == (\E ind \in todo[w] : BeginProcess(w, ind)) /\ UNCHANGED dataVars
End(w)   == EndProcess(w, "next") /\ UNCHANGED dataVars
Throw(w) == ThrowProcess(w) /\ UNCHANGED dataVars

Next ==
  \/ \E w \in Workers :
        Start(w) \/ Skip(w) \/ next(w) \/ Begin(w) \/ End(w) \/ Throw(w)
  \/ Wait
  \/ Terminated

(***************************************************************************)
(* A thread of the pool keeps running its task, the mutex is always        *)
(* released, processing an indexer returns or throws, and the pool picks   *)
(* up some submitted task whenever a thread is free.                       *)
(***************************************************************************)
Fairness ==
  /\ \A w \in Workers : WF_vars(Skip(w) \/ next(w) \/ Begin(w) \/ End(w) \/ Throw(w))
  /\ WF_vars(\E w \in Workers : Start(w))
  /\ WF_vars(Wait)

SafeSpec == Init /\ [][Next]_vars
Spec     == SafeSpec /\ Fairness
-----------------------------------------------------------------------------
(* Properties *)

\* The indexers that some worker or the queue answers for.
Owned == myQueue \cup UNION {ids[w] : w \in Workers}

\* Every lock has exactly one reason: the locked items are those of the queued
\* and handed-out indexers, no two of which share an item or are held twice
\* (next, produce, unlock: what isExclusive promises).
LocksMatchOwners ==
  /\ myLockedItems = ItemsOfAll(Owned)
  /\ Exclusive(Owned)
  /\ \A w \in Workers : ids[w] \cap myQueue = {}
  /\ \A v, w \in Workers : v # w => ids[v] \cap ids[w] = {}

\* "myRemainedItems.size()==0 does not means all items have been processed"
\* (AsynchronousDispatcher.h:17-18): in fact unlock() takes an indexer off
\* myRemainedItems only after it was processed, so what is missing there is done.
RemainedCoversUnprocessed == CouplingMatrix \ myRemainedItems \subseteq done

\* A worker that finds nothing and leaves never strands work: whatever is still
\* remained then is answered for by a worker that comes back to next(), or that
\* threw.
LeaversStrandNothing ==
  (\E w \in Workers : pc[w] = "left") =>
     \/ myRemainedItems = {}
     \/ \E w \in Workers : ids[w] # {}

\* An item is unlocked only by the worker whose batch contains it, and only when
\* that worker has processed its whole batch: nobody's lock is stolen.
OnlyOwnerUnlocks ==
  [][\A i \in myLockedItems \ myLockedItems' :
        \E w \in Workers : /\ pc[w] = "next"
                           /\ i \in ItemsOfAll(ids[w])
                           /\ ids[w] \subseteq done]_vars

\* The dispatcher keeps the executor's contract: every coupled pair processed
\* exactly once, pairs that share an item never together, prepareOutput() only
\* on the complete result, an exception passed on with no item touched again.
Contract == INSTANCE ExecutorContract WITH
  Ops       <- CouplingMatrix,
  Footprint <- [ind \in CouplingMatrix |-> ItemsOf(ind)],
  running   <- InProgress,
  failed    <- Failed

KeepsContract == Contract!Spec

\* wait() returns: whatever the number of pool threads, and whoever throws, no
\* worker waits for an item for ever.
EventuallyReturns == <>(outcome # "processing")
=============================================================================
