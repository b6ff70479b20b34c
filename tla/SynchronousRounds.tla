-------------------------- MODULE SynchronousRounds --------------------------
(***************************************************************************)
(* ThreadPoolExecutor::runParallelOnCoupledData with a ParallelAccessor:   *)
(* the main thread asks nextAll() for one batch per worker, runs a task    *)
(* per batch, waits for all of them, and starts over until nothing is      *)
(* left.  The tasks never touch the accessor.                              *)
(***************************************************************************)
EXTENDS ParallelAccessor, TaskGroup

ASSUME RoundsAssumption == Throwing \subseteq CouplingMatrix

VARIABLES myRemainedItems,    \* indexers not yet taken off by unlockAll
          myPreviouslyLocked, \* the batches of the round (ids in the caller)
          myLockedItems,      \* items locked by the round
          round               \* main thread: "schedule" (at nextAll) or "wait"

dataVars == <<myRemainedItems, myPreviouslyLocked, myLockedItems>>
vars     == <<dataVars, round, groupVars>>

InRound == UNION {myPreviouslyLocked[w] : w \in Workers}

TypeOK ==
  /\ myRemainedItems \in SUBSET CouplingMatrix
  /\ myPreviouslyLocked \in [Workers -> SUBSET CouplingMatrix]
  /\ myLockedItems \in SUBSET Items
  /\ round \in {"schedule", "wait"}
  /\ TasksTypeOK(CouplingMatrix)

Init ==
  /\ myRemainedItems = CouplingMatrix
  /\ myPreviouslyLocked = [w \in Workers |-> {}]
  /\ myLockedItems = {}
  /\ round = "schedule"
  /\ pc = [w \in Workers |-> "left"]
  /\ todo = [w \in Workers |-> {}]
  /\ current = [w \in Workers |-> {}]
  /\ outcome = "processing"
  /\ done = {}

\* next() is called once per worker: each call fills its batch before the
\* following call gets anything, so at most one batch is partly filled.
Batches(taken) ==
  {batches \in [Workers -> {b \in SUBSET taken : Cardinality(b) <= BatchSize}] :
     /\ UNION {batches[w] : w \in Workers} = taken
     /\ \A v, w \in Workers : v # w => batches[v] \cap batches[w] = {}
     /\ Cardinality({w \in Workers : Cardinality(batches[w]) \in 1 .. BatchSize - 1}) <= 1}

\* nextAll(): unlockAll(), then next() for every worker; the batches are the
\* tasks of the round.  With no batch the loop ends and prepareOutput() runs.
nextAll ==
  /\ outcome = "processing"
  /\ round = "schedule"
  /\ LET remained == myRemainedItems \ InRound
     IN \E taken \in Scan(remained, {}, BatchSize * Cardinality(Workers)) :
          \E batches \in Batches(taken) :
             /\ myRemainedItems' = remained
             /\ myLockedItems' = lockItem(taken, {})
             /\ myPreviouslyLocked' = batches
             /\ todo' = batches
             /\ pc' = [w \in Workers |-> IF batches[w] = {} THEN "left" ELSE "submitted"]
             /\ IF taken = {} THEN outcome' = "output" /\ UNCHANGED round
                              ELSE round' = "wait" /\ UNCHANGED outcome
  /\ UNCHANGED <<current, done>>

\* wait() returns and the main thread goes back to nextAll(), or rethrows.
Wait ==
  /\ Joined
  /\ round = "wait"
  /\ IF cancelled THEN outcome' = "rethrown" /\ UNCHANGED round
                  ELSE round' = "schedule" /\ UNCHANGED outcome
  /\ UNCHANGED <<dataVars, taskVars, done>>

Terminated == outcome # "processing" /\ UNCHANGED vars

mainVars == <<dataVars, round>>

Start(w) == StartTask(w, "batch") /\ UNCHANGED mainVars
Skip(w)  == SkipTask(w) /\ UNCHANGED mainVars
Begin(w) == (\E ind \in todo[w] : BeginProcess(w, ind)) /\ UNCHANGED mainVars
End(w)   == EndProcess(w, "left") /\ UNCHANGED mainVars
Throw(w) == ThrowProcess(w) /\ UNCHANGED mainVars

Next ==
  \/ nextAll
  \/ \E w \in Workers : Start(w) \/ Skip(w) \/ Begin(w) \/ End(w) \/ Throw(w)
  \/ Wait
  \/ Terminated

\* As for the asynchronous dispatcher; the main thread keeps running.
Fairness ==
  /\ \A w \in Workers : WF_vars(Skip(w) \/ Begin(w) \/ End(w) \/ Throw(w))
  /\ WF_vars(\E w \in Workers : Start(w))
  /\ WF_vars(nextAll \/ Wait)

SafeSpec == Init /\ [][Next]_vars
Spec     == SafeSpec /\ Fairness
-----------------------------------------------------------------------------
(* Properties *)

\* A round accounts for everything: what unlockAll() has taken off is done, and
\* when wait() has returned without an exception so is the whole round.
RoundAccounted ==
  /\ CouplingMatrix \ myRemainedItems \subseteq done
  /\ round = "schedule" => InRound \subseteq done

\* Every round makes progress: no task is under way when indexers are taken off
\* the remaining ones, and those taken off are exactly the previous round's.
RoundsNeverOverlap ==
  [][myLockedItems' # myLockedItems =>
        /\ \A w \in Workers : pc[w] = "left" /\ current[w] = {}
        /\ myRemainedItems \ myRemainedItems' = InRound]_vars

\* The rounds keep the executor's contract.
Contract == INSTANCE ExecutorContract WITH
  Ops       <- CouplingMatrix,
  Footprint <- [ind \in CouplingMatrix |-> ItemsOf(ind)],
  running   <- InProgress,
  failed    <- Failed

KeepsContract == Contract!Spec

\* The loop over the rounds ends.
EventuallyReturns == <>(outcome # "processing")
=============================================================================
