----------------------------- MODULE TaskGroup ------------------------------
(***************************************************************************)
(* The tasks that ThreadPoolExecutor hands to its thread pool and the      *)
(* wait() of the main thread, shared by the three ways of scheduling       *)
(* (blocks, synchronous rounds, asynchronous dispatcher).  A task is a     *)
(* loop over a batch of operations; processing one begins and ends in two  *)
(* steps, and nothing orders the steps of two tasks.                       *)
(*                                                                         *)
(* tbb::task_group itself is a library, modelled from its use: at most     *)
(* PoolThreads tasks are under way at once, a task that throws cancels the *)
(* tasks that have not started, the ones that have go on, and wait()       *)
(* rethrows when all have ended.                                           *)
(***************************************************************************)
EXTENDS Naturals, FiniteSets

CONSTANTS Workers,       \* one task per worker: myWorkerCount of them
          PoolThreads,   \* threads that the task_group really has
          Throwing       \* the operations whose processing may throw

ASSUME TaskGroupAssumption ==
  /\ IsFiniteSet(Workers)
  /\ Workers # {}
  /\ PoolThreads \in Nat \ {0}

VARIABLES pc,            \* where the task of each worker is
          todo,          \* operations of its batch that it has not begun
          current,       \* the operation it is processing (a set of at most one)
          outcome,       \* main thread: "processing", then "output" or "rethrown"
          done           \* history: the operations that have returned

taskVars  == <<pc, todo, current>>
groupVars == <<taskVars, outcome, done>>

Ended    == {"left", "threw", "skipped"}
PcStates == {"submitted", "next", "batch", "busy"} \cup Ended

TasksTypeOK(Ops) ==
  /\ pc \in [Workers -> PcStates]
  /\ todo \in [Workers -> SUBSET Ops]
  /\ current \in [Workers -> SUBSET Ops]
  /\ outcome \in {"processing", "output", "rethrown"}
  /\ done \in SUBSET Ops

cancelled == \E w \in Workers : pc[w] = "threw"

UnderWay == {w \in Workers : pc[w] \in {"next", "batch", "busy"}}

\* A free thread picks the task up; `first` is where its code starts.
StartTask(w, first) ==
  /\ pc[w] = "submitted"
  /\ ~cancelled
  /\ Cardinality(UnderWay) < PoolThreads
  /\ pc' = [pc EXCEPT ![w] = first]
  /\ UNCHANGED <<todo, current, outcome, done>>

\* A cancelled group drops the tasks it has not started.
SkipTask(w) ==
  /\ pc[w] = "submitted"
  /\ cancelled
  /\ pc' = [pc EXCEPT ![w] = "skipped"]
  /\ UNCHANGED <<todo, current, outcome, done>>

\* Mutant: a loop that does not advance.
BeginProcessAgain(w, op) ==
  /\ pc[w] = "batch"
  /\ op \in todo[w]
  /\ current' = [current EXCEPT ![w] = {op}]
  /\ pc' = [pc EXCEPT ![w] = "busy"]
  /\ UNCHANGED <<todo, outcome, done>>

\* processItem(i) or processItemPair(i, j) is called
BeginProcess(w, op) ==
  /\ pc[w] = "batch"
  /\ op \in todo[w]
  /\ todo' = [todo EXCEPT ![w] = @ \ {op}]
  /\ current' = [current EXCEPT ![w] = {op}]
  /\ pc' = [pc EXCEPT ![w] = "busy"]
  /\ UNCHANGED <<outcome, done>>

\* Mutant: a loop that is left after its first operation.
EndProcessFirst(w, after) ==
  /\ pc[w] = "busy"
  /\ done' = done \cup current[w]
  /\ current' = [current EXCEPT ![w] = {}]
  /\ pc' = [pc EXCEPT ![w] = after]
  /\ UNCHANGED <<todo, outcome>>

\* ... and returns; after the last one of the batch the task goes on to `after`.
EndProcess(w, after) ==
  /\ pc[w] = "busy"
  /\ done' = done \cup current[w]
  /\ current' = [current EXCEPT ![w] = {}]
  /\ pc' = [pc EXCEPT ![w] = IF todo[w] = {} THEN after ELSE "batch"]
  /\ UNCHANGED <<todo, outcome>>

\* ... or throws, which ends the task.
ThrowProcess(w) ==
  /\ pc[w] = "busy"
  /\ current[w] \subseteq Throwing
  /\ pc' = [pc EXCEPT ![w] = "threw"]
  /\ UNCHANGED <<todo, current, outcome, done>>

\* Mutant: wait() for any task instead of all of them.
JoinedAny == outcome = "processing" /\ \E w \in Workers : pc[w] \in Ended

\* wait() returns, or rethrows
Joined == outcome = "processing" /\ \A w \in Workers : pc[w] \in Ended

InProgress == UNION {current[w] : w \in {v \in Workers : pc[v] = "busy"}}
Failed     == UNION {current[w] : w \in {v \in Workers : pc[v] = "threw"}}
=============================================================================
