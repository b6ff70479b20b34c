--------------------------- MODULE ParallelInBlock ---------------------------
(***************************************************************************)
(* ThreadPoolExecutor::process() for operations on single items: the items *)
(* are split into one contiguous block per worker (runParallelInBlock), or *)
(* by a given partition id (runParallelOnPartitionedData), and each task   *)
(* runs ProcessorTemplate::processItem on its items in turn.               *)
(*                                                                         *)
(* processItem stores its result into myResultData[index].  The default    *)
(* ResultItemType is bool and VectorType<bool> is std::vector<bool>, which *)
(* packs WordSize results into one machine word: the store loads the word, *)
(* sets one bit and stores the word back.  With another ResultItemType     *)
(* every result is an object of its own: WordSize is 1 then.               *)
(***************************************************************************)
EXTENDS TaskGroup

CONSTANTS NItems,        \* inputData()->itemCount()
          WorkerCount,   \* myWorkerCount
          WordSize       \* results per machine word

ASSUME BlockAssumption ==
  /\ NItems \in Nat
  /\ WorkerCount \in Nat \ {0}
  /\ Workers = 0 .. WorkerCount - 1
  /\ WordSize \in Nat \ {0}
  /\ Throwing \subseteq 0 .. NItems - 1

Items == 0 .. NItems - 1

VARIABLES range,         \* range[w]: i_start .. i_end or ids, captured by the task
          myResultData,  \* myResultData[i]: has the result of item i been stored
          loaded         \* loaded[w]: the results of the word that w has loaded

vars == <<range, myResultData, loaded, groupVars>>

\* Mutant: rounded down.
itemPerThreadDown == NItems \div WorkerCount

\* runParallelInBlock: NItems / myWorkerCount, rounded up
itemPerThread ==
  (NItems \div WorkerCount) + (IF NItems > 0 /\ NItems % WorkerCount # 0 THEN 1 ELSE 0)

\* Mutant: i <= i_end.
BlockClosed(t) == {i \in Items : t * itemPerThread <= i /\ i <= (t + 1) * itemPerThread}

\* [i_start, i_end) of worker t, cut at NItems; empty when i_start >= NItems
Block(t) == {i \in Items : t * itemPerThread <= i /\ i < (t + 1) * itemPerThread}

\* The items of each worker, in either way of splitting.  A partition id is the
\* number of the worker that the item is bound to (TypeDefs.h:95).
Splits ==
  {[t \in Workers |-> Block(t)]} \cup
  {[t \in Workers |-> {i \in Items : partitionId[i] = t}] :
      partitionId \in [Items -> Workers]}

TypeOK ==
  /\ range \in [Workers -> SUBSET Items]
  /\ myResultData \in [Items -> BOOLEAN]
  /\ loaded \in [Workers -> SUBSET Items]
  /\ TasksTypeOK(Items)

\* prepareInput() resizes myResultData; a task is submitted for each worker that
\* has items.
Init ==
  /\ myResultData = [i \in Items |-> FALSE]
  /\ loaded = [w \in Workers |-> {}]
  /\ range \in Splits
  /\ todo = range
  /\ pc = [w \in Workers |-> IF todo[w] = {} THEN "left" ELSE "submitted"]
  /\ current = [w \in Workers |-> {}]
  /\ outcome = "processing"
  /\ done = {}

Start(w) == StartTask(w, "batch") /\ UNCHANGED <<range, myResultData, loaded>>
Skip(w)  == SkipTask(w) /\ UNCHANGED <<range, myResultData, loaded>>
Throw(w) == ThrowProcess(w) /\ loaded[w] = {} /\ UNCHANGED <<range, myResultData, loaded>>

\* The loop takes the items in increasing order and calls processItem(i).
Begin(w) ==
  /\ \E i \in todo[w] : /\ \A k \in todo[w] : i <= k
                        /\ BeginProcess(w, i)
  /\ UNCHANGED <<range, myResultData, loaded>>

\* The results in the same word as item i.
Word(i) == {k \in Items : k \div WordSize = i \div WordSize}

\* myItemProcessor(i) has returned; the word of its result is loaded, ...
Load(w) ==
  /\ pc[w] = "busy"
  /\ loaded[w] = {}
  /\ \E i \in current[w] : loaded' = [loaded EXCEPT ![w] =
        {i} \cup {k \in Word(i) : myResultData[k]}]
  /\ UNCHANGED <<range, myResultData, groupVars>>

\* ... and stored with the bit of item i set.
Store(w) ==
  /\ loaded[w] # {}
  /\ \E i \in current[w] : myResultData' =
        [k \in Items |-> IF k \in Word(i) THEN k \in loaded[w] ELSE myResultData[k]]
  /\ loaded' = [loaded EXCEPT ![w] = {}]
  /\ EndProcess(w, "left")
  /\ UNCHANGED range

\* wait() returns and prepareOutput() publishes myResultData, or it rethrows.
Wait ==
  /\ Joined
  /\ outcome' = IF cancelled THEN "rethrown" ELSE "output"
  /\ UNCHANGED <<range, myResultData, loaded, taskVars, done>>

Terminated == outcome # "processing" /\ UNCHANGED vars

Next ==
  \/ \E w \in Workers :
        Start(w) \/ Skip(w) \/ Begin(w) \/ Load(w) \/ Store(w) \/ Throw(w)
  \/ Wait
  \/ Terminated

Spec == Init /\ [][Next]_vars

-----------------------------------------------------------------------------
(* Properties *)

\* "process data item in parallel without affecting other data items"
\* (ProcessorTemplate.h:119): a result that processItem has stored is still there
\* whatever others store.  It is not where results are packed.
ResultsKept == \A i \in done : myResultData[i]

\* A worker "can be read and write its own own range" of a vector without lock
\* (ParallelDesign.md:49): what it has stored stays, however the other workers'
\* loads and stores fall, in the words that are within its range.  Only at a word on
\* the border of two ranges can a result be lost.
OwnRangeKept ==
  \A w \in Workers : \A i \in range[w] \cap done :
     Word(i) \subseteq range[w] => myResultData[i]

\* A split keeps the executor's contract: "it must be calc once and only once"
\* (ParallelAccessorTest.cpp:35), and prepareOutput() only when all are.
Contract == INSTANCE ExecutorContract WITH
  Ops       <- Items,
  Footprint <- [i \in Items |-> {i}],
  running   <- InProgress,
  failed    <- Failed

KeepsContract == Contract!Spec
=============================================================================
