------------------------ MODULE ParallelInBlockProofs ------------------------
(***************************************************************************)
(* Machine-checked proofs about the split of items into blocks or          *)
(* partitions, for every number of items, workers and pool threads, every  *)
(* size of a word and every set of items that may throw.                   *)
(***************************************************************************)
EXTENDS ParallelInBlock, TLAPS

USE TaskGroupAssumption, BlockAssumption

\* A worker answers for the items it has still to do and the one it is at.
Share(w) == todo[w] \cup current[w]

\* The bookkeeping of each task.
ShareInv ==
  \A w \in Workers :
     /\ pc[w] # "next"
     /\ Share(w) \cap done = {}
     /\ todo[w] \cap current[w] = {}
     /\ pc[w] \notin {"busy", "threw"} <=> current[w] = {}
     /\ pc[w] = "left" => todo[w] = {}
     /\ \A i, k \in current[w] : i = k

\* No item belongs to two workers, and none is lost.
SplitInv ==
  /\ \A v, w \in Workers : v # w => Share(v) \cap Share(w) = {}
  /\ \A i \in Items \ done : \E w \in Workers : i \in Share(w)

\* Where the main thread is, and where the tasks are then.
PhaseInv ==
  /\ outcome # "processing" => \A w \in Workers : pc[w] \in Ended
  /\ (\E w \in Workers : pc[w] = "skipped") => cancelled

\* The inductive invariant of the split.
IInv ==
  /\ TasksTypeOK(Items)
  /\ ShareInv
  /\ SplitInv
  /\ PhaseInv
-----------------------------------------------------------------------------
(* The split *)

LEMMA ProductMonotone ==
  ASSUME NEW p \in Nat, NEW s \in Nat, NEW t \in Nat, s < t
  PROVE  (s + 1) * p <= t * p
<1>1. PICK d \in Nat : t = (s + 1) + d
  <2>1. t - (s + 1) \in Nat /\ t = (s + 1) + (t - (s + 1))
    OBVIOUS
  <2>2. QED
    BY <2>1
<1>2. t * p = (s + 1) * p + d * p
  BY <1>1
<1>3. d * p \in Nat /\ (s + 1) * p \in Nat
  BY <1>1
<1>4. QED
  BY <1>2, <1>3

\* The blocks of all workers together are long enough.
LEMMA BlocksReach ==
  /\ itemPerThread \in Nat
  /\ NItems <= WorkerCount * itemPerThread
<1> DEFINE q == NItems \div WorkerCount
           r == NItems % WorkerCount
<1>1. q \in Nat /\ r \in Nat /\ NItems = WorkerCount * q + r /\ r < WorkerCount
  BY SMT
<1> HIDE DEF q, r
<1>2. itemPerThread = q + (IF NItems > 0 /\ r # 0 THEN 1 ELSE 0)
  BY DEF itemPerThread, q, r
<1>3. CASE r = 0
  <2>1. itemPerThread = q
    BY <1>1, <1>2, <1>3
  <2>2. QED
    BY <2>1, <1>1, <1>3
<1>4. CASE r # 0
  <2>1. WorkerCount * q \in Nat
    BY <1>1
  <2>2. NItems > 0
    BY <1>1, <1>4, <2>1
  <2>3. itemPerThread = q + 1
    BY <1>2, <1>4, <2>2
  <2>4. WorkerCount * (q + 1) = WorkerCount * q + WorkerCount
    BY <1>1
  <2>5. QED
    BY <2>1, <2>3, <2>4, <1>1
<1>5. QED
  BY <1>3, <1>4

\* Every item is in the block of a worker, and of one only.
LEMMA BlocksSplit ==
  /\ \A i \in Items : \E t \in Workers : i \in Block(t)
  /\ \A s, t \in Workers : s # t => Block(s) \cap Block(t) = {}
<1> DEFINE p == itemPerThread
<1>1. p \in Nat /\ NItems <= WorkerCount * p
  BY BlocksReach
<1> HIDE DEF p
<1>2. ASSUME NEW i \in Items PROVE \E t \in Workers : i \in Block(t)
  <2>1. i \in Nat /\ i < NItems
    BY DEF Items
  <2>2. p # 0
    BY <1>1, <2>1
  <2> DEFINE t == i \div p
             m == i % p
  <2>3. t \in Nat /\ m \in Nat /\ i = p * t + m /\ m < p
    BY <1>1, <2>1, <2>2, SMT
  <2> HIDE DEF t, m
  <2>4. t * p <= i /\ i < (t + 1) * p
    <3>1. (t + 1) * p = p * t + p /\ t * p = p * t /\ p * t \in Nat
      BY <1>1, <2>3
    <3>2. QED
      BY <1>1, <2>3, <3>1
  <2>5. t < WorkerCount
    <3>1. ASSUME WorkerCount <= t PROVE FALSE
      <4>1. PICK d \in Nat : t = WorkerCount + d
        <5>1. t - WorkerCount \in Nat /\ t = WorkerCount + (t - WorkerCount)
          BY <3>1, <2>3
        <5>2. QED
          BY <5>1
      <4>2. t * p = WorkerCount * p + d * p /\ d * p \in Nat /\ WorkerCount * p \in Nat
        BY <4>1, <1>1
      <4>3. QED
        BY <4>2, <2>4, <2>1, <1>1
    <3>2. QED
      BY <3>1, <2>3
  <2>6. QED
    BY <2>3, <2>4, <2>5 DEF Block, p
<1>3. ASSUME NEW s \in Workers, NEW t \in Workers, s < t, NEW i \in Block(s), i \in Block(t)
      PROVE  FALSE
  <2>1. i \in Nat /\ i < (s + 1) * p /\ t * p <= i
    BY <1>3 DEF Block, Items, p
  <2>2. (s + 1) * p <= t * p
    BY <1>1, <1>3, ProductMonotone
  <2>3. (s + 1) * p \in Nat /\ t * p \in Nat
    BY <1>1
  <2>4. QED
    BY <2>1, <2>2, <2>3
<1>4. \A s, t \in Workers : s # t => s < t \/ t < s
  OBVIOUS
<1>5. QED
  BY <1>2, <1>3, <1>4

LEMMA InitIInv == Init => IInv
<1> SUFFICES ASSUME Init PROVE IInv
  OBVIOUS
<1>1. /\ todo \in [Workers -> SUBSET Items]
      /\ \A i \in Items : \E w \in Workers : i \in todo[w]
      /\ \A v, w \in Workers : v # w => todo[v] \cap todo[w] = {}
  <2>1. CASE todo = [t \in Workers |-> Block(t)]
    <3>1. \A t \in Workers : todo[t] = Block(t) /\ Block(t) \in SUBSET Items
      BY <2>1 DEF Block
    <3>2. QED
      BY <2>1, <3>1, BlocksSplit
  <2>2. CASE \E partitionId \in [Items -> Workers] :
               todo = [t \in Workers |-> {i \in Items : partitionId[i] = t}]
    BY <2>2
  <2>3. QED
    BY <2>1, <2>2 DEF Init, Splits
<1>2. TasksTypeOK(Items)
  BY <1>1 DEF Init, TasksTypeOK, PcStates, Ended
<1>3. ShareInv
  BY DEF Init, ShareInv, Share
<1>4. SplitInv
  BY <1>1 DEF Init, SplitInv, Share
<1>5. PhaseInv
  BY DEF Init, PhaseInv
<1>6. QED
  BY <1>2, <1>3, <1>4, <1>5 DEF IInv
-----------------------------------------------------------------------------
(* The inductive invariant *)

LEMMA TaskIInv ==
  ASSUME IInv, NEW w \in Workers,
         Start(w) \/ Skip(w) \/ Begin(w) \/ Load(w) \/ Store(w) \/ Throw(w)
  PROVE  IInv'
<1>1. /\ todo \in [Workers -> SUBSET Items]
      /\ current \in [Workers -> SUBSET Items]
      /\ pc \in [Workers -> PcStates]
      /\ done \subseteq Items
      /\ outcome \in {"processing", "output", "rethrown"}
  BY DEF IInv, TasksTypeOK
<1>2. pc[w] \notin Ended /\ outcome = "processing" /\ outcome' = outcome
  <2>1. pc[w] \in {"submitted", "batch", "busy"} /\ outcome' = outcome
    BY DEF Start, Skip, Begin, Load, Store, Throw, StartTask, SkipTask, BeginProcess,
           EndProcess, ThrowProcess, groupVars
  <2>2. pc[w] \notin Ended
    BY <2>1 DEF Ended
  <2>3. QED
    BY <2>1, <2>2 DEF IInv, PhaseInv
<1>3. CASE Load(w)
  BY <1>3 DEF Load, groupVars, taskVars, IInv, TasksTypeOK, ShareInv, SplitInv, PhaseInv,
     Share, cancelled
<1>4. ASSUME NEW state \in {"batch", "skipped", "threw"},
             pc' = [pc EXCEPT ![w] = state],
             UNCHANGED <<todo, current, done>>,
             pc[w] = IF state = "threw" THEN "busy" ELSE "submitted",
             state = "skipped" => cancelled, state = "batch" => ~cancelled
      PROVE  IInv'
  <2>1. TasksTypeOK(Items)'
    BY <1>1, <1>2, <1>4 DEF TasksTypeOK, PcStates, Ended
  <2>2. ShareInv' /\ SplitInv'
    BY <1>1, <1>4 DEF IInv, ShareInv, SplitInv, Share
  <2>3. PhaseInv'
    BY <1>1, <1>2, <1>4 DEF IInv, PhaseInv, cancelled
  <2>4. QED
    BY <2>1, <2>2, <2>3 DEF IInv
<1>5. CASE Start(w) \/ Skip(w) \/ Throw(w)
  BY <1>4, <1>5 DEF Start, Skip, Throw, StartTask, SkipTask, ThrowProcess
<1>6. CASE Begin(w)
  <2>1. PICK i \in todo[w] : BeginProcess(w, i)
    BY <1>6 DEF Begin
  <2>2. /\ pc[w] = "batch" /\ current[w] = {}
        /\ todo' = [todo EXCEPT ![w] = todo[w] \ {i}]
        /\ current' = [current EXCEPT ![w] = {i}]
        /\ pc' = [pc EXCEPT ![w] = "busy"]
        /\ done' = done
    BY <2>1 DEF BeginProcess, IInv, ShareInv
  <2>3. TasksTypeOK(Items)'
    BY <1>1, <1>2, <2>1, <2>2 DEF TasksTypeOK, PcStates
  <2>4. \A v \in Workers : Share(v)' = Share(v)
    BY <1>1, <2>1, <2>2 DEF Share
  <2>5. ShareInv'
    BY <1>1, <2>1, <2>2, <2>4 DEF IInv, ShareInv
  <2>6. SplitInv'
    BY <2>2, <2>4 DEF IInv, SplitInv
  <2>7. PhaseInv'
    BY <1>1, <1>2, <2>2 DEF IInv, PhaseInv, cancelled
  <2>8. QED
    BY <2>3, <2>5, <2>6, <2>7 DEF IInv
<1>7. CASE Store(w)
  <2>1. /\ pc[w] = "busy"
        /\ done' = done \cup current[w]
        /\ current' = [current EXCEPT ![w] = {}]
        /\ pc' = [pc EXCEPT ![w] = IF todo[w] = {} THEN "left" ELSE "batch"]
        /\ todo' = todo
    BY <1>7 DEF Store, EndProcess
  <2>2. TasksTypeOK(Items)'
    BY <1>1, <1>2, <2>1 DEF TasksTypeOK, PcStates, Ended
  <2>3. /\ Share(w)' = todo[w] /\ todo[w] \cap done' = {}
        /\ \A v \in Workers \ {w} : Share(v)' = Share(v) /\ Share(v) \cap done' = {}
    BY <1>1, <2>1 DEF IInv, ShareInv, SplitInv, Share
  <2>4. ShareInv'
    BY <1>1, <2>1, <2>3 DEF IInv, ShareInv
  <2>5. SplitInv'
    <3>1. \A u, v \in Workers : u # v => Share(u)' \cap Share(v)' = {}
      BY <2>3 DEF IInv, SplitInv, Share
    <3>2. ASSUME NEW i \in Items \ done' PROVE \E v \in Workers : i \in Share(v)'
      <4>1. PICK v \in Workers : i \in Share(v)
        BY <2>1, <3>2 DEF IInv, SplitInv
      <4>2. CASE v = w
        BY <2>1, <2>3, <3>2, <4>1, <4>2 DEF Share
      <4>3. CASE v # w
        BY <2>3, <4>1, <4>3
      <4>4. QED
        BY <4>2, <4>3
    <3>3. QED
      BY <3>1, <3>2 DEF SplitInv
  <2>6. PhaseInv'
    BY <1>1, <1>2, <2>1 DEF IInv, PhaseInv, cancelled
  <2>7. QED
    BY <2>2, <2>4, <2>5, <2>6 DEF IInv
<1>8. QED
  BY <1>3, <1>5, <1>6, <1>7

LEMMA WaitIInv ==
  ASSUME IInv, Wait
  PROVE  IInv'
<1>1. /\ UNCHANGED <<pc, todo, current, done>>
      /\ outcome' \in {"output", "rethrown"}
      /\ \A w \in Workers : pc[w] \in Ended
  BY DEF Wait, Joined, taskVars
<1>2. QED
  BY <1>1 DEF IInv, TasksTypeOK, ShareInv, SplitInv, PhaseInv, Share, cancelled

LEMMA StepIInv == IInv /\ [Next]_vars => IInv'
<1> SUFFICES ASSUME IInv, [Next]_vars PROVE IInv'
  OBVIOUS
<1>1. ASSUME UNCHANGED vars PROVE IInv'
  BY <1>1 DEF vars, groupVars, taskVars, IInv, TasksTypeOK, ShareInv, SplitInv, PhaseInv,
     Share, cancelled
<1>2. QED
  BY <1>1, TaskIInv, WaitIInv DEF Next, Terminated

\* In every reachable state each item that is not done belongs to exactly one worker,
\* for the block split of runParallelInBlock and for every partition.
THEOREM Invariance == Spec => []IInv
BY InitIInv, StepIInv, PTL DEF Spec
-----------------------------------------------------------------------------
(* Stored results *)

LEMMA StepTypeOK ==
  ASSUME IInv, TypeOK, [Next]_vars
  PROVE  TypeOK'
<1>1. TasksTypeOK(Items)'
  BY StepIInv DEF IInv
<1>2. range' = range
  BY DEF Next, Start, Skip, Begin, Load, Store, Throw, Wait, Terminated, vars
<1>3. CASE UNCHANGED <<myResultData, loaded>>
  BY <1>1, <1>2, <1>3 DEF TypeOK
<1>4. ASSUME NEW w \in Workers, Load(w)
      PROVE  TypeOK'
  <2>1. PICK i \in current[w] :
          loaded' = [loaded EXCEPT ![w] = {i} \cup {k \in Word(i) : myResultData[k]}]
    BY <1>4 DEF Load
  <2>2. i \in Items /\ Word(i) \subseteq Items
    BY <2>1 DEF TypeOK, TasksTypeOK, Word
  <2>3. myResultData' = myResultData
    BY <1>4 DEF Load
  <2>4. QED
    BY <1>1, <1>2, <2>1, <2>2, <2>3 DEF TypeOK
<1>5. ASSUME NEW w \in Workers, Store(w)
      PROVE  TypeOK'
  <2>1. PICK i \in current[w] : myResultData' =
          [k \in Items |-> IF k \in Word(i) THEN k \in loaded[w] ELSE myResultData[k]]
    BY <1>5 DEF Store
  <2>2. \A k \in Items : myResultData[k] \in BOOLEAN /\ (k \in loaded[w]) \in BOOLEAN
    BY DEF TypeOK
  <2>3. \A k \in Items :
          (IF k \in Word(i) THEN k \in loaded[w] ELSE myResultData[k]) \in BOOLEAN
    BY <2>2, Zenon
  <2>4. myResultData' \in [Items -> BOOLEAN]
    BY <2>1, <2>3, Zenon
  <2>5. loaded' = [loaded EXCEPT ![w] = {}]
    BY <1>5 DEF Store
  <2>6. QED
    BY <1>1, <1>2, <2>4, <2>5 DEF TypeOK
<1>6. QED
  BY <1>3, <1>4, <1>5 DEF Next, Start, Skip, Begin, Throw, Wait, Terminated, vars

\* Every variable of the split keeps its type.
THEOREM TypeCorrect == Spec => []TypeOK
<1>1. Init => TypeOK
  BY InitIInv DEF Init, IInv, TypeOK, TasksTypeOK
<1>2. QED
  BY <1>1, StepTypeOK, Invariance, PTL DEF Spec

-----------------------------------------------------------------------------
(* What is stored *)

\* Nobody works outside the range its task was given.
RangeInv ==
  /\ \A w \in Workers : Share(w) \subseteq range[w]
  /\ \A v, w \in Workers : v # w => range[v] \cap range[w] = {}

\* A worker that has loaded a word has the result of its item in hand, and all results
\* stored so far if the word is within its range.
HandInv ==
  \A w \in Workers : loaded[w] # {} =>
     /\ pc[w] = "busy"
     /\ current[w] \subseteq loaded[w]
     /\ \A c \in current[w] : Word(c) \subseteq range[w] =>
           Word(c) \cap done \subseteq loaded[w]

\* The invariant of what is stored.
StoreInv == RangeInv /\ HandInv /\ OwnRangeKept

\* The words are the classes of an equivalence.
LEMMA SameWord ==
  ASSUME NEW i \in Items, NEW k \in Word(i)
  PROVE  k \in Items /\ i \in Word(k) /\ Word(k) = Word(i)
BY DEF Word

LEMMA StepRangeInv ==
  ASSUME IInv, RangeInv, [Next]_vars
  PROVE  RangeInv' /\ range' = range
<1>1. range' = range
  BY DEF Next, Start, Skip, Begin, Load, Store, Throw, Wait, Terminated, vars
<1>2. ASSUME NEW w \in Workers PROVE Share(w)' \subseteq Share(w)
  <2>1. /\ todo \in [Workers -> SUBSET Items]
        /\ current \in [Workers -> SUBSET Items]
    BY DEF IInv, TasksTypeOK
  <2>2. CASE UNCHANGED <<todo, current>>
    BY <2>2 DEF Share
  <2>3. ASSUME NEW v \in Workers, Begin(v) PROVE Share(w)' \subseteq Share(w)
    BY <2>1, <2>3 DEF Begin, BeginProcess, Share
  <2>4. ASSUME NEW v \in Workers, Store(v) PROVE Share(w)' \subseteq Share(w)
    BY <2>1, <2>4 DEF Store, EndProcess, Share
  <2>5. QED
    BY <2>2, <2>3, <2>4 DEF Next, Start, Skip, Load, Throw, Wait, Terminated, vars,
       StartTask, SkipTask, ThrowProcess, groupVars, taskVars
<1>3. QED
  BY <1>1, <1>2 DEF RangeInv

\* Loading takes what is stored in a word.
LEMMA LoadStoreInv ==
  ASSUME IInv, TypeOK, StoreInv, NEW w \in Workers, Load(w)
  PROVE  HandInv' /\ OwnRangeKept'
<1>1. /\ current \in [Workers -> SUBSET Items] /\ done \subseteq Items
      /\ \A i, k \in current[w] : i = k
      /\ loaded \in [Workers -> SUBSET Items]
  BY DEF IInv, TypeOK, TasksTypeOK, ShareInv
<1>2. PICK c \in current[w] :
        loaded' = [loaded EXCEPT ![w] = {c} \cup {k \in Word(c) : myResultData[k]}]
  BY DEF Load
<1>3. /\ pc[w] = "busy" /\ current[w] = {c} /\ c \in Items
      /\ UNCHANGED <<range, myResultData, pc, current, done>>
  BY <1>1, <1>2 DEF Load, groupVars, taskVars
<1>4. OwnRangeKept'
  BY <1>3 DEF StoreInv, OwnRangeKept, Word
<1>5. ASSUME Word(c) \subseteq range[w], NEW k \in Word(c) \cap done
      PROVE  myResultData[k]
  <2>1. k \in range[w] \cap done /\ Word(k) \subseteq range[w]
    BY <1>3, <1>5, SameWord
  <2>2. QED
    BY <2>1 DEF StoreInv, OwnRangeKept
<1>6. loaded'[w] = {c} \cup {k \in Word(c) : myResultData[k]}
  BY <1>1, <1>2
<1>7. \A v \in Workers \ {w} : loaded'[v] = loaded[v]
  BY <1>1, <1>2
<1>8. HandInv'
  BY <1>3, <1>5, <1>6, <1>7 DEF StoreInv, HandInv, Word
<1>9. QED
  BY <1>4, <1>8

\* Storing writes a word that is within the range of nobody else.
LEMMA StoreStoreInv ==
  ASSUME IInv, TypeOK, StoreInv, NEW w \in Workers, Store(w)
  PROVE  HandInv' /\ OwnRangeKept'
<1>1. /\ current \in [Workers -> SUBSET Items] /\ pc \in [Workers -> PcStates]
      /\ done \subseteq Items
      /\ \A i, k \in current[w] : i = k
      /\ loaded \in [Workers -> SUBSET Items] /\ range \in [Workers -> SUBSET Items]
  BY DEF IInv, TypeOK, TasksTypeOK, ShareInv
<1>2. PICK c \in current[w] : myResultData' =
        [k \in Items |-> IF k \in Word(c) THEN k \in loaded[w] ELSE myResultData[k]]
  BY DEF Store
<1>3. /\ loaded[w] # {} /\ range' = range
      /\ loaded' = [loaded EXCEPT ![w] = {}]
      /\ done' = done \cup {c} /\ current[w] = {c} /\ c \in Items
      /\ current' = [current EXCEPT ![w] = {}]
      /\ \A v \in Workers \ {w} : pc'[v] = pc[v]
  BY <1>1, <1>2 DEF Store, EndProcess
<1>4. c \in loaded[w] /\ c \in range[w]
  BY <1>3 DEF StoreInv, HandInv, RangeInv, Share
<1>5. ASSUME NEW u \in Workers, NEW i \in range[u] \cap done', Word(i) \subseteq range[u]
      PROVE  myResultData'[i]
  <2>1. i \in Items
    BY <1>1
  <2>2. CASE i \notin Word(c)
    <3>1. i # c
      BY <1>3, <2>2 DEF Word
    <3>2. myResultData[i]
      BY <1>3, <1>5, <3>1 DEF StoreInv, OwnRangeKept
    <3>3. QED
      BY <1>2, <2>1, <2>2, <3>2
  <2>3. CASE i \in Word(c)
    <3>1. c \in Word(i) /\ Word(i) = Word(c)
      BY <1>3, <2>3, SameWord
    <3>2. u = w
      BY <1>4, <1>5, <3>1 DEF StoreInv, RangeInv
    <3>3. i \in loaded[w]
      BY <1>3, <1>4, <1>5, <2>3, <3>1, <3>2 DEF StoreInv, HandInv
    <3>4. QED
      BY <1>2, <2>1, <2>3, <3>3
  <2>4. QED
    BY <2>2, <2>3
<1>6. OwnRangeKept'
  BY <1>3, <1>5 DEF OwnRangeKept, Word
<1>7. ASSUME NEW v \in Workers, loaded'[v] # {}
      PROVE  /\ pc'[v] = "busy"
             /\ current'[v] \subseteq loaded'[v]
             /\ \A d \in current'[v] : Word(d) \subseteq range[v] =>
                   Word(d) \cap done' \subseteq loaded'[v]
  <2>1. v # w /\ loaded'[v] = loaded[v] /\ current'[v] = current[v] /\ pc'[v] = pc[v]
    BY <1>1, <1>3, <1>7
  <2>2. \A d \in current[v] : Word(d) \subseteq range[v] => c \notin Word(d)
    BY <1>4, <2>1 DEF StoreInv, RangeInv
  <2>3. QED
    BY <1>3, <1>7, <2>1, <2>2 DEF StoreInv, HandInv
<1>8. HandInv'
  BY <1>3, <1>7 DEF HandInv, Word
<1>9. QED
  BY <1>6, <1>8

LEMMA StepStoreInv ==
  ASSUME IInv, TypeOK, StoreInv, [Next]_vars
  PROVE  StoreInv'
<1>1. RangeInv' /\ range' = range
  BY StepRangeInv DEF StoreInv
<1>2. /\ current \in [Workers -> SUBSET Items] /\ pc \in [Workers -> PcStates]
      /\ loaded \in [Workers -> SUBSET Items]
  BY DEF IInv, TypeOK, TasksTypeOK
<1>3. ASSUME UNCHANGED <<myResultData, loaded, done>>,
             \A w \in Workers : loaded[w] # {} => pc'[w] = pc[w] /\ current'[w] = current[w]
      PROVE  HandInv' /\ OwnRangeKept'
  BY <1>1, <1>3 DEF StoreInv, HandInv, OwnRangeKept, Word
<1>4. ASSUME UNCHANGED vars \/ Wait
      PROVE  HandInv' /\ OwnRangeKept'
  <2>1. UNCHANGED <<myResultData, loaded, done, pc, current>>
    BY <1>4 DEF vars, groupVars, taskVars, Wait
  <2>2. QED
    BY <1>3, <2>1
<1>5. ASSUME NEW w \in Workers, Start(w) \/ Skip(w) \/ Begin(w) \/ Throw(w)
      PROVE  HandInv' /\ OwnRangeKept'
  <2>1. loaded[w] = {} /\ UNCHANGED <<myResultData, loaded, done>>
    BY <1>5 DEF Start, Skip, Begin, Throw, StartTask, SkipTask, BeginProcess, ThrowProcess,
       StoreInv, HandInv
  <2>2. \A v \in Workers \ {w} : pc'[v] = pc[v] /\ current'[v] = current[v]
    BY <1>2, <1>5 DEF Start, Skip, Begin, Throw, StartTask, SkipTask, BeginProcess,
       ThrowProcess
  <2>3. QED
    BY <1>3, <2>1, <2>2
<1>6. QED
  BY <1>1, <1>4, <1>5, LoadStoreInv, StoreStoreInv DEF StoreInv, Next, Terminated

\* What a worker has stored stays in the words that are within its range, for every
\* size of a word: the tasks need no lock there.
THEOREM OwnRangeIsKept == Spec => []OwnRangeKept
<1>1. Init => StoreInv
  <2>1. Init => IInv
    BY InitIInv
  <2>2. QED
    BY <2>1 DEF Init, IInv, SplitInv, StoreInv, RangeInv, HandInv, OwnRangeKept, Share
<1>2. IInv /\ TypeOK /\ StoreInv /\ [Next]_vars => StoreInv'
  BY StepStoreInv
<1>3. StoreInv => OwnRangeKept
  BY DEF StoreInv
<1>4. QED
  BY <1>1, <1>2, <1>3, Invariance, TypeCorrect, PTL DEF Spec
-----------------------------------------------------------------------------
(* The split implements the executor's contract *)

LEMMA ContractBegin ==
  ASSUME IInv, NEW w \in Workers, Begin(w)
  PROVE  Contract!Next
<1>1. PICK i \in todo[w] : BeginProcess(w, i)
  BY DEF Begin
<1>2. /\ pc[w] = "batch" /\ current[w] = {} /\ outcome = "processing"
      /\ current' = [current EXCEPT ![w] = {i}]
      /\ pc' = [pc EXCEPT ![w] = "busy"]
      /\ UNCHANGED <<outcome, done>>
  BY <1>1 DEF BeginProcess, IInv, ShareInv, PhaseInv, Ended
<1>3. /\ current \in [Workers -> SUBSET Items] /\ pc \in [Workers -> PcStates]
      /\ i \in Items /\ i \notin done
  BY <1>1 DEF IInv, TasksTypeOK, ShareInv, Share
<1>4. InProgress' = InProgress \cup {i}
  BY <1>2, <1>3 DEF InProgress
<1>5. Failed' = Failed
  BY <1>2, <1>3 DEF Failed
<1>6. ASSUME NEW k \in InProgress \cup Failed PROVE k # i /\ k \in Items
  <2>1. PICK v \in Workers \ {w} : k \in current[v]
    BY <1>2, <1>6 DEF InProgress, Failed
  <2>2. QED
    BY <1>1, <1>3, <2>1 DEF IInv, SplitInv, Share
<1>7. Contract!Begin(i)
  BY <1>2, <1>3, <1>4, <1>5, <1>6 DEF Contract!Begin
<1>8. QED
  BY <1>3, <1>7 DEF Contract!Next

LEMMA ContractEnd ==
  ASSUME IInv, NEW w \in Workers, Store(w) \/ Throw(w)
  PROVE  Contract!Next
<1>1. /\ pc[w] = "busy"
      /\ current \in [Workers -> SUBSET Items] /\ pc \in [Workers -> PcStates]
      /\ \A v \in Workers \ {w} : current[v] \cap current[w] = {}
  BY DEF Store, Throw, EndProcess, ThrowProcess, IInv, TasksTypeOK, SplitInv, Share
<1>2. PICK i \in Items : current[w] = {i}
  BY <1>1 DEF IInv, ShareInv
<1>3. i \in InProgress
  BY <1>1, <1>2 DEF InProgress
<1>4. ASSUME Store(w) PROVE Contract!Return(i)
  <2>1. /\ done' = done \cup {i}
        /\ current' = [current EXCEPT ![w] = {}]
        /\ pc' = [pc EXCEPT ![w] = IF todo[w] = {} THEN "left" ELSE "batch"]
        /\ outcome' = outcome
    BY <1>2, <1>4 DEF Store, EndProcess
  <2>2. InProgress' = InProgress \ {i}
    BY <1>1, <1>2, <2>1 DEF InProgress
  <2>3. Failed' = Failed
    BY <1>1, <2>1 DEF Failed
  <2>4. QED
    BY <1>3, <2>1, <2>2, <2>3 DEF Contract!Return
<1>5. ASSUME Throw(w) PROVE Contract!Throw(i)
  <2>1. /\ pc' = [pc EXCEPT ![w] = "threw"]
        /\ UNCHANGED <<current, outcome, done>>
    BY <1>5 DEF Throw, ThrowProcess
  <2>2. InProgress' = InProgress \ {i}
    BY <1>1, <1>2, <2>1 DEF InProgress
  <2>3. Failed' = Failed \cup {i}
    BY <1>1, <1>2, <2>1 DEF Failed
  <2>4. QED
    BY <1>3, <2>1, <2>2, <2>3 DEF Contract!Throw
<1>6. QED
  BY <1>2, <1>4, <1>5 DEF Contract!Next

LEMMA ContractWait ==
  ASSUME IInv, Wait
  PROVE  Contract!Next
<1>1. /\ outcome = "processing"
      /\ \A w \in Workers : pc[w] \in Ended
      /\ outcome' = IF cancelled THEN "rethrown" ELSE "output"
      /\ UNCHANGED <<pc, current, done>>
  BY DEF Wait, Joined, taskVars
<1>2. UNCHANGED <<InProgress, Failed>>
  BY <1>1 DEF InProgress, Failed
<1>3. CASE cancelled
  <2>1. InProgress = {}
    BY <1>1 DEF InProgress, Ended
  <2>2. Failed # {}
    BY <1>3 DEF cancelled, Failed, IInv, ShareInv
  <2>3. QED
    BY <1>1, <1>2, <1>3, <2>1, <2>2 DEF Contract!Next, Contract!Rethrow
<1>4. CASE ~cancelled
  <2>1. \A w \in Workers : pc[w] = "left"
    BY <1>1, <1>4 DEF IInv, PhaseInv, cancelled, Ended
  <2>2. \A w \in Workers : Share(w) = {}
    BY <2>1 DEF IInv, ShareInv, Share
  <2>3. done = Items
    BY <2>2 DEF IInv, SplitInv, TasksTypeOK
  <2>4. QED
    BY <1>1, <1>2, <1>4, <2>3 DEF Contract!Next, Contract!PrepareOutput
<1>5. QED
  BY <1>3, <1>4

LEMMA ContractStutter ==
  ASSUME IInv, NEW w \in Workers, Start(w) \/ Skip(w) \/ Load(w)
  PROVE  UNCHANGED Contract!contractVars
<1>1. CASE Load(w)
  BY <1>1 DEF Load, groupVars, taskVars, Contract!contractVars, InProgress, Failed
<1>2. CASE Start(w) \/ Skip(w)
  <2>1. /\ UNCHANGED <<current, outcome, done>>
        /\ current[w] = {}
        /\ \A v \in Workers \ {w} : pc'[v] = pc[v]
    BY <1>2 DEF Start, Skip, StartTask, SkipTask, IInv, TasksTypeOK, ShareInv
  <2>2. /\ \A x : x \in InProgress' <=> x \in InProgress
        /\ \A x : x \in Failed' <=> x \in Failed
    BY <2>1 DEF InProgress, Failed
  <2>3. InProgress' = InProgress /\ Failed' = Failed
    BY <2>2
  <2>4. QED
    BY <2>1, <2>3 DEF Contract!contractVars
<1>3. QED
  BY <1>1, <1>2

\* Whatever the number of items and workers, each item is processed exactly once and
\* prepareOutput() runs only on the complete result.
THEOREM Refinement == Spec => KeepsContract
<1>1. Init => Contract!Init
  BY DEF Init, Contract!Init, InProgress, Failed
<1>2. ASSUME IInv, [Next]_vars PROVE [Contract!Next]_(Contract!contractVars)
  <2>1. CASE UNCHANGED vars
    BY <2>1 DEF vars, groupVars, taskVars, Contract!contractVars, InProgress, Failed
  <2>2. QED
    BY <1>2, <2>1, ContractBegin, ContractEnd, ContractWait, ContractStutter
    DEF Next, Terminated
<1>3. QED
  BY <1>1, <1>2, Invariance, PTL DEF Spec, KeepsContract, Contract!Spec
=============================================================================
