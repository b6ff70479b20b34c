---------------------- MODULE CollisionDetectionProofs ----------------------
(***************************************************************************)
(* Machine-checked proofs about the first round of the collision detector  *)
(* and of the imprinter, for every set of items, every coupling matrix and *)
(* every set of suppressed items, under any executor that keeps            *)
(* ExecutorContract.                                                       *)
(***************************************************************************)
EXTENDS CollisionDetection, SequenceTheorems, TLAPS

USE DetectionAssumption

Pairs(o, i, j) == <<i, j>> \in {o, <<o[2], o[1]>>}

\* The executor excludes pairs with a common item, those that failed included, and
\* a pair is where its executor says.
ExecutorInv ==
  /\ \A o, q \in running \cup failed : o # q => {o[1], o[2]} \cap {q[1], q[2]} = {}
  /\ running \cap failed = {}
  /\ \A o \in Coupled :
        /\ step[o] = "idle" <=> o \notin running \cup done \cup failed
        /\ step[o] \in {"apart", "record"} => o \in running
        /\ o \in done => step[o] = "return"
        /\ o \in failed => step[o] = "fuse"

\* A pair that is being fused works on copies of the shapes as they still are.
CopyInv ==
  \A o \in running : step[o] = "fuse" =>
     \A i \in {o[1], o[2]} : twoShapes[o][i] = shapes[i]

\* The imprinter does not fuse what is suppressed.
ImprintInv ==
  /\ \A o \in Coupled : imprinting /\ step[o] = "fuse" => {o[1], o[2]} \cap suppressed = {}
  /\ Imprinted

\* The rows say nothing of a pair before the step that decides it: the clearance
\* at the end of the loop, all the rest in Record.
RowsInv ==
  /\ RowsMirrored
  /\ \A o \in Coupled, type \in CollisionTypes :
        HasEntry(o[1], o[2], type) =>
           step[o] = "return" \/ (step[o] = "record" /\ ctype[o] = NoCollision)

\* A contact is in the adjacency matrix from the end of the loop on, and in the rows
\* when it is recorded.
AdjacencyInv ==
  \A o \in Coupled :
     /\ o \in myAdjacencyMatrix <=>
           (step[o] = "record" /\ ctype[o] = FaceContact) \/ HasEntry(o[1], o[2], FaceContact)
     /\ <<o[2], o[1]>> \in myAdjacencyMatrix <=> o \in myAdjacencyMatrix

\* So is a failure to fuse.
FailureInv ==
  \A o \in unfused :
     (step[o] = "record" /\ ctype[o] = Error) \/ HasEntry(o[1], o[2], Error)

\* The inductive invariant.
IInv ==
  /\ TypeOK
  /\ ExecutorInv
  /\ CopyInv
  /\ ImprintInv
  /\ RowsInv
  /\ AdjacencyInv
  /\ FailureInv
-----------------------------------------------------------------------------
(* Facts about the operators *)

\* A pair is two different items, and is coupled in one order only.
LEMMA PairFacts ==
  ASSUME NEW o \in Coupled
  PROVE  /\ o[1] \in Items /\ o[2] \in Items /\ o[1] # o[2]
         /\ o = <<o[1], o[2]>>
         /\ <<o[2], o[1]>> \notin Coupled
         /\ \A q \in Coupled : {o[1], o[2]} = {q[1], q[2]} => o = q
<1>1. o \in Items \X Items
  OBVIOUS
<1>2. o[1] \in Items /\ o[2] \in Items /\ o = <<o[1], o[2]>>
  BY <1>1
<1>3. ASSUME NEW q \in Coupled, {o[1], o[2]} = {q[1], q[2]} PROVE o = q
  <2>1. q \in Items \X Items /\ q = <<q[1], q[2]>>
    OBVIOUS
  <2>2. (q[1] = o[1] /\ q[2] = o[2]) \/ (q[1] = o[2] /\ q[2] = o[1])
    BY <1>3
  <2>3. q # <<o[2], o[1]>>
    OBVIOUS
  <2>4. QED
    BY <1>2, <2>1, <2>2, <2>3
<1>4. QED
  BY <1>2, <1>3

\* What a fuse says is a type, and so is what it is corrected to.
LEMMA FusedType ==
  ASSUME NEW f \in Fused
  PROVE  f.type \in CollisionTypes
<1>1. PICK n \in 0 .. 3 : f.type \in TypesOf(n)
  BY DEF Fused
<1>2. n = 0 \/ n = 1 \/ n = 2 \/ n = 3
  OBVIOUS
<1>3. QED
  BY <1>1, <1>2 DEF TypesOf, CollisionTypes

LEMMA CorrectedType ==
  ASSUME NEW f, f.type \in CollisionTypes, NEW o, NEW dist
  PROVE  Corrected(o, f, dist) \in CollisionTypes
BY DEF Corrected, CollisionTypes

\* What is in a sequence after appending to it.
LEMMA AppendEntry ==
  ASSUME NEW S, NEW s \in Seq(S), NEW e \in S
  PROVE  /\ Append(s, e) \in Seq(S)
         /\ Len(s) \in Nat /\ DOMAIN s = 1 .. Len(s)
         /\ DOMAIN Append(s, e) = 1 .. Len(s) + 1
         /\ \A m \in 1 .. Len(s) : Append(s, e)[m] = s[m]
         /\ Append(s, e)[Len(s) + 1] = e
BY AppendProperties, LenProperties

Has(s, x) == \E m \in DOMAIN s : s[m] = x

LEMMA AppendHas ==
  ASSUME NEW S, NEW s \in Seq(S), NEW e \in S, NEW x
  PROVE  Has(Append(s, e), x) <=> Has(s, x) \/ e = x
<1> DEFINE n == Len(s)
           a == Append(s, e)
<1>1. /\ n \in Nat /\ DOMAIN s = 1 .. n /\ DOMAIN a = 1 .. n + 1
      /\ \A m \in 1 .. n : a[m] = s[m]
      /\ a[n + 1] = e
  BY AppendEntry
<1> HIDE DEF n, a
<1>2. \A m : m \in 1 .. n + 1 <=> m \in 1 .. n \/ m = n + 1
  BY <1>1
<1>3. Has(a, x) <=> Has(s, x) \/ e = x
  BY <1>1, <1>2 DEF Has
<1>4. QED
  BY <1>3 DEF a

\* What the row of an item says is in its type, and in mirrored rows the other row
\* says it as well.
LEMMA EntryFacts ==
  ASSUME TypeOK, NEW i \in Items, NEW n \in DOMAIN myCollisionInfos[i]
  PROVE  LET e == myCollisionInfos[i][n]
         IN  e \in Entries /\ e = <<e[1], e[2]>> /\ HasEntry(i, e[1], e[2])
<1>1. myCollisionInfos[i] \in Seq(Entries)
  BY DEF TypeOK
<1>2. myCollisionInfos[i][n] \in Entries
  BY <1>1, LenProperties
<1>3. QED
  BY <1>2 DEF HasEntry, Entries

LEMMA MirroredEntry ==
  ASSUME RowsMirrored, NEW i \in Items, NEW j \in Items, NEW t, HasEntry(i, j, t)
  PROVE  HasEntry(j, i, t)
<1>1. PICK n \in DOMAIN myCollisionInfos[i] : myCollisionInfos[i][n] = <<j, t>>
  BY DEF HasEntry
<1>2. myCollisionInfos[i][n][1] = j /\ myCollisionInfos[i][n][2] = t
  BY <1>1
<1>3. HasEntry(j, i, myCollisionInfos[i][n][2])
  BY <1>2 DEF RowsMirrored
<1>4. QED
  BY <1>2, <1>3

\* What pushing a pair does to both rows.
LEMMA PushRows ==
  ASSUME TypeOK, NEW o \in Coupled, NEW type \in CollisionTypes, Push(o, type)
  PROVE  /\ myCollisionInfos' \in [Items -> Seq(Entries)]
         /\ \A i, j \in Items, t \in CollisionTypes :
               HasEntry(i, j, t)' <=> HasEntry(i, j, t) \/ (t = type /\ Pairs(o, i, j))
<1> DEFINE Other(i) == IF i = o[1] THEN o[2] ELSE o[1]
           Row(i) == myCollisionInfos[i]
<1>1. o[1] \in Items /\ o[2] \in Items /\ o[1] # o[2] /\ o = <<o[1], o[2]>>
  BY PairFacts
<1>2. \A i \in Items : Row(i) \in Seq(Entries)
  BY DEF TypeOK
<1>3. \A i \in {o[1], o[2]} :
         /\ <<Other(i), type>> \in Entries
         /\ Row(i)' = Append(Row(i), <<Other(i), type>>)
  BY <1>1 DEF Push, TypeOK, Entries
<1>4. \A i \in Items \ {o[1], o[2]} : Row(i)' = Row(i)
  BY <1>1 DEF Push, TypeOK
<1>5. myCollisionInfos' \in [Items -> Seq(Entries)]
  <2>1. \A i \in {o[1], o[2]} :
          Append(Row(i), <<Other(i), type>>) \in Seq(Entries)
    BY <1>1, <1>2, <1>3, AppendProperties
  <2>2. QED
    BY <1>1, <1>3, <2>1 DEF Push, TypeOK
<1>6. ASSUME NEW i \in Items, NEW j \in Items, NEW t \in CollisionTypes
      PROVE  HasEntry(i, j, t)' <=> HasEntry(i, j, t) \/ (t = type /\ Pairs(o, i, j))
  <2>1. CASE i \in {o[1], o[2]}
    <3> DEFINE e == <<Other(i), type>>
    <3>1. e = <<j, t>> <=> t = type /\ Pairs(o, i, j)
      BY <1>1, <2>1 DEF Pairs
    <3>2. Row(i) \in Seq(Entries) /\ e \in Entries
          /\ Row(i)' = Append(Row(i), e)
      BY <1>2, <1>3, <2>1
    <3> HIDE DEF e
    <3>3. Has(Row(i)', <<j, t>>) <=> Has(Row(i), <<j, t>>) \/ e = <<j, t>>
      BY <3>2, AppendHas
    <3>4. QED
      BY <3>1, <3>3 DEF HasEntry, Has
  <2>2. CASE i \notin {o[1], o[2]}
    <3>1. ~Pairs(o, i, j)
      BY <1>1, <2>2 DEF Pairs
    <3>2. QED
      BY <1>4, <2>2, <3>1 DEF HasEntry
  <2>3. QED
    BY <2>1, <2>2
<1>7. QED
  BY <1>5, <1>6

\* ... and that they stay mirrored, if they did not have the pair before.
LEMMA PushMirrored ==
  ASSUME TypeOK, RowsMirrored, NEW o \in Coupled, NEW type \in CollisionTypes,
         Push(o, type), \A t \in CollisionTypes : ~HasEntry(o[1], o[2], t)
  PROVE  RowsMirrored'
<1> DEFINE Row(i) == myCollisionInfos[i]
           Once(i) == \A j \in Items : \A m, n \in DOMAIN Row(i) :
                         Row(i)[m][1] = j /\ Row(i)[n][1] = j => m = n
<1>1. o[1] \in Items /\ o[2] \in Items /\ o[1] # o[2] /\ o = <<o[1], o[2]>>
  BY PairFacts
<1>2. /\ myCollisionInfos' \in [Items -> Seq(Entries)]
      /\ \A i \in Items : /\ Row(i) \in Seq(Entries)
                          /\ Row(i)' \in Seq(Entries)
  BY PushRows DEF TypeOK
<1>3. \A i, j \in Items, t \in CollisionTypes :
         HasEntry(i, j, t)' <=> HasEntry(i, j, t) \/ (t = type /\ Pairs(o, i, j))
  BY PushRows
<1>4. \A i, j \in Items, t \in CollisionTypes : HasEntry(i, j, t) => HasEntry(j, i, t)
  BY MirroredEntry
<1>5. \A t \in CollisionTypes : ~HasEntry(o[1], o[2], t) /\ ~HasEntry(o[2], o[1], t)
  BY <1>1, <1>4
<1>6. ASSUME NEW i \in Items, NEW j \in Items,
             NEW m \in DOMAIN Row(i)', NEW n \in DOMAIN Row(i)',
             Row(i)'[m][1] = j, Row(i)'[n][1] = j
      PROVE  m = n
  <2>1. CASE i \notin {o[1], o[2]}
    <3>1. Row(i)' = Row(i)
      BY <1>1, <2>1 DEF Push, TypeOK
    <3>2. QED
      BY <1>6, <3>1 DEF RowsMirrored
  <2>2. CASE i \in {o[1], o[2]}
    <3> DEFINE other == IF i = o[1] THEN o[2] ELSE o[1]
               e == <<other, type>>
               k == Len(Row(i))
    <3>1. Row(i)' = Append(Row(i), e) /\ e \in Entries /\ e[1] = other
      BY <1>1, <2>2 DEF Push, TypeOK, Entries
    <3> HIDE DEF e
    <3>2. /\ k \in Nat /\ DOMAIN Row(i) = 1 .. k /\ DOMAIN Row(i)' = 1 .. k + 1
          /\ \A l \in 1 .. k : Row(i)'[l] = Row(i)[l]
          /\ Row(i)'[k + 1] = e
      BY <1>2, <3>1, AppendEntry
    <3>3. ASSUME NEW l \in 1 .. k, Row(i)[l][1] = other PROVE FALSE
      <4>1. HasEntry(i, other, Row(i)[l][2]) /\ Row(i)[l][2] \in CollisionTypes
        BY <3>2, <3>3, EntryFacts DEF Entries
      <4>2. QED
        BY <1>5, <2>2, <4>1
    <3>4. \A l \in DOMAIN Row(i)' : l \in 1 .. k \/ l = k + 1
      BY <3>2
    <3>5. CASE m \in 1 .. k /\ n \in 1 .. k
      BY <1>6, <3>2, <3>5 DEF RowsMirrored
    <3>6. CASE m = k + 1 /\ n \in 1 .. k
      BY <1>6, <3>1, <3>2, <3>3, <3>6
    <3>7. CASE n = k + 1 /\ m \in 1 .. k
      BY <1>6, <3>1, <3>2, <3>3, <3>7
    <3>8. QED
      BY <3>4, <3>5, <3>6, <3>7
  <2>3. QED
    BY <2>1, <2>2
<1>7. ASSUME NEW i \in Items, NEW j \in Items, NEW n \in DOMAIN Row(i)', Row(i)'[n][1] = j
      PROVE  HasEntry(j, i, Row(i)[n][2])'
  <2>1. Row(i)'[n] \in Entries
    BY <1>2, LenProperties
  <2>2. PICK t \in CollisionTypes : Row(i)'[n] = <<j, t>>
    BY <1>7, <2>1 DEF Entries
  <2>3. HasEntry(i, j, t)'
    BY <2>2 DEF HasEntry
  <2>4. HasEntry(j, i, t) \/ (t = type /\ Pairs(o, j, i))
    BY <1>1, <1>3, <1>4, <2>2, <2>3 DEF Pairs
  <2>5. HasEntry(j, i, t)'
    BY <1>3, <2>2, <2>4
  <2>6. QED
    BY <2>2, <2>5 DEF HasEntry
<1>8. QED
  BY <1>6, <1>7 DEF RowsMirrored
-----------------------------------------------------------------------------
(* What an attempt of the loop does *)

\* It is taken again, ...
Retry(o) ==
  /\ attempt' \in [Coupled -> 0 .. LastAttempt]
  /\ fuser' \in [Coupled -> Fused \cup {NoFuser}]
  /\ UNCHANGED <<executorVars, step, twoShapes, ctype, shapes, myCollisionInfos,
                 myAdjacencyMatrix, unfused>>

\* ... or the loop is left with a type,
LeaveLoop(o, type) ==
  /\ attempt' \in [Coupled -> 0 .. LastAttempt]
  /\ fuser' \in [Coupled -> Fused \cup {NoFuser}]
  /\ step' = [step EXCEPT ![o] = "record"]
  /\ twoShapes' = [twoShapes EXCEPT ![o] = Uncopied]
  /\ ctype' = [ctype EXCEPT ![o] = type]
  /\ UNCHANGED executorVars

\* which is a contact,
Contact(o) ==
  /\ LeaveLoop(o, FaceContact)
  /\ Imprint(o)
  /\ myAdjacencyMatrix' = myAdjacencyMatrix \cup {o, <<o[2], o[1]>>}
  /\ UNCHANGED <<myCollisionInfos, unfused>>

\* none,
NoContact(o) ==
  /\ LeaveLoop(o, NoCollision)
  /\ Push(o, Clearance) \/ UNCHANGED myCollisionInfos
  /\ UNCHANGED <<shapes, myAdjacencyMatrix, unfused>>

\* or any other, an error among them.
OtherType(o) ==
  \E type \in CollisionTypes \ {FaceContact, NoCollision} :
     /\ LeaveLoop(o, type)
     /\ unfused' = unfused \/ (type = Error /\ unfused' = unfused \cup {o})
     /\ UNCHANGED <<shapes, myCollisionInfos, myAdjacencyMatrix>>

Attempt(o) == Retry(o) \/ Contact(o) \/ NoContact(o) \/ OtherType(o)

LEMMA LoopOutcome ==
  ASSUME TypeOK, NEW o \in Coupled, NEW type, NEW f \in Fused \cup {NoFuser},
         NEW completed, Loop(o, type, f, completed)
  PROVE  /\ attempt' \in [Coupled -> 0 .. LastAttempt]
         /\ fuser' \in [Coupled -> Fused \cup {NoFuser}]
         /\ \/ Again(o, type, completed) /\ UNCHANGED <<step, twoShapes, ctype>>
            \/ /\ step' = [step EXCEPT ![o] = "record"]
               /\ twoShapes' = [twoShapes EXCEPT ![o] = Uncopied]
               /\ ctype' = [ctype EXCEPT ![o] = type]
<1>1. /\ attempt \in [Coupled -> 0 .. LastAttempt]
      /\ fuser \in [Coupled -> Fused \cup {NoFuser}]
      /\ LastAttempt \in Nat
  BY DEF TypeOK, LastAttempt
<1>2. CASE Again(o, type, completed)
  <2>1. /\ attempt' = [attempt EXCEPT ![o] = attempt[o] + 1]
        /\ fuser' = [fuser EXCEPT ![o] = f]
        /\ UNCHANGED <<step, twoShapes, ctype>>
    BY <1>2 DEF Loop
  <2>2. attempt[o] + 1 \in 0 .. LastAttempt
    BY <1>1, <1>2 DEF Again
  <2>3. QED
    BY <1>1, <1>2, <2>1, <2>2
<1>3. CASE ~Again(o, type, completed)
  <2>1. /\ attempt' = [attempt EXCEPT ![o] = 0]
        /\ fuser' = [fuser EXCEPT ![o] = NoFuser]
        /\ step' = [step EXCEPT ![o] = "record"]
        /\ twoShapes' = [twoShapes EXCEPT ![o] = Uncopied]
        /\ ctype' = [ctype EXCEPT ![o] = type]
    BY <1>3 DEF Loop
  <2>2. QED
    BY <1>1, <2>1
<1>4. QED
  BY <1>2, <1>3

\* A contact or none ends the loop.
LEMMA ClassifyOutcome ==
  ASSUME TypeOK, NEW o \in Coupled, NEW f \in Fused \cup {NoFuser}, NEW completed,
         f.type \in CollisionTypes, Classify(o, f, completed)
  PROVE  Attempt(o)
<1>1. PICK dist \in Distances :
        LET type == Corrected(o, f, dist)
        IN  /\ \/ /\ type = FaceContact
                  /\ Imprint(o)
                  /\ myAdjacencyMatrix' = myAdjacencyMatrix \cup {o, <<o[2], o[1]>>}
                  /\ UNCHANGED myCollisionInfos
               \/ /\ type = NoCollision
                  /\ calcClearance(o, dist)
                  /\ UNCHANGED <<shapes, myAdjacencyMatrix>>
               \/ /\ type \notin {FaceContact, NoCollision}
                  /\ UNCHANGED <<shapes, myAdjacencyMatrix, myCollisionInfos>>
            /\ Loop(o, type, f, completed)
  BY DEF Classify
<1> DEFINE type == Corrected(o, f, dist)
<1>2. type \in CollisionTypes
  BY CorrectedType
<1>3. UNCHANGED <<executorVars, unfused>>
  BY DEF Classify
<1>4. /\ attempt' \in [Coupled -> 0 .. LastAttempt]
      /\ fuser' \in [Coupled -> Fused \cup {NoFuser}]
      /\ \/ Again(o, type, completed) /\ UNCHANGED <<step, twoShapes, ctype>>
         \/ /\ step' = [step EXCEPT ![o] = "record"]
            /\ twoShapes' = [twoShapes EXCEPT ![o] = Uncopied]
            /\ ctype' = [ctype EXCEPT ![o] = type]
  BY <1>1, LoopOutcome
<1> HIDE DEF type
<1>5. CASE type = FaceContact
  <2>1. ~Again(o, type, completed)
    BY <1>5 DEF Again, FaceContact, Error
  <2>2. Imprint(o) /\ myAdjacencyMatrix' = myAdjacencyMatrix \cup {o, <<o[2], o[1]>>}
        /\ UNCHANGED myCollisionInfos
    BY <1>1, <1>5 DEF type, FaceContact, NoCollision
  <2>3. LeaveLoop(o, FaceContact)
    BY <1>3, <1>4, <1>5, <2>1, <2>2 DEF LeaveLoop
  <2>4. QED
    BY <1>3, <2>2, <2>3 DEF Contact, Attempt
<1>6. CASE type = NoCollision
  <2>1. ~Again(o, type, completed)
    BY <1>6 DEF Again, NoCollision, Error
  <2>2. calcClearance(o, dist) /\ UNCHANGED <<shapes, myAdjacencyMatrix>>
    BY <1>1, <1>6 DEF type, FaceContact, NoCollision
  <2>3. LeaveLoop(o, NoCollision)
    BY <1>3, <1>4, <1>6, <2>1, <2>2 DEF LeaveLoop
  <2>4. Push(o, Clearance) \/ UNCHANGED myCollisionInfos
    BY <2>2 DEF calcClearance
  <2>5. QED
    BY <1>3, <2>2, <2>3, <2>4 DEF NoContact, Attempt
<1>7. CASE type \notin {FaceContact, NoCollision}
  <2>1. UNCHANGED <<shapes, myAdjacencyMatrix, myCollisionInfos>>
    BY <1>1, <1>7 DEF type
  <2>2. CASE Again(o, type, completed) /\ UNCHANGED <<step, twoShapes, ctype>>
    BY <1>3, <1>4, <2>1, <2>2 DEF Retry, Attempt
  <2>3. CASE /\ step' = [step EXCEPT ![o] = "record"]
             /\ twoShapes' = [twoShapes EXCEPT ![o] = Uncopied]
             /\ ctype' = [ctype EXCEPT ![o] = type]
    <3>1. LeaveLoop(o, type)
      BY <1>3, <1>4, <2>1, <2>3 DEF LeaveLoop
    <3>2. QED
      BY <1>2, <1>3, <1>7, <2>1, <3>1 DEF OtherType, Attempt
  <2>4. QED
    BY <1>4, <2>2, <2>3
<1>8. QED
  BY <1>5, <1>6, <1>7

LEMMA AfterFuseOutcome ==
  ASSUME TypeOK, NEW o \in Coupled, NEW f \in Fused, NEW completed,
         AfterFuse(o, f, completed)
  PROVE  Attempt(o) \/ (Executor!Throw(o) /\ UNCHANGED <<localVars, resultVars>>)
<1>1. f.type \in CollisionTypes
  BY FusedType
<1>2. CASE GiveUp(o, f)
  <2>1. /\ attempt[o] = LastAttempt /\ Loop(o, Error, f, FALSE)
        /\ unfused' = unfused \cup {o}
        /\ UNCHANGED <<executorVars, shapes, myCollisionInfos, myAdjacencyMatrix>>
    BY <1>2 DEF GiveUp
  <2>2. ~Again(o, Error, FALSE)
    BY <2>1 DEF Again, LastAttempt
  <2>3. LeaveLoop(o, Error)
    BY <2>1, <2>2, LoopOutcome DEF LeaveLoop, TypeOK
  <2>4. Error \in CollisionTypes \ {FaceContact, NoCollision}
    BY DEF CollisionTypes, Error, FaceContact, NoCollision
  <2>5. QED
    BY <2>1, <2>3, <2>4 DEF OtherType, Attempt
<1>3. CASE DistanceThrows(o, f)
  BY <1>3 DEF DistanceThrows
<1>4. CASE Classify(o, f, completed)
  BY <1>1, <1>4, ClassifyOutcome
<1>5. QED
  BY <1>2, <1>3, <1>4 DEF AfterFuse

LEMMA FuseOutcome ==
  ASSUME TypeOK, NEW o \in Coupled, Fuse(o) \/ FuseThrows(o)
  PROVE  /\ step[o] = "fuse" /\ o \in running
         /\ UNCHANGED givenVars
         /\ Attempt(o) \/ (Executor!Throw(o) /\ UNCHANGED <<localVars, resultVars>>)
<1>1. step[o] = "fuse" /\ o \in running /\ UNCHANGED givenVars
  BY DEF Fuse, FuseThrows
<1>2. CASE Fuse(o)
  <2>1. PICK f \in Fused : AfterFuse(o, f, f.pieces = 2)
    BY <1>2 DEF Fuse
  <2>2. QED
    BY <1>1, <2>1, AfterFuseOutcome
<1>3. CASE FuseThrows(o) /\ fuser[o] # NoFuser
  <2>1. fuser[o] \in Fused
    BY <1>3 DEF TypeOK
  <2>2. AfterFuse(o, fuser[o], FALSE)
    BY <1>3 DEF FuseThrows
  <2>3. QED
    BY <1>1, <2>1, <2>2, AfterFuseOutcome
<1>4. CASE FuseThrows(o) /\ fuser[o] = NoFuser
  <2>1. /\ Loop(o, Error, NoFuser, FALSE)
        /\ unfused' = IF attempt[o] = LastAttempt THEN unfused \cup {o} ELSE unfused
        /\ UNCHANGED <<executorVars, shapes, myCollisionInfos, myAdjacencyMatrix>>
    BY <1>4 DEF FuseThrows
  <2>2. CASE Again(o, Error, FALSE)
    <3>1. attempt[o] # LastAttempt
      BY <2>2 DEF Again, LastAttempt
    <3>2. /\ attempt' \in [Coupled -> 0 .. LastAttempt]
          /\ fuser' \in [Coupled -> Fused \cup {NoFuser}]
      BY <2>1, LoopOutcome
    <3>3. UNCHANGED <<step, twoShapes, ctype>>
      BY <2>1, <2>2 DEF Loop
    <3>4. QED
      BY <1>1, <2>1, <3>1, <3>2, <3>3 DEF Retry, Attempt
  <2>3. CASE ~Again(o, Error, FALSE)
    <3>1. LeaveLoop(o, Error)
      BY <2>1, <2>3, LoopOutcome DEF LeaveLoop, TypeOK
    <3>2. Error \in CollisionTypes \ {FaceContact, NoCollision}
      BY DEF CollisionTypes, Error, FaceContact, NoCollision
    <3>3. QED
      BY <1>1, <2>1, <3>1, <3>2 DEF OtherType, Attempt
  <2>4. QED
    BY <2>2, <2>3
<1>5. QED
  BY <1>2, <1>3, <1>4
-----------------------------------------------------------------------------
(* Every step preserves the invariant *)

\* A pair that is in the loop, or before it, is in no row and not yet a contact or a
\* failure.
LEMMA NotYetIn ==
  ASSUME IInv, NEW o \in Coupled, step[o] \in {"idle", "fuse", "apart"}
  PROVE  /\ \A t \in CollisionTypes : ~HasEntry(o[1], o[2], t)
         /\ o \notin myAdjacencyMatrix
         /\ o \notin unfused
<1>1. \A t \in CollisionTypes : ~HasEntry(o[1], o[2], t)
  BY DEF IInv, RowsInv
<1>2. FaceContact \in CollisionTypes /\ Error \in CollisionTypes
  BY DEF CollisionTypes
<1>3. o \notin myAdjacencyMatrix
  BY <1>1, <1>2 DEF IInv, AdjacencyInv
<1>4. o \notin unfused
  BY <1>1, <1>2 DEF IInv, FailureInv
<1>5. QED
  BY <1>1, <1>3, <1>4

\* Rows that are left alone say what they said.
LEMMA SameRows ==
  ASSUME UNCHANGED myCollisionInfos
  PROVE  /\ \A i, j, t : HasEntry(i, j, t)' <=> HasEntry(i, j, t)
         /\ RowsMirrored => RowsMirrored'
<1>1. \A i, j, t : HasEntry(i, j, t)' <=> HasEntry(i, j, t)
  BY DEF HasEntry
<1>2. RowsMirrored' <=> RowsMirrored
  BY DEF HasEntry, RowsMirrored
<1>3. QED
  BY <1>1, <1>2

\* Pushing a pair changes what the rows say of that pair only.
LEMMA PushOthers ==
  ASSUME TypeOK, NEW o \in Coupled, NEW type \in CollisionTypes, Push(o, type)
  PROVE  /\ \A t \in CollisionTypes :
               HasEntry(o[1], o[2], t)' <=> HasEntry(o[1], o[2], t) \/ t = type
         /\ \A q \in Coupled \ {o}, t \in CollisionTypes :
               HasEntry(q[1], q[2], t)' <=> HasEntry(q[1], q[2], t)
<1>1. \A i, j \in Items, t \in CollisionTypes :
        HasEntry(i, j, t)' <=> HasEntry(i, j, t) \/ (t = type /\ Pairs(o, i, j))
  BY PushRows
<1>2. o[1] \in Items /\ o[2] \in Items /\ Pairs(o, o[1], o[2])
  BY PairFacts DEF Pairs
<1>3. \A q \in Coupled \ {o} : q[1] \in Items /\ q[2] \in Items /\ ~Pairs(o, q[1], q[2])
  <2> TAKE q \in Coupled \ {o}
  <2>1. q[1] \in Items /\ q[2] \in Items /\ q = <<q[1], q[2]>>
    BY PairFacts
  <2>2. <<o[2], o[1]>> \notin Coupled
    BY PairFacts
  <2>3. QED
    BY <2>1, <2>2 DEF Pairs
<1>4. QED
  BY <1>1, <1>2, <1>3

\* A pair begins on items that no other is busy with.
LEMMA BeginKeeps ==
  ASSUME IInv, NEW o \in Coupled, Begin(o)
  PROVE  IInv'
<1>1. /\ o \notin running \cup done \cup failed
      /\ \A q \in running \cup failed : {o[1], o[2]} \cap {q[1], q[2]} = {}
      /\ running' = running \cup {o}
      /\ UNCHANGED <<done, failed, outcome>>
  BY DEF Begin, Executor!Begin, IInv, TypeOK
<1>2. UNCHANGED <<attempt, fuser, ctype, resultVars, givenVars>>
  BY DEF Begin
<1>3. step[o] = "idle"
  BY <1>1 DEF IInv, ExecutorInv
<1>4. PICK s \in {"fuse", "apart", "return"} :
        /\ step' = [step EXCEPT ![o] = s]
        /\ \/ /\ s = "fuse"
              /\ imprinting => {o[1], o[2]} \cap suppressed = {}
              /\ twoShapes' = [twoShapes EXCEPT ![o] =
                    [i \in Items |-> IF i \in {o[1], o[2]} THEN shapes[i] ELSE {}]]
           \/ s # "fuse" /\ UNCHANGED twoShapes
  BY DEF Begin
<1>5. o[1] \in Items /\ o[2] \in Items
  BY PairFacts
<1>6. TypeOK'
  <2> DEFINE copy == [i \in Items |-> IF i \in {o[1], o[2]} THEN shapes[i] ELSE {}]
  <2>1. copy \in [Items -> SUBSET Coupled]
    BY DEF IInv, TypeOK
  <2> HIDE DEF copy
  <2>2. twoShapes' = [twoShapes EXCEPT ![o] = copy] \/ twoShapes' = twoShapes
    BY <1>4 DEF copy
  <2>3. twoShapes \in [Coupled -> [Items -> SUBSET Coupled]]
    BY DEF IInv, TypeOK
  <2>4. twoShapes' \in [Coupled -> [Items -> SUBSET Coupled]]
    BY <2>1, <2>2, <2>3
  <2>5. step' \in [Coupled -> {"idle", "fuse", "record", "apart", "return"}]
    BY <1>4 DEF IInv, TypeOK
  <2>6. QED
    BY <1>1, <1>2, <2>4, <2>5 DEF IInv, TypeOK, resultVars, givenVars
<1>7. ExecutorInv'
  <2>1. \A p, q \in running' \cup failed' : p # q => {p[1], p[2]} \cap {q[1], q[2]} = {}
    BY <1>1 DEF IInv, ExecutorInv
  <2>2. running' \cap failed' = {}
    BY <1>1 DEF IInv, ExecutorInv
  <2>3. \A q \in Coupled :
          /\ step'[q] = "idle" <=> q \notin running' \cup done' \cup failed'
          /\ step'[q] \in {"apart", "record"} => q \in running'
          /\ q \in done' => step'[q] = "return"
          /\ q \in failed' => step'[q] = "fuse"
    BY <1>1, <1>4 DEF IInv, TypeOK, ExecutorInv
  <2>4. QED
    BY <2>1, <2>2, <2>3 DEF ExecutorInv
<1>8. CopyInv'
  <2> SUFFICES ASSUME NEW q \in running', step'[q] = "fuse", NEW i \in {q[1], q[2]}
               PROVE  twoShapes'[q][i] = shapes'[i]
    BY DEF CopyInv
  <2>1. shapes' = shapes
    BY <1>2 DEF resultVars
  <2>2. q \in Coupled /\ i \in Items
    BY <1>1, PairFacts DEF IInv, TypeOK
  <2>3. CASE q = o
    <3>1. step'[o] = s
      BY <1>4 DEF IInv, TypeOK
    <3>2. twoShapes'[o] = [k \in Items |-> IF k \in {o[1], o[2]} THEN shapes[k] ELSE {}]
      BY <1>4, <2>3, <3>1 DEF IInv, TypeOK
    <3>3. QED
      BY <2>1, <2>2, <2>3, <3>2
  <2>4. CASE q # o
    <3>1. step'[q] = step[q] /\ twoShapes'[q] = twoShapes[q]
      BY <1>4, <2>2, <2>4 DEF IInv, TypeOK
    <3>2. q \in running
      BY <1>1, <2>4
    <3>3. QED
      BY <2>1, <3>1, <3>2 DEF IInv, CopyInv
  <2>5. QED
    BY <2>3, <2>4
<1>9. ImprintInv'
  <2>1. Imprinted'
    BY <1>2 DEF IInv, ImprintInv, Imprinted, resultVars, givenVars
  <2>2. \A q \in Coupled : imprinting' /\ step'[q] = "fuse" =>
           {q[1], q[2]} \cap suppressed' = {}
    BY <1>2, <1>4 DEF IInv, TypeOK, ImprintInv, givenVars
  <2>3. QED
    BY <2>1, <2>2 DEF ImprintInv
<1>10. \A i, j, t : HasEntry(i, j, t)' <=> HasEntry(i, j, t)
  BY <1>2, SameRows DEF resultVars
<1>11. \A q \in Coupled : q # o => step'[q] = step[q]
  BY <1>4 DEF IInv, TypeOK
<1>12. step'[o] = s
  BY <1>4 DEF IInv, TypeOK
<1>13. /\ \A t \in CollisionTypes : ~HasEntry(o[1], o[2], t)
       /\ o \notin myAdjacencyMatrix /\ o \notin unfused
  BY <1>3, NotYetIn
<1>14. UNCHANGED <<ctype, myAdjacencyMatrix, unfused, myCollisionInfos>>
  BY <1>2 DEF resultVars
<1>15. RowsInv'
  BY <1>10, <1>11, <1>12, <1>13, <1>14, SameRows DEF IInv, RowsInv
<1>16. FaceContact \in CollisionTypes
  BY DEF CollisionTypes
<1>17. AdjacencyInv'
  <2> SUFFICES ASSUME NEW q \in Coupled
      PROVE /\ q \in myAdjacencyMatrix <=>
                 (step'[q] = "record" /\ ctype[q] = FaceContact)
                    \/ HasEntry(q[1], q[2], FaceContact)
            /\ <<q[2], q[1]>> \in myAdjacencyMatrix <=> q \in myAdjacencyMatrix
    BY <1>10, <1>14 DEF AdjacencyInv
  <2>1. QED
    BY <1>11, <1>12, <1>13, <1>16 DEF IInv, AdjacencyInv
<1>18. FailureInv'
  <2> SUFFICES ASSUME NEW q \in unfused
      PROVE (step'[q] = "record" /\ ctype[q] = Error) \/ HasEntry(q[1], q[2], Error)
    BY <1>10, <1>14 DEF FailureInv
  <2>1. q \in Coupled /\ q # o
    BY <1>13 DEF IInv, TypeOK
  <2>2. QED
    BY <1>11, <2>1 DEF IInv, FailureInv
<1>19. QED
  BY <1>6, <1>7, <1>8, <1>9, <1>15, <1>17, <1>18 DEF IInv

\* An attempt that is taken again changes nothing but its counter and its fuse.
LEMMA RetryKeeps ==
  ASSUME IInv, NEW o \in Coupled, Retry(o), UNCHANGED givenVars
  PROVE  IInv'
<1>1. /\ attempt' \in [Coupled -> 0 .. LastAttempt]
      /\ fuser' \in [Coupled -> Fused \cup {NoFuser}]
      /\ UNCHANGED <<running, done, failed, outcome, step, twoShapes, ctype, shapes,
                     myCollisionInfos, myAdjacencyMatrix, unfused,
                     imprinting, suppressed>>
  BY DEF Retry, executorVars, givenVars
<1>2. TypeOK'
  BY <1>1 DEF IInv, TypeOK
<1>3. ExecutorInv' /\ CopyInv'
  BY <1>1 DEF IInv, ExecutorInv, CopyInv
<1>4. ImprintInv'
  BY <1>1 DEF IInv, ImprintInv, Imprinted
<1>5. \A i, j, t : HasEntry(i, j, t)' <=> HasEntry(i, j, t)
  BY <1>1, SameRows
<1>6. RowsInv'
  BY <1>1, <1>5, SameRows DEF IInv, RowsInv
<1>7. AdjacencyInv'
  BY <1>1, <1>5 DEF IInv, AdjacencyInv
<1>8. FailureInv'
  BY <1>1, <1>5 DEF IInv, FailureInv
<1>9. QED
  BY <1>2, <1>3, <1>4, <1>6, <1>7, <1>8 DEF IInv

\* However the loop is left, the pair is still running, and is to be recorded.
LEMMA LeaveKeeps ==
  ASSUME IInv, NEW o \in running, NEW type \in CollisionTypes, LeaveLoop(o, type),
         step[o] = "fuse", UNCHANGED givenVars
  PROVE  /\ ExecutorInv'
         /\ \A q \in Coupled : imprinting' /\ step'[q] = "fuse" =>
               {q[1], q[2]} \cap suppressed' = {}
         /\ attempt' \in [Coupled -> 0 .. LastAttempt]
         /\ fuser' \in [Coupled -> Fused \cup {NoFuser}]
         /\ twoShapes' \in [Coupled -> [Items -> SUBSET Coupled]]
         /\ step' \in [Coupled -> {"idle", "fuse", "record", "apart", "return"}]
         /\ ctype' \in [Coupled -> CollisionTypes]
         /\ step'[o] = "record" /\ ctype'[o] = type
         /\ \A q \in Coupled \ {o} : /\ step'[q] = step[q] /\ ctype'[q] = ctype[q]
                                     /\ twoShapes'[q] = twoShapes[q]
         /\ UNCHANGED executorVars
<1>1. /\ attempt' \in [Coupled -> 0 .. LastAttempt]
      /\ fuser' \in [Coupled -> Fused \cup {NoFuser}]
      /\ step' = [step EXCEPT ![o] = "record"]
      /\ twoShapes' = [twoShapes EXCEPT ![o] = Uncopied]
      /\ ctype' = [ctype EXCEPT ![o] = type]
      /\ UNCHANGED executorVars
  BY DEF LeaveLoop
<1>2. o \in Coupled
  BY DEF IInv, TypeOK
<1>3. Uncopied \in [Items -> SUBSET Coupled]
  BY DEF Uncopied
<1>4. /\ twoShapes \in [Coupled -> [Items -> SUBSET Coupled]]
      /\ step \in [Coupled -> {"idle", "fuse", "record", "apart", "return"}]
      /\ ctype \in [Coupled -> CollisionTypes]
  BY DEF IInv, TypeOK
<1>5. /\ twoShapes' \in [Coupled -> [Items -> SUBSET Coupled]]
      /\ step' \in [Coupled -> {"idle", "fuse", "record", "apart", "return"}]
      /\ ctype' \in [Coupled -> CollisionTypes]
  BY <1>1, <1>3, <1>4
<1>6. step'[o] = "record" /\ ctype'[o] = type
  BY <1>1, <1>2, <1>4
<1>7. \A q \in Coupled \ {o} : /\ step'[q] = step[q] /\ ctype'[q] = ctype[q]
                               /\ twoShapes'[q] = twoShapes[q]
  BY <1>1, <1>4
<1>8. ExecutorInv'
  <2>1. UNCHANGED <<running, done, failed>>
    BY <1>1 DEF executorVars
  <2>2. o \notin done /\ o \notin failed
    BY <1>2 DEF IInv, ExecutorInv
  <2>3. \A q \in Coupled :
          /\ step'[q] = "idle" <=> q \notin running \cup done \cup failed
          /\ step'[q] \in {"apart", "record"} => q \in running
          /\ q \in done => step'[q] = "return"
          /\ q \in failed => step'[q] = "fuse"
    BY <1>6, <1>7, <2>2 DEF IInv, ExecutorInv
  <2>4. QED
    BY <2>1, <2>3 DEF IInv, ExecutorInv
<1>9. \A q \in Coupled : imprinting' /\ step'[q] = "fuse" =>
         {q[1], q[2]} \cap suppressed' = {}
  BY <1>6, <1>7 DEF IInv, ImprintInv, givenVars
<1>10. QED
  BY <1>1, <1>5, <1>6, <1>7, <1>8, <1>9

\* A contact is imprinted on copies that are still what was copied.
LEMMA ContactKeeps ==
  ASSUME IInv, NEW o \in running, Contact(o), step[o] = "fuse", UNCHANGED givenVars
  PROVE  IInv'
<1>1. /\ LeaveLoop(o, FaceContact)
      /\ myAdjacencyMatrix' = myAdjacencyMatrix \cup {o, <<o[2], o[1]>>}
      /\ UNCHANGED <<myCollisionInfos, unfused, imprinting, suppressed>>
  BY DEF Contact, givenVars
<1>2. o \in Coupled /\ FaceContact \in CollisionTypes
  BY DEF IInv, TypeOK, CollisionTypes
<1>3. o[1] \in Items /\ o[2] \in Items /\ o[1] # o[2] /\ o = <<o[1], o[2]>>
      /\ <<o[2], o[1]>> \notin Coupled
  BY <1>2, PairFacts
<1>4. /\ \A t \in CollisionTypes : ~HasEntry(o[1], o[2], t)
      /\ o \notin myAdjacencyMatrix /\ o \notin unfused
  BY <1>2, NotYetIn
<1>5. /\ ExecutorInv'
      /\ \A q \in Coupled : imprinting' /\ step'[q] = "fuse" =>
            {q[1], q[2]} \cap suppressed' = {}
      /\ attempt' \in [Coupled -> 0 .. LastAttempt]
      /\ fuser' \in [Coupled -> Fused \cup {NoFuser}]
      /\ twoShapes' \in [Coupled -> [Items -> SUBSET Coupled]]
      /\ step' \in [Coupled -> {"idle", "fuse", "record", "apart", "return"}]
      /\ ctype' \in [Coupled -> CollisionTypes]
      /\ step'[o] = "record" /\ ctype'[o] = FaceContact
      /\ \A q \in Coupled \ {o} : /\ step'[q] = step[q] /\ ctype'[q] = ctype[q]
                                  /\ twoShapes'[q] = twoShapes[q]
      /\ UNCHANGED <<running, done, failed, outcome>>
  BY <1>1, <1>2, LeaveKeeps DEF executorVars
<1>6. \A i \in {o[1], o[2]} : twoShapes[o][i] = shapes[i]
  BY DEF IInv, CopyInv
<1>7. /\ shapes' \in [Items -> SUBSET Coupled]
      /\ ~imprinting => shapes' = shapes
      /\ imprinting =>
            \A i \in Items : shapes'[i] = IF i \in {o[1], o[2]} THEN shapes[i] \cup {o}
                                                                ELSE shapes[i]
  <2>1. CASE ~imprinting
    BY <2>1 DEF Contact, Imprint, IInv, TypeOK
  <2>2. CASE imprinting
    <3>1. shapes' = [i \in Items |-> IF i \in {o[1], o[2]} THEN twoShapes[o][i] \cup {o}
                                                           ELSE shapes[i]]
      BY <2>2 DEF Contact, Imprint
    <3>2. shapes \in [Items -> SUBSET Coupled]
      BY DEF IInv, TypeOK
    <3>3. shapes' = [i \in Items |-> IF i \in {o[1], o[2]} THEN shapes[i] \cup {o}
                                                           ELSE shapes[i]]
      BY <1>6, <3>1
    <3>4. QED
      BY <1>2, <2>2, <3>2, <3>3
  <2>3. QED
    BY <2>1, <2>2
<1>8. TypeOK'
  <2>1. {o, <<o[2], o[1]>>} \subseteq Items \X Items
    BY <1>3
  <2>2. myAdjacencyMatrix' \in SUBSET (Items \X Items)
    BY <1>1, <2>1 DEF IInv, TypeOK
  <2>3. QED
    BY <1>1, <1>5, <1>7, <2>2 DEF IInv, TypeOK
<1>9. CopyInv'
  <2> SUFFICES ASSUME NEW q \in running, step'[q] = "fuse", NEW i \in {q[1], q[2]}
               PROVE  twoShapes'[q][i] = shapes'[i]
    BY <1>5 DEF CopyInv
  <2>1. q \in Coupled /\ q # o /\ i \in Items
    BY <1>5, PairFacts DEF IInv, TypeOK
  <2>2. i \notin {o[1], o[2]}
    BY <2>1 DEF IInv, ExecutorInv
  <2>3. shapes'[i] = shapes[i]
    BY <1>7, <2>1, <2>2
  <2>4. twoShapes'[q] = twoShapes[q] /\ step[q] = "fuse"
    BY <1>5, <2>1
  <2>5. QED
    BY <2>3, <2>4 DEF IInv, CopyInv
<1>10. ImprintInv'
  <2>1. ASSUME imprinting, NEW q \in Coupled
        PROVE  IF q \in myAdjacencyMatrix'
                 THEN q \in shapes'[q[1]] /\ q \in shapes'[q[2]]
                      /\ {q[1], q[2]} \cap suppressed = {}
                 ELSE \A i \in Items : q \notin shapes'[i]
    <3>1. q[1] \in Items /\ q[2] \in Items
      BY PairFacts
    <3>2. \A i \in Items : shapes'[i] = IF i \in {o[1], o[2]} THEN shapes[i] \cup {o}
                                                              ELSE shapes[i]
      BY <1>7, <2>1
    <3>3. CASE q = o
      <4>1. {o[1], o[2]} \cap suppressed = {}
        BY <1>2, <2>1 DEF IInv, ImprintInv
      <4>2. q \in myAdjacencyMatrix'
        BY <1>1, <3>3
      <4>3. QED
        BY <1>3, <3>2, <3>3, <4>1, <4>2
    <3>4. CASE q # o
      <4>1. q \in myAdjacencyMatrix' <=> q \in myAdjacencyMatrix
        BY <1>1, <1>3, <3>4
      <4>2. IF q \in myAdjacencyMatrix
              THEN q \in shapes[q[1]] /\ q \in shapes[q[2]]
                   /\ {q[1], q[2]} \cap suppressed = {}
              ELSE \A i \in Items : q \notin shapes[i]
        BY <2>1 DEF IInv, ImprintInv, Imprinted
      <4>3. \A i \in Items : q \in shapes'[i] <=> q \in shapes[i]
        BY <3>2, <3>4
      <4>4. QED
        BY <3>1, <4>1, <4>2, <4>3
    <3>5. QED
      BY <3>3, <3>4
  <2>2. Imprinted'
    BY <1>1, <2>1 DEF Imprinted
  <2>3. QED
    BY <1>5, <2>2 DEF ImprintInv
<1>11. /\ \A i, j, t : HasEntry(i, j, t)' <=> HasEntry(i, j, t)
       /\ RowsMirrored => RowsMirrored'
  BY <1>1, SameRows
<1>12. RowsInv'
  BY <1>4, <1>5, <1>11 DEF IInv, RowsInv
<1>13. AdjacencyInv'
  <2> SUFFICES ASSUME NEW q \in Coupled
      PROVE /\ q \in myAdjacencyMatrix' <=>
                 (step'[q] = "record" /\ ctype'[q] = FaceContact)
                    \/ HasEntry(q[1], q[2], FaceContact)
            /\ <<q[2], q[1]>> \in myAdjacencyMatrix' <=> q \in myAdjacencyMatrix'
    BY <1>11 DEF AdjacencyInv
  <2>1. CASE q = o
    BY <1>1, <1>5, <2>1
  <2>2. CASE q # o
    <3>1. q = <<q[1], q[2]>> /\ <<q[2], q[1]>> \notin Coupled
      BY PairFacts
    <3>2. /\ q \in myAdjacencyMatrix' <=> q \in myAdjacencyMatrix
          /\ <<q[2], q[1]>> \in myAdjacencyMatrix' <=> <<q[2], q[1]>> \in myAdjacencyMatrix
      BY <1>1, <1>2, <1>3, <2>2, <3>1
    <3>3. QED
      BY <1>5, <2>2, <3>2 DEF IInv, AdjacencyInv
  <2>3. QED
    BY <2>1, <2>2
<1>14. FailureInv'
  <2>1. \A q \in unfused : q \in Coupled /\ q # o
    BY <1>4 DEF IInv, TypeOK
  <2>2. QED
    BY <1>1, <1>5, <1>11, <2>1 DEF IInv, FailureInv
<1>15. QED
  BY <1>5, <1>8, <1>9, <1>10, <1>12, <1>13, <1>14 DEF IInv

\* A pair that does not touch may be within the clearance threshold.
LEMMA NoContactKeeps ==
  ASSUME IInv, NEW o \in running, NoContact(o), step[o] = "fuse", UNCHANGED givenVars
  PROVE  IInv'
<1>1. /\ LeaveLoop(o, NoCollision)
      /\ Push(o, Clearance) \/ UNCHANGED myCollisionInfos
      /\ UNCHANGED <<shapes, myAdjacencyMatrix, unfused, imprinting, suppressed>>
  BY DEF NoContact, givenVars
<1>2. o \in Coupled /\ NoCollision \in CollisionTypes /\ Clearance \in CollisionTypes
      /\ FaceContact \in CollisionTypes /\ Error \in CollisionTypes
  BY DEF IInv, TypeOK, CollisionTypes
<1>3. /\ \A t \in CollisionTypes : ~HasEntry(o[1], o[2], t)
      /\ o \notin myAdjacencyMatrix /\ o \notin unfused
  BY <1>2, NotYetIn
<1>4. /\ ExecutorInv'
      /\ \A q \in Coupled : imprinting' /\ step'[q] = "fuse" =>
            {q[1], q[2]} \cap suppressed' = {}
      /\ attempt' \in [Coupled -> 0 .. LastAttempt]
      /\ fuser' \in [Coupled -> Fused \cup {NoFuser}]
      /\ twoShapes' \in [Coupled -> [Items -> SUBSET Coupled]]
      /\ step' \in [Coupled -> {"idle", "fuse", "record", "apart", "return"}]
      /\ ctype' \in [Coupled -> CollisionTypes]
      /\ step'[o] = "record" /\ ctype'[o] = NoCollision
      /\ \A q \in Coupled \ {o} : /\ step'[q] = step[q] /\ ctype'[q] = ctype[q]
                                  /\ twoShapes'[q] = twoShapes[q]
      /\ UNCHANGED <<running, done, failed, outcome>>
  BY <1>1, <1>2, LeaveKeeps DEF executorVars
<1>5. /\ myCollisionInfos' \in [Items -> Seq(Entries)]
      /\ \A t \in CollisionTypes : HasEntry(o[1], o[2], t)' => t = Clearance
      /\ \A q \in Coupled \ {o}, t \in CollisionTypes :
            HasEntry(q[1], q[2], t)' <=> HasEntry(q[1], q[2], t)
      /\ RowsMirrored'
  <2>1. TypeOK /\ RowsMirrored
    BY DEF IInv, RowsInv
  <2>2. CASE Push(o, Clearance)
    BY <1>2, <1>3, <2>1, <2>2, PushRows, PushOthers, PushMirrored
  <2>3. CASE UNCHANGED myCollisionInfos
    BY <1>3, <2>1, <2>3, SameRows DEF TypeOK
  <2>4. QED
    BY <1>1, <2>2, <2>3
<1>6. TypeOK'
  BY <1>1, <1>4, <1>5 DEF IInv, TypeOK
<1>7. CopyInv'
  <2> SUFFICES ASSUME NEW q \in running, step'[q] = "fuse", NEW i \in {q[1], q[2]}
               PROVE  twoShapes'[q][i] = shapes[i]
    BY <1>1, <1>4 DEF CopyInv
  <2>1. q \in Coupled /\ q # o
    BY <1>4 DEF IInv, TypeOK
  <2>2. QED
    BY <1>4, <2>1 DEF IInv, CopyInv
<1>8. ImprintInv'
  BY <1>1, <1>4 DEF IInv, ImprintInv, Imprinted
<1>9. RowsInv'
  BY <1>3, <1>4, <1>5 DEF IInv, RowsInv
<1>10. FaceContact # Clearance /\ FaceContact # NoCollision /\ Error # NoCollision
       /\ Clearance # Error
  BY DEF FaceContact, Clearance, NoCollision, Error
<1>11. AdjacencyInv'
  <2>1. \A q \in Coupled :
          /\ q \in myAdjacencyMatrix <=>
                 (step'[q] = "record" /\ ctype'[q] = FaceContact)
                    \/ HasEntry(q[1], q[2], FaceContact)'
          /\ <<q[2], q[1]>> \in myAdjacencyMatrix <=> q \in myAdjacencyMatrix
    <3> TAKE q \in Coupled
    <3>1. CASE q = o
      BY <1>2, <1>3, <1>4, <1>5, <1>10, <3>1 DEF IInv, AdjacencyInv
    <3>2. CASE q # o
      BY <1>2, <1>4, <1>5, <3>2 DEF IInv, AdjacencyInv
    <3>3. QED
      BY <3>1, <3>2
  <2>2. QED
    BY <1>1, <2>1 DEF AdjacencyInv
<1>12. FailureInv'
  <2>1. \A q \in unfused : q \in Coupled /\ q # o
    BY <1>3 DEF IInv, TypeOK
  <2>2. \A q \in unfused :
          (step'[q] = "record" /\ ctype'[q] = Error) \/ HasEntry(q[1], q[2], Error)'
    BY <1>2, <1>4, <1>5, <2>1 DEF IInv, FailureInv
  <2>3. QED
    BY <1>1, <2>2 DEF FailureInv
<1>13. QED
  BY <1>4, <1>6, <1>7, <1>8, <1>9, <1>11, <1>12 DEF IInv

\* Any other type is left to Record.
LEMMA OtherTypeKeeps ==
  ASSUME IInv, NEW o \in running, OtherType(o), step[o] = "fuse", UNCHANGED givenVars
  PROVE  IInv'
<1>1. PICK type \in CollisionTypes \ {FaceContact, NoCollision} :
         /\ LeaveLoop(o, type)
         /\ unfused' = unfused \/ (type = Error /\ unfused' = unfused \cup {o})
         /\ UNCHANGED <<shapes, myCollisionInfos, myAdjacencyMatrix>>
  BY DEF OtherType
<1>2. UNCHANGED <<imprinting, suppressed>>
  BY DEF givenVars
<1>3. o \in Coupled /\ FaceContact \in CollisionTypes
  BY DEF IInv, TypeOK, CollisionTypes
<1>4. /\ \A t \in CollisionTypes : ~HasEntry(o[1], o[2], t)
      /\ o \notin myAdjacencyMatrix /\ o \notin unfused
  BY <1>3, NotYetIn
<1>5. /\ ExecutorInv'
      /\ \A q \in Coupled : imprinting' /\ step'[q] = "fuse" =>
            {q[1], q[2]} \cap suppressed' = {}
      /\ attempt' \in [Coupled -> 0 .. LastAttempt]
      /\ fuser' \in [Coupled -> Fused \cup {NoFuser}]
      /\ twoShapes' \in [Coupled -> [Items -> SUBSET Coupled]]
      /\ step' \in [Coupled -> {"idle", "fuse", "record", "apart", "return"}]
      /\ ctype' \in [Coupled -> CollisionTypes]
      /\ step'[o] = "record" /\ ctype'[o] = type
      /\ \A q \in Coupled \ {o} : /\ step'[q] = step[q] /\ ctype'[q] = ctype[q]
                                  /\ twoShapes'[q] = twoShapes[q]
      /\ UNCHANGED <<running, done, failed, outcome>>
  BY <1>1, LeaveKeeps DEF executorVars
<1>6. TypeOK'
  <2>1. unfused' \in SUBSET Coupled
    BY <1>1, <1>3 DEF IInv, TypeOK
  <2>2. QED
    BY <1>1, <1>2, <1>5, <2>1 DEF IInv, TypeOK
<1>7. CopyInv'
  <2> SUFFICES ASSUME NEW q \in running, step'[q] = "fuse", NEW i \in {q[1], q[2]}
               PROVE  twoShapes'[q][i] = shapes[i]
    BY <1>1, <1>5 DEF CopyInv
  <2>1. q \in Coupled /\ q # o
    BY <1>5 DEF IInv, TypeOK
  <2>2. QED
    BY <1>5, <2>1 DEF IInv, CopyInv
<1>8. ImprintInv'
  BY <1>1, <1>2, <1>5 DEF IInv, ImprintInv, Imprinted
<1>9. /\ \A i, j, t : HasEntry(i, j, t)' <=> HasEntry(i, j, t)
      /\ RowsMirrored => RowsMirrored'
  BY <1>1, SameRows
<1>10. RowsInv'
  BY <1>4, <1>5, <1>9 DEF IInv, RowsInv
<1>11. AdjacencyInv'
  <2>1. \A q \in Coupled :
          /\ q \in myAdjacencyMatrix <=>
                 (step'[q] = "record" /\ ctype'[q] = FaceContact)
                    \/ HasEntry(q[1], q[2], FaceContact)
          /\ <<q[2], q[1]>> \in myAdjacencyMatrix <=> q \in myAdjacencyMatrix
    <3> TAKE q \in Coupled
    <3>1. CASE q = o
      BY <1>1, <1>3, <1>4, <1>5, <3>1 DEF IInv, AdjacencyInv
    <3>2. CASE q # o
      BY <1>5, <3>2 DEF IInv, AdjacencyInv
    <3>3. QED
      BY <3>1, <3>2
  <2>2. QED
    BY <1>1, <1>9, <2>1 DEF AdjacencyInv
<1>12. FailureInv'
  <2>1. \A q \in unfused : q \in Coupled /\ q # o
    BY <1>4 DEF IInv, TypeOK
  <2>2. \A q \in unfused' :
          (step'[q] = "record" /\ ctype'[q] = Error) \/ HasEntry(q[1], q[2], Error)
    BY <1>1, <1>5, <2>1 DEF IInv, FailureInv
  <2>3. QED
    BY <1>9, <2>2 DEF FailureInv
<1>13. QED
  BY <1>5, <1>6, <1>7, <1>8, <1>10, <1>11, <1>12 DEF IInv

\* The pair is recorded once: before this step no row has it but for its clearance.
LEMMA RecordKeeps ==
  ASSUME IInv, NEW o \in Coupled, Record(o)
  PROVE  IInv'
<1>1. /\ step[o] = "record" /\ o \in running
      /\ step' = [step EXCEPT ![o] = "return"]
      /\ ctype' = [ctype EXCEPT ![o] = NoCollision]
      /\ UNCHANGED <<running, done, failed, outcome, attempt, twoShapes, fuser, shapes,
                     myAdjacencyMatrix, unfused, imprinting, suppressed>>
  BY DEF Record, executorVars, givenVars, IInv, ExecutorInv
<1>2. FaceContact \in CollisionTypes /\ Error \in CollisionTypes
      /\ NoCollision \in CollisionTypes
  BY DEF CollisionTypes
<1>3. /\ step' \in [Coupled -> {"idle", "fuse", "record", "apart", "return"}]
      /\ ctype' \in [Coupled -> CollisionTypes]
      /\ step'[o] = "return"
      /\ \A q \in Coupled \ {o} : step'[q] = step[q] /\ ctype'[q] = ctype[q]
  BY <1>1, <1>2 DEF IInv, TypeOK
<1>4. /\ ctype[o] \in CollisionTypes
      /\ IF Recorded(ctype[o]) THEN Push(o, ctype[o]) ELSE UNCHANGED myCollisionInfos
  BY DEF Record, IInv, TypeOK
<1>5. Recorded(ctype[o]) => ctype[o] # NoCollision
  BY DEF Recorded, FaceContact, NoCollision
<1>6. ctype[o] \in {FaceContact, Error} => Recorded(ctype[o])
  BY DEF Recorded, FaceContact, Error
<1>7. /\ myCollisionInfos' \in [Items -> Seq(Entries)]
      /\ \A t \in CollisionTypes :
            HasEntry(o[1], o[2], t)' <=>
               HasEntry(o[1], o[2], t) \/ (Recorded(ctype[o]) /\ t = ctype[o])
      /\ \A q \in Coupled \ {o}, t \in CollisionTypes :
            HasEntry(q[1], q[2], t)' <=> HasEntry(q[1], q[2], t)
      /\ RowsMirrored'
  <2>1. TypeOK /\ RowsMirrored
    BY DEF IInv, RowsInv
  <2>2. CASE Recorded(ctype[o])
    <3>1. Push(o, ctype[o])
      BY <1>4, <2>2
    <3>2. \A t \in CollisionTypes : ~HasEntry(o[1], o[2], t)
      BY <1>1, <1>5, <2>2 DEF IInv, RowsInv
    <3>3. myCollisionInfos' \in [Items -> Seq(Entries)]
      BY <1>4, <2>1, <3>1, PushRows
    <3>4. RowsMirrored'
      BY <1>4, <2>1, <3>1, <3>2, PushMirrored
    <3>5. /\ \A t \in CollisionTypes :
               HasEntry(o[1], o[2], t)' <=> HasEntry(o[1], o[2], t) \/ t = ctype[o]
          /\ \A q \in Coupled \ {o}, t \in CollisionTypes :
               HasEntry(q[1], q[2], t)' <=> HasEntry(q[1], q[2], t)
      BY <1>4, <2>1, <3>1, PushOthers
    <3>6. QED
      BY <2>2, <3>3, <3>4, <3>5
  <2>3. CASE ~Recorded(ctype[o])
    BY <1>4, <2>1, <2>3, SameRows DEF TypeOK
  <2>4. QED
    BY <2>2, <2>3
<1>8. TypeOK'
  BY <1>1, <1>3, <1>7 DEF IInv, TypeOK
<1>9. ExecutorInv'
  <2>1. o \notin done /\ o \notin failed
    BY <1>1 DEF IInv, ExecutorInv
  <2>2. \A q \in Coupled :
          /\ step'[q] = "idle" <=> q \notin running \cup done \cup failed
          /\ step'[q] \in {"apart", "record"} => q \in running
          /\ q \in done => step'[q] = "return"
          /\ q \in failed => step'[q] = "fuse"
    BY <1>1, <1>3, <2>1 DEF IInv, ExecutorInv
  <2>3. QED
    BY <1>1, <2>2 DEF IInv, ExecutorInv
<1>10. CopyInv'
  <2> SUFFICES ASSUME NEW q \in running, step'[q] = "fuse", NEW i \in {q[1], q[2]}
               PROVE  twoShapes[q][i] = shapes[i]
    BY <1>1 DEF CopyInv
  <2>1. q \in Coupled
    BY DEF IInv, TypeOK
  <2>2. QED
    BY <1>3, <2>1 DEF IInv, CopyInv
<1>11. ImprintInv'
  BY <1>1, <1>3 DEF IInv, ImprintInv, Imprinted
<1>12. RowsInv'
  BY <1>3, <1>7 DEF IInv, RowsInv
<1>13. AdjacencyInv'
  <2>1. \A q \in Coupled :
          /\ q \in myAdjacencyMatrix <=>
                 (step'[q] = "record" /\ ctype'[q] = FaceContact)
                    \/ HasEntry(q[1], q[2], FaceContact)'
          /\ <<q[2], q[1]>> \in myAdjacencyMatrix <=> q \in myAdjacencyMatrix
    <3> TAKE q \in Coupled
    <3>1. CASE q = o
      BY <1>1, <1>2, <1>3, <1>6, <1>7, <3>1 DEF IInv, AdjacencyInv
    <3>2. CASE q # o
      BY <1>2, <1>3, <1>7, <3>2 DEF IInv, AdjacencyInv
    <3>3. QED
      BY <3>1, <3>2
  <2>2. QED
    BY <1>1, <2>1 DEF AdjacencyInv
<1>14. FailureInv'
  <2>1. ASSUME NEW q \in unfused
        PROVE  (step'[q] = "record" /\ ctype'[q] = Error) \/ HasEntry(q[1], q[2], Error)'
    <3>1. q \in Coupled
      BY DEF IInv, TypeOK
    <3>2. (step[q] = "record" /\ ctype[q] = Error) \/ HasEntry(q[1], q[2], Error)
      BY DEF IInv, FailureInv
    <3>3. QED
      BY <1>2, <1>3, <1>6, <1>7, <3>1, <3>2
  <2>2. QED
    BY <1>1, <2>1 DEF FailureInv
<1>15. QED
  BY <1>8, <1>9, <1>10, <1>11, <1>12, <1>13, <1>14 DEF IInv

\* So is the clearance of a pair whose boxes are apart.
LEMMA ApartKeeps ==
  ASSUME IInv, NEW o \in Coupled, Apart(o)
  PROVE  IInv'
<1>1. /\ step[o] = "apart" /\ o \in running
      /\ step' = [step EXCEPT ![o] = "return"]
      /\ UNCHANGED <<running, done, failed, outcome, attempt, twoShapes, fuser, ctype,
                     shapes, myAdjacencyMatrix, unfused, imprinting, suppressed>>
  BY DEF Apart, executorVars, givenVars, IInv, ExecutorInv
<1>2. FaceContact \in CollisionTypes /\ Error \in CollisionTypes
      /\ Clearance \in CollisionTypes /\ FaceContact # Clearance
  BY DEF CollisionTypes, FaceContact, Clearance, Error
<1>3. /\ step' \in [Coupled -> {"idle", "fuse", "record", "apart", "return"}]
      /\ step'[o] = "return"
      /\ \A q \in Coupled \ {o} : step'[q] = step[q]
  BY <1>1 DEF IInv, TypeOK
<1>4. Push(o, Clearance) \/ UNCHANGED myCollisionInfos
  BY DEF Apart, calcClearance
<1>5. /\ \A t \in CollisionTypes : ~HasEntry(o[1], o[2], t)
      /\ o \notin myAdjacencyMatrix /\ o \notin unfused
  BY <1>1, NotYetIn
<1>6. /\ myCollisionInfos' \in [Items -> Seq(Entries)]
      /\ \A t \in CollisionTypes : HasEntry(o[1], o[2], t)' => t = Clearance
      /\ \A q \in Coupled \ {o}, t \in CollisionTypes :
            HasEntry(q[1], q[2], t)' <=> HasEntry(q[1], q[2], t)
      /\ RowsMirrored'
  <2>1. TypeOK /\ RowsMirrored
    BY DEF IInv, RowsInv
  <2>2. CASE Push(o, Clearance)
    BY <1>2, <1>5, <2>1, <2>2, PushRows, PushOthers, PushMirrored
  <2>3. CASE UNCHANGED myCollisionInfos
    BY <1>5, <2>1, <2>3, SameRows DEF TypeOK
  <2>4. QED
    BY <1>4, <2>2, <2>3
<1>7. TypeOK'
  BY <1>1, <1>3, <1>4, <1>6 DEF IInv, TypeOK
<1>8. ExecutorInv'
  <2>1. o \notin done /\ o \notin failed
    BY <1>1 DEF IInv, ExecutorInv
  <2>2. \A q \in Coupled :
          /\ step'[q] = "idle" <=> q \notin running \cup done \cup failed
          /\ step'[q] \in {"apart", "record"} => q \in running
          /\ q \in done => step'[q] = "return"
          /\ q \in failed => step'[q] = "fuse"
    BY <1>1, <1>3, <2>1 DEF IInv, ExecutorInv
  <2>3. QED
    BY <1>1, <2>2 DEF IInv, ExecutorInv
<1>9. CopyInv'
  <2> SUFFICES ASSUME NEW q \in running, step'[q] = "fuse", NEW i \in {q[1], q[2]}
               PROVE  twoShapes[q][i] = shapes[i]
    BY <1>1 DEF CopyInv
  <2>1. q \in Coupled
    BY DEF IInv, TypeOK
  <2>2. QED
    BY <1>3, <2>1 DEF IInv, CopyInv
<1>10. ImprintInv'
  BY <1>1, <1>3 DEF IInv, ImprintInv, Imprinted
<1>11. RowsInv'
  BY <1>1, <1>3, <1>6 DEF IInv, RowsInv
<1>12. AdjacencyInv'
  <2>1. \A q \in Coupled :
          /\ q \in myAdjacencyMatrix <=>
                 (step'[q] = "record" /\ ctype[q] = FaceContact)
                    \/ HasEntry(q[1], q[2], FaceContact)'
          /\ <<q[2], q[1]>> \in myAdjacencyMatrix <=> q \in myAdjacencyMatrix
    <3> TAKE q \in Coupled
    <3>1. CASE q = o
      BY <1>2, <1>3, <1>5, <1>6, <3>1 DEF IInv, AdjacencyInv
    <3>2. CASE q # o
      BY <1>2, <1>3, <1>6, <3>2 DEF IInv, AdjacencyInv
    <3>3. QED
      BY <3>1, <3>2
  <2>2. QED
    BY <1>1, <2>1 DEF AdjacencyInv
<1>13. FailureInv'
  <2>1. \A q \in unfused : q \in Coupled /\ q # o
    BY <1>5 DEF IInv, TypeOK
  <2>2. \A q \in unfused :
          (step'[q] = "record" /\ ctype[q] = Error) \/ HasEntry(q[1], q[2], Error)'
    BY <1>2, <1>3, <1>6, <2>1 DEF IInv, FailureInv
  <2>3. QED
    BY <1>1, <2>2 DEF FailureInv
<1>14. QED
  BY <1>7, <1>8, <1>9, <1>10, <1>11, <1>12, <1>13 DEF IInv

\* The other steps leave the results alone.
LEMMA ExecutorKeeps ==
  ASSUME IInv, UNCHANGED <<localVars, resultVars, givenVars>>,
         TypeOK', ExecutorInv', running' \subseteq running
  PROVE  IInv'
<1>1. UNCHANGED <<step, attempt, twoShapes, fuser, ctype, shapes, myCollisionInfos,
                  myAdjacencyMatrix, unfused, imprinting, suppressed>>
  BY DEF localVars, resultVars, givenVars
<1>2. CopyInv'
  BY <1>1 DEF IInv, CopyInv
<1>3. ImprintInv'
  BY <1>1 DEF IInv, ImprintInv, Imprinted
<1>4. /\ \A i, j, t : HasEntry(i, j, t)' <=> HasEntry(i, j, t)
      /\ RowsMirrored => RowsMirrored'
  BY <1>1, SameRows
<1>5. RowsInv'
  BY <1>1, <1>4 DEF IInv, RowsInv
<1>6. AdjacencyInv'
  BY <1>1, <1>4 DEF IInv, AdjacencyInv
<1>7. FailureInv'
  BY <1>1, <1>4 DEF IInv, FailureInv
<1>8. QED
  BY <1>2, <1>3, <1>5, <1>6, <1>7 DEF IInv

\* A pair that throws keeps its items from the others, as the executor keeps them.
LEMMA ThrowKeeps ==
  ASSUME IInv, NEW o \in Coupled, step[o] = "fuse", Executor!Throw(o),
         UNCHANGED <<localVars, resultVars, givenVars>>
  PROVE  IInv'
<1>1. /\ o \in running
      /\ running' = running \ {o} /\ failed' = failed \cup {o}
      /\ UNCHANGED <<done, outcome, step, attempt, twoShapes, fuser, ctype, shapes,
                     myCollisionInfos, myAdjacencyMatrix, unfused,
                     imprinting, suppressed>>
  BY DEF Executor!Throw, localVars, resultVars, givenVars
<1>2. TypeOK'
  BY <1>1 DEF IInv, TypeOK
<1>3. ExecutorInv'
  <2>1. running' \cup failed' = running \cup failed
    BY <1>1
  <2>2. \A q \in Coupled :
          /\ step[q] = "idle" <=> q \notin running' \cup done \cup failed'
          /\ step[q] \in {"apart", "record"} => q \in running'
          /\ q \in failed' => step[q] = "fuse"
    BY <1>1 DEF IInv, ExecutorInv
  <2>3. QED
    BY <1>1, <2>1, <2>2 DEF IInv, ExecutorInv
<1>4. QED
  BY <1>1, <1>2, <1>3, ExecutorKeeps

LEMMA ReturnKeeps ==
  ASSUME IInv, NEW o \in Coupled, Return(o)
  PROVE  IInv'
<1>1. /\ step[o] = "return" /\ o \in running
      /\ running' = running \ {o} /\ done' = done \cup {o}
      /\ UNCHANGED <<failed, outcome, step, attempt, twoShapes, fuser, ctype, shapes,
                     myCollisionInfos, myAdjacencyMatrix, unfused,
                     imprinting, suppressed>>
  BY DEF Return, Executor!Return, localVars, resultVars, givenVars
<1>2. TypeOK'
  BY <1>1 DEF IInv, TypeOK
<1>3. ExecutorInv'
  <2>1. running' \cup failed' \subseteq running \cup failed
    BY <1>1
  <2>2. \A q \in Coupled :
          /\ step[q] = "idle" <=> q \notin running' \cup done' \cup failed
          /\ step[q] \in {"apart", "record"} => q \in running'
          /\ q \in done' => step[q] = "return"
    BY <1>1 DEF IInv, ExecutorInv
  <2>3. QED
    BY <1>1, <2>1, <2>2 DEF IInv, ExecutorInv
<1>4. QED
  BY <1>1, <1>2, <1>3, ExecutorKeeps DEF Return

LEMMA FinishKeeps ==
  ASSUME IInv, Finish \/ UNCHANGED vars
  PROVE  IInv'
<1>1. /\ UNCHANGED <<running, done, failed>>
      /\ outcome' \in {"processing", "output", "rethrown"}
      /\ UNCHANGED <<localVars, resultVars, givenVars>>
  BY DEF Finish, Executor!PrepareOutput, Executor!Rethrow, vars, executorVars,
         IInv, TypeOK
<1>2. UNCHANGED <<step, attempt, twoShapes, fuser, ctype, shapes, myCollisionInfos,
                  myAdjacencyMatrix, unfused, imprinting, suppressed>>
  BY <1>1 DEF localVars, resultVars, givenVars
<1>3. TypeOK'
  BY <1>1, <1>2 DEF IInv, TypeOK
<1>4. ExecutorInv'
  BY <1>1, <1>2 DEF IInv, ExecutorInv
<1>5. QED
  BY <1>1, <1>3, <1>4, ExecutorKeeps
-----------------------------------------------------------------------------
(* The theorems *)

LEMMA InitIInv == Init => IInv
<1> SUFFICES ASSUME Init PROVE IInv
  OBVIOUS
<1>1. /\ running = {} /\ done = {} /\ failed = {} /\ outcome = "processing"
      /\ imprinting \in BOOLEAN /\ suppressed \in SuppressedSets
      /\ step = [o \in Coupled |-> "idle"]
      /\ attempt = [o \in Coupled |-> 0]
      /\ twoShapes = [o \in Coupled |-> Uncopied]
      /\ fuser = [o \in Coupled |-> NoFuser]
      /\ ctype = [o \in Coupled |-> NoCollision]
      /\ shapes = [i \in Items |-> {}]
      /\ myCollisionInfos = [i \in Items |-> <<>>]
      /\ myAdjacencyMatrix = {} /\ unfused = {}
  BY DEF Init, Executor!Init
<1>2. TypeOK
  <2>1. Uncopied \in [Items -> SUBSET Coupled]
    BY DEF Uncopied
  <2>2. myCollisionInfos \in [Items -> Seq(Entries)]
    BY <1>1
  <2>3. NoCollision \in CollisionTypes /\ 0 \in 0 .. LastAttempt
    BY DEF CollisionTypes, LastAttempt
  <2>4. QED
    BY <1>1, <2>1, <2>2, <2>3 DEF TypeOK
<1>3. ExecutorInv /\ CopyInv
  BY <1>1 DEF ExecutorInv, CopyInv
<1>4. ImprintInv
  BY <1>1 DEF ImprintInv, Imprinted
<1>5. /\ \A i \in Items : DOMAIN myCollisionInfos[i] = {}
      /\ \A i, j \in Items : \A t : ~HasEntry(i, j, t)
  BY <1>1 DEF HasEntry
<1>6. \A o \in Coupled : o[1] \in Items /\ o[2] \in Items
  BY PairFacts
<1>7. RowsInv
  BY <1>5, <1>6 DEF RowsInv, RowsMirrored
<1>8. AdjacencyInv
  BY <1>1, <1>5, <1>6 DEF AdjacencyInv
<1>9. FailureInv
  BY <1>1 DEF FailureInv
<1>10. QED
  BY <1>2, <1>3, <1>4, <1>7, <1>8, <1>9 DEF IInv

LEMMA StepIInv ==
  ASSUME IInv, [Next]_vars
  PROVE  IInv'
<1>1. ASSUME NEW o \in Coupled, Fuse(o) \/ FuseThrows(o)
      PROVE  IInv'
  <2>1. /\ step[o] = "fuse" /\ o \in running /\ UNCHANGED givenVars
        /\ Attempt(o) \/ (Executor!Throw(o) /\ UNCHANGED <<localVars, resultVars>>)
    BY <1>1, FuseOutcome DEF IInv
  <2>2. CASE Attempt(o)
    BY <2>1, <2>2, RetryKeeps, ContactKeeps, NoContactKeeps, OtherTypeKeeps DEF Attempt
  <2>3. CASE Executor!Throw(o) /\ UNCHANGED <<localVars, resultVars>>
    BY <2>1, <2>3, ThrowKeeps
  <2>4. QED
    BY <2>1, <2>2, <2>3
<1>2. ASSUME NEW o \in Coupled, Begin(o) \/ Pair(o)
      PROVE  IInv'
  BY <1>1, <1>2, BeginKeeps, RecordKeeps, ApartKeeps, ReturnKeeps DEF Pair
<1>3. QED
  BY <1>2, FinishKeeps DEF Next, Terminated

\* The inductive invariant holds of every state.
THEOREM Invariance == Spec => []IInv
<1>1. QED
  BY InitIInv, StepIInv, PTL DEF Spec

\* Every variable keeps its type: a row never has an item that is not one, or a type
\* that the enumeration does not have.
THEOREM TypeCorrect == Spec => []TypeOK
<1>1. IInv => TypeOK
  BY DEF IInv
<1>2. QED
  BY <1>1, Invariance, PTL

\* What the second round relies on: however often a pair was retried, it is in a row at
\* most once, and the other item's row says the same of it.
THEOREM Mirrored == Spec => []RowsMirrored
<1>1. IInv => RowsMirrored
  BY DEF IInv, RowsInv
<1>2. QED
  BY <1>1, Invariance, PTL

\* The adjacency matrix has exactly the pairs whose rows say FaceContact, in both
\* directions, once the pair has been processed.
THEOREM ResultsAgree == Spec => []AdjacencyIsFaceContact
<1>1. ASSUME IInv, NEW o \in done
      PROVE  /\ <<o[1], o[2]>> \in myAdjacencyMatrix <=> HasEntry(o[1], o[2], FaceContact)
             /\ <<o[2], o[1]>> \in myAdjacencyMatrix <=> HasEntry(o[2], o[1], FaceContact)
  <2>1. o \in Coupled /\ step[o] = "return"
    BY <1>1 DEF IInv, TypeOK, ExecutorInv
  <2>2. o[1] \in Items /\ o[2] \in Items /\ o = <<o[1], o[2]>>
    BY <2>1, PairFacts
  <2>3. /\ o \in myAdjacencyMatrix <=> HasEntry(o[1], o[2], FaceContact)
        /\ <<o[2], o[1]>> \in myAdjacencyMatrix <=> o \in myAdjacencyMatrix
    BY <1>1, <2>1 DEF IInv, AdjacencyInv
  <2>4. HasEntry(o[1], o[2], FaceContact) <=> HasEntry(o[2], o[1], FaceContact)
    BY <1>1, <2>2, MirroredEntry DEF IInv, RowsInv
  <2>5. QED
    BY <2>2, <2>3, <2>4
<1>2. IInv => AdjacencyIsFaceContact
  BY <1>1 DEF AdjacencyIsFaceContact
<1>3. QED
  BY <1>2, Invariance, PTL

\* Both parts of a contact carry the imprint, no other part does, and nothing that is
\* suppressed is imprinted.
THEOREM BothImprinted == Spec => []Imprinted
<1>1. IInv => Imprinted
  BY DEF IInv, ImprintInv
<1>2. QED
  BY <1>1, Invariance, PTL

\* A pair that no attempt could fuse ends as an Error in the rows of both its items.
THEOREM FailuresRecorded == Spec => []FailureRecorded
<1>1. ASSUME IInv, NEW o \in done \cap unfused
      PROVE  HasEntry(o[1], o[2], Error) /\ HasEntry(o[2], o[1], Error)
  <2>1. o \in Coupled /\ step[o] = "return"
    BY <1>1 DEF IInv, TypeOK, ExecutorInv
  <2>2. HasEntry(o[1], o[2], Error)
    BY <1>1, <2>1 DEF IInv, FailureInv
  <2>3. o[1] \in Items /\ o[2] \in Items
    BY <2>1, PairFacts
  <2>4. QED
    BY <1>1, <2>2, <2>3, MirroredEntry DEF IInv, RowsInv
<1>2. IInv => FailureRecorded
  BY <1>1 DEF FailureRecorded
<1>3. QED
  BY <1>2, Invariance, PTL

\* A contact never writes back a shape that another pair has imprinted since it was
\* copied: no step takes an imprint from any item.
LEMMA ContactAccumulates ==
  ASSUME IInv, NEW o \in running, Contact(o), step[o] = "fuse", NEW i \in Items
  PROVE  shapes[i] \subseteq shapes'[i]
<1>1. CASE ~imprinting
  BY <1>1 DEF Contact, Imprint
<1>2. CASE imprinting
  <2>1. shapes' = [k \in Items |-> IF k \in {o[1], o[2]} THEN twoShapes[o][k] \cup {o}
                                                         ELSE shapes[k]]
    BY <1>2 DEF Contact, Imprint
  <2>2. \A k \in {o[1], o[2]} : twoShapes[o][k] = shapes[k]
    BY DEF IInv, CopyInv
  <2>3. shapes'[i] = IF i \in {o[1], o[2]} THEN twoShapes[o][i] \cup {o} ELSE shapes[i]
    BY <2>1
  <2>4. QED
    BY <2>2, <2>3
<1>3. QED
  BY <1>1, <1>2

\* However the pairs interleave, a part keeps every imprint that was made on it.
THEOREM Accumulates == Spec => ImprintsAccumulate
<1>1. ASSUME IInv, [Next]_vars, NEW i \in Items
      PROVE  shapes[i] \subseteq shapes'[i]
  <2>1. ASSUME NEW o \in Coupled, Fuse(o) \/ FuseThrows(o)
        PROVE  shapes[i] \subseteq shapes'[i]
    <3>1. /\ step[o] = "fuse" /\ o \in running
          /\ Attempt(o) \/ UNCHANGED resultVars
      BY <1>1, <2>1, FuseOutcome DEF IInv
    <3>2. CASE Contact(o)
      BY <1>1, <3>1, <3>2, ContactAccumulates
    <3>3. CASE Retry(o) \/ NoContact(o) \/ OtherType(o) \/ UNCHANGED resultVars
      BY <3>3 DEF Retry, NoContact, OtherType, resultVars
    <3>4. QED
      BY <3>1, <3>2, <3>3 DEF Attempt
  <2>2. ASSUME NEW o \in Coupled, Begin(o) \/ Record(o) \/ Apart(o) \/ Return(o)
        PROVE  shapes' = shapes
    BY <2>2 DEF Begin, Record, Apart, Return, resultVars
  <2>3. ASSUME Finish \/ UNCHANGED vars
        PROVE  shapes' = shapes
    BY <2>3 DEF Finish, resultVars, vars
  <2>4. QED
    BY <1>1, <2>1, <2>2, <2>3 DEF Next, Pair, Terminated
<1>2. ASSUME IInv, [Next]_vars
      PROVE  [\A i \in Items : shapes[i] \subseteq shapes'[i]]_vars
  BY <1>1, <1>2
<1>3. QED
  BY <1>2, Invariance, PTL DEF Spec, ImprintsAccumulate
=============================================================================
