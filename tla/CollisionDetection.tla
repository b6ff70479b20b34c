------------------------- MODULE CollisionDetection -------------------------
(***************************************************************************)
(* The parallel first round of CollisionDetector and GeometryImprinter:    *)
(* processItemPair(i, j) and the retry loop of detectCollision(i, j), run  *)
(* by any executor that keeps ExecutorContract, so that operations on      *)
(* disjoint pairs interleave.                                              *)
(*                                                                         *)
(* Open CASCADE is external: a general fuse returns any result that        *)
(* calcCollisionType() tells apart, or throws; a distance is any of        *)
(* Distances, or throws.  A shape is the set of imprints it carries.       *)
(***************************************************************************)
EXTENDS Naturals, Sequences, FiniteSets

CONSTANTS Items,
          Coupled,         \* the non-zero elements of the coupling matrix
          SuppressedSets   \* the sets of items that earlier processors suppress

ASSUME DetectionAssumption ==
  /\ IsFiniteSet(Items)
  /\ Coupled \subseteq Items \X Items
  /\ \A o \in Coupled : o[1] # o[2] /\ <<o[2], o[1]>> \notin Coupled
  /\ SuppressedSets \subseteq SUBSET Items

\* enum CollisionType (GeometryTypes.h)
NoCollision      == 0
Clearance        == 1
VertexContact    == 2
FaceContact      == 8
WeakInterference == 16
Interference     == 32
Coincidence      == 64
Enclosure        == 128
Error            == 256
Unknown          == 1024

CollisionTypes == {NoCollision, Clearance, VertexContact, FaceContact, WeakInterference,
                   Interference, Coincidence, Enclosure, Error, Unknown}

VARIABLES
  running, done, failed, outcome,  \* the executor's, see ExecutorContract
  imprinting,       \* GeometryImprinter (TRUE) or CollisionDetector
  suppressed,       \* items that itemSuppressed() holds for, fixed in this round
  step,             \* where processItemPair is for each pair
  attempt,          \* the loop counter r of detectCollision
  twoShapes,        \* the shapes copied at its start
  fuser,            \* pFuser and pieces: the last fuse that returned
  ctype,            \* its ctype
  shapes,           \* the item's shape: the imprints made on it
  myCollisionInfos, \* myCollisionInfos[i]: sequence of <<j, type>>
  myAdjacencyMatrix,
  unfused           \* history: pairs whose last attempt gave no usable fuse

executorVars == <<running, done, failed, outcome>>
localVars    == <<step, attempt, twoShapes, fuser, ctype>>
resultVars   == <<shapes, myCollisionInfos, myAdjacencyMatrix, unfused>>
givenVars    == <<imprinting, suppressed>>
vars == <<executorVars, localVars, resultVars, givenVars>>

Executor == INSTANCE ExecutorContract WITH
  Ops       <- Coupled,
  Footprint <- [o \in Coupled |-> {o[1], o[2]}]

\* calcCollisionType(): what it can say of a fuse that gives so many solids.
TypesOf(pieces) ==
  CASE pieces = 0 -> {Error}
    [] pieces = 1 -> {Coincidence}
    [] pieces = 2 -> {NoCollision, VertexContact, FaceContact, Enclosure, Unknown, Error}
    [] pieces = 3 -> {NoCollision, WeakInterference, Interference, Error}

\* generalFuse(): "3" stands for any number greater than 2.
Fused == UNION {[pieces : {n}, type : TypesOf(n), hasErrors : BOOLEAN] : n \in 0 .. 3}
NoFuser == [pieces |-> 0, type |-> NoCollision, hasErrors |-> FALSE]

Distances == {"zero", "near", "far", "throws"}

LastAttempt == 1   \* NB_RETRY - 1

\* A row has the other item of a pair and the type of the pair.
Entries == Items \X CollisionTypes

TypeOK ==
  /\ running \in SUBSET Coupled /\ done \in SUBSET Coupled /\ failed \in SUBSET Coupled
  /\ outcome \in {"processing", "output", "rethrown"}
  /\ imprinting \in BOOLEAN
  /\ suppressed \in SUBSET Items
  /\ step \in [Coupled -> {"idle", "fuse", "record", "apart", "return"}]
  /\ attempt \in [Coupled -> 0 .. LastAttempt]
  /\ twoShapes \in [Coupled -> [Items -> SUBSET Coupled]]
  /\ fuser \in [Coupled -> Fused \cup {NoFuser}]
  /\ ctype \in [Coupled -> CollisionTypes]
  /\ shapes \in [Items -> SUBSET Coupled]
  /\ myCollisionInfos \in [Items -> Seq(Entries)]
  /\ myAdjacencyMatrix \in SUBSET (Items \X Items)
  /\ unfused \in SUBSET Coupled

Uncopied == [i \in Items |-> {}]

Init ==
  /\ Executor!Init
  /\ imprinting \in BOOLEAN
  /\ suppressed \in SuppressedSets
  /\ step = [o \in Coupled |-> "idle"]
  /\ attempt = [o \in Coupled |-> 0]
  /\ twoShapes = [o \in Coupled |-> Uncopied]
  /\ fuser = [o \in Coupled |-> NoFuser]
  /\ ctype = [o \in Coupled |-> NoCollision]
  /\ shapes = [i \in Items |-> {}]
  /\ myCollisionInfos = [i \in Items |-> <<>>]
  /\ myAdjacencyMatrix = {}
  /\ unfused = {}

\* The pair is pushed to the rows of both its items.
Push(o, type) ==
  myCollisionInfos' = [myCollisionInfos EXCEPT
      ![o[1]] = Append(@, <<o[2], type>>),
      ![o[2]] = Append(@, <<o[1], type>>)]

\* calcClearance(i, j): the Error that it returns for a distance that is zero or cannot
\* be computed is not used by either caller, nor is it in the rows.
calcClearance(o, dist) ==
  IF dist = "near" THEN Push(o, Clearance) ELSE UNCHANGED myCollisionInfos

\* processItemPair(i, j) is called: the bound boxes overlap, or are only within
\* the clearance threshold, or neither; the imprinter leaves suppressed items.
\* detectCollision copies the two shapes.
Begin(o) ==
  /\ Executor!Begin(o)
  /\ \/ /\ imprinting => {o[1], o[2]} \cap suppressed = {}
        /\ step' = [step EXCEPT ![o] = "fuse"]
        /\ twoShapes' = [twoShapes EXCEPT ![o] =
              [i \in Items |-> IF i \in {o[1], o[2]} THEN shapes[i] ELSE {}]]
     \/ /\ imprinting /\ {o[1], o[2]} \cap suppressed # {}
        /\ step' = [step EXCEPT ![o] = "return"]
        /\ UNCHANGED twoShapes
     \/ /\ \E boxes \in {"apart", "return"} : step' = [step EXCEPT ![o] = boxes]
        /\ UNCHANGED twoShapes
  /\ UNCHANGED <<attempt, fuser, ctype, resultVars, givenVars>>

\* Mutant: without the break for what is no error.
AgainAlways(o, type, completed) == ~completed /\ attempt[o] < LastAttempt

\* The loop goes on while the pair is an error and pieces.size() was not 2.
Again(o, type, completed) ==
  type >= Error /\ ~completed /\ attempt[o] < LastAttempt

\* Mutant: the counter is not increased.
LoopUncounted(o, type, f, completed) ==
  IF Again(o, type, completed)
    THEN fuser' = [fuser EXCEPT ![o] = f] /\ UNCHANGED <<step, attempt, twoShapes, ctype>>
    ELSE /\ step' = [step EXCEPT ![o] = "record"]
         /\ ctype' = [ctype EXCEPT ![o] = type]
         /\ UNCHANGED <<attempt, fuser, twoShapes>>

\* The end of one attempt; f is what pFuser and pieces are by now.
Loop(o, type, f, completed) ==
  IF Again(o, type, completed)
    THEN /\ attempt' = [attempt EXCEPT ![o] = @ + 1]
         /\ fuser' = [fuser EXCEPT ![o] = f]
         /\ UNCHANGED <<step, twoShapes, ctype>>
    ELSE /\ step' = [step EXCEPT ![o] = "record"]
         /\ attempt' = [attempt EXCEPT ![o] = 0]
         /\ fuser' = [fuser EXCEPT ![o] = NoFuser]
         /\ twoShapes' = [twoShapes EXCEPT ![o] = Uncopied]
         /\ ctype' = [ctype EXCEPT ![o] = type]

\* Mutant: setItem() on the first item only.
ImprintFirst(o) ==
  shapes' = IF imprinting THEN [shapes EXCEPT ![o[1]] = twoShapes[o][o[1]] \cup {o}]
                          ELSE shapes

\* setItem() on both items, with the pieces made from the copies.
Imprint(o) ==
  shapes' = IF imprinting
              THEN [i \in Items |-> IF i \in {o[1], o[2]} THEN twoShapes[o][i] \cup {o}
                                                          ELSE shapes[i]]
              ELSE shapes

\* solveErrorByDistanceCheck() runs for an error of the last attempt.
DistanceChecked(o, f) == f.type >= Error /\ attempt[o] = LastAttempt

\* The type that the attempt ends with: the distance check finds that items in
\* error are apart, a weak interference is always fixed to two pieces that touch.
Corrected(o, f, dist) ==
  CASE DistanceChecked(o, f) /\ dist = "near" -> Clearance
    [] DistanceChecked(o, f) /\ dist = "far"  -> NoCollision
    [] f.type = WeakInterference -> FaceContact
    [] OTHER -> f.type

\* pFuser->HasErrors() counts only in the last attempt.
GiveUp(o, f) ==
  /\ f.hasErrors /\ attempt[o] = LastAttempt
  /\ unfused' = unfused \cup {o}
  /\ Loop(o, Error, f, FALSE)
  /\ UNCHANGED <<executorVars, shapes, myCollisionInfos, myAdjacencyMatrix>>

\* The distance of solveErrorByDistanceCheck is outside any try block.
DistanceThrows(o, f) ==
  /\ DistanceChecked(o, f)
  /\ ~f.hasErrors
  /\ Executor!Throw(o)
  /\ UNCHANGED <<localVars, resultVars>>

Classify(o, f, completed) ==
  /\ ~(f.hasErrors /\ attempt[o] = LastAttempt)
  /\ \E dist \in Distances :
       LET type == Corrected(o, f, dist)
       IN /\ DistanceChecked(o, f) => dist # "throws"
          /\ \/ /\ type = FaceContact
                /\ Imprint(o)
                /\ myAdjacencyMatrix' = myAdjacencyMatrix \cup {o, <<o[2], o[1]>>}
                /\ UNCHANGED myCollisionInfos
             \/ /\ type = NoCollision
                /\ calcClearance(o, dist)
                /\ UNCHANGED <<shapes, myAdjacencyMatrix>>
             \/ /\ type \notin {FaceContact, NoCollision}
                /\ UNCHANGED <<shapes, myAdjacencyMatrix, myCollisionInfos>>
          /\ Loop(o, type, f, completed)
  /\ UNCHANGED <<executorVars, unfused>>

AfterFuse(o, f, completed) ==
  GiveUp(o, f) \/ DistanceThrows(o, f) \/ Classify(o, f, completed)

\* The general fuse with the tolerance of this attempt returns ...
Fuse(o) ==
  /\ step[o] = "fuse"
  /\ o \in running
  /\ \E f \in Fused : AfterFuse(o, f, f.pieces = 2)
  /\ UNCHANGED givenVars

\* ... or throws: with a fuse of the previous attempt at hand the loop body goes
\* on with that one.
FuseThrows(o) ==
  /\ step[o] = "fuse"
  /\ o \in running
  /\ IF fuser[o] # NoFuser
       THEN AfterFuse(o, fuser[o], FALSE)
       ELSE /\ Loop(o, Error, NoFuser, FALSE)
            /\ unfused' = IF attempt[o] = LastAttempt THEN unfused \cup {o} ELSE unfused
            /\ UNCHANGED <<executorVars, shapes, myCollisionInfos, myAdjacencyMatrix>>
  /\ UNCHANGED givenVars

\* Mutant: contacts are not saved.
RecordedCollisions(type) == type > FaceContact

\* Mutant: errors are left to a later branch.
RecordedNoErrors(type) == type >= FaceContact /\ type < Error

\* "FaceContact must be saved to help resolve collision"
Recorded(type) == type >= FaceContact

\* After the loop.
Record(o) ==
  /\ step[o] = "record"
  /\ IF Recorded(ctype[o]) THEN Push(o, ctype[o]) ELSE UNCHANGED myCollisionInfos
  /\ step' = [step EXCEPT ![o] = "return"]
  /\ ctype' = [ctype EXCEPT ![o] = NoCollision]
  /\ UNCHANGED <<executorVars, attempt, twoShapes, fuser, shapes, myAdjacencyMatrix,
                 unfused, givenVars>>

\* Only the clearance of items whose bound boxes do not overlap.
Apart(o) ==
  /\ step[o] = "apart"
  /\ \E dist \in Distances : calcClearance(o, dist)
  /\ step' = [step EXCEPT ![o] = "return"]
  /\ UNCHANGED <<executorVars, attempt, twoShapes, fuser, ctype, shapes,
                 myAdjacencyMatrix, unfused, givenVars>>

Return(o) ==
  /\ step[o] = "return"
  /\ Executor!Return(o)
  /\ UNCHANGED <<localVars, resultVars, givenVars>>

\* prepareOutput() with the rows, which CollisionResolution takes from here, or
\* the exception.
Finish ==
  /\ Executor!PrepareOutput \/ Executor!Rethrow
  /\ UNCHANGED <<localVars, resultVars, givenVars>>

\* After an exception some pairs may never be begun.
Terminated == outcome # "processing" /\ UNCHANGED vars

Pair(o) == Fuse(o) \/ FuseThrows(o) \/ Record(o) \/ Apart(o) \/ Return(o)

Next ==
  \/ \E o \in Coupled : Begin(o) \/ Pair(o)
  \/ Finish
  \/ Terminated

\* A thread goes on with the operation it is in (Open CASCADE returns or throws),
\* and the executor begins what it can and returns: EventuallyReturns of the
\* scheduling modules.
Fairness ==
  /\ \A o \in Coupled : WF_vars(Pair(o))
  /\ WF_vars(\E o \in Coupled : Begin(o))
  /\ WF_vars(Finish)

Spec == Init /\ [][Next]_vars /\ Fairness
-----------------------------------------------------------------------------
(* Properties *)

HasEntry(i, j, type) == \E n \in DOMAIN myCollisionInfos[i] : myCollisionInfos[i][n] = <<j, type>>

\* What the second round relies on: a pair is in a row at most once, whatever was
\* retried, and the other item's row says the same of it.
RowsMirrored ==
  \A i, j \in Items :
     /\ \A m, n \in DOMAIN myCollisionInfos[i] :
           myCollisionInfos[i][m][1] = j /\ myCollisionInfos[i][n][1] = j => m = n
     /\ \A n \in DOMAIN myCollisionInfos[i] :
           myCollisionInfos[i][n][1] = j => HasEntry(j, i, myCollisionInfos[i][n][2])

\* The two results of the round agree: the adjacency matrix, from which parts are
\* merged, has exactly the pairs whose rows say FaceContact, in both directions.
AdjacencyIsFaceContact ==
  \A o \in done :
     LET i == o[1]  j == o[2] IN
     /\ <<i, j>> \in myAdjacencyMatrix <=> HasEntry(i, j, FaceContact)
     /\ <<j, i>> \in myAdjacencyMatrix <=> HasEntry(j, i, FaceContact)

\* A part that touches several others carries every imprint: a pair never writes
\* back a shape made from a copy that another pair has imprinted since.
ImprintsAccumulate == [][\A i \in Items : shapes[i] \subseteq shapes'[i]]_vars

\* Both parts of a contact carry the imprint, and nothing suppressed does.
Imprinted ==
  imprinting =>
     \A o \in Coupled :
        IF o \in myAdjacencyMatrix
          THEN o \in shapes[o[1]] /\ o \in shapes[o[2]] /\ {o[1], o[2]} \cap suppressed = {}
          ELSE \A i \in Items : o \notin shapes[i]

\* A pair that no attempt could fuse is not taken for unrelated: its rows say
\* Error ("try different tolerance to correct CollisionType::Error").
FailureRecorded ==
  \A o \in done \cap unfused :
     HasEntry(o[1], o[2], Error) /\ HasEntry(o[2], o[1], Error)

\* The round ends, with a result or an exception.
EventuallyReturns == <>(outcome # "processing")
=============================================================================
