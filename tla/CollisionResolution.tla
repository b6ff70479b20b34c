------------------------ MODULE CollisionResolution -------------------------
(***************************************************************************)
(* CollisionDetector::prepareOutput(): the serial second round that        *)
(* decides, from the collision types found between pairs of items, which   *)
(* items are suppressed.  processCollisionInfo(i) runs for every item in   *)
(* increasing order, then checkCollisionResolution() once.                 *)
(*                                                                         *)
(* A row of myCollisionInfos has at most one entry per other item and row  *)
(* j mirrors row i (RowsMirrored of CollisionDetection), and the second    *)
(* round uses a row only through counts, existence and maximum: the rows   *)
(* are a symmetric matrix of collision types here.                         *)
(***************************************************************************)
EXTENDS Naturals, FiniteSets

CONSTANTS ItemCount,    \* items are 0 .. ItemCount-1
          Types,        \* the collision types that the first round can report
          Volumes,      \* the possible volumes of the items, as functions
          Settings      \* the possible parameters of the processor

\* enum CollisionType (GeometryTypes.h)
NoCollision  == 0
Clearance    == 1
FaceContact  == 8
Interference == 32
Coincidence  == 64
Enclosure    == 128
Error        == 256
Unknown      == 1024

Items == 0 .. ItemCount - 1

ASSUME ResolutionAssumption ==
  /\ ItemCount \in Nat \ {0}
  /\ Types \subseteq {Clearance, FaceContact, Interference, Coincidence, Enclosure,
                      Error, Unknown}
  /\ Volumes \subseteq [Items -> Nat]
  /\ Settings \subseteq [suppressFloating : BOOLEAN, suppressErroneous : BOOLEAN,
                         ignoreUnknown : BOOLEAN]

VARIABLES myCollisionInfos, \* myCollisionInfos[i][j]: the type of the pair
          volume,           \* myGeometryProperties[i].volume
          setting,          \* the parameters
          myShapeErrors,    \* "NoError", or why the item is suppressed
          given,            \* history: the items suppressed before this round
          next              \* the loop over the items; ItemCount + 1 at the end

inputVars == <<myCollisionInfos, volume, setting, given>>
vars == <<inputVars, myShapeErrors, next>>

TypeOK ==
  /\ myCollisionInfos \in [Items -> [Items -> Types \cup {NoCollision}]]
  /\ volume \in Volumes
  /\ setting \in Settings
  /\ myShapeErrors \in [Items -> {"NoError", "Earlier", "FloatingShape", "Interference",
                                 "Coincidence", "Enclosure", "UnknownError"}]
  /\ given \in SUBSET Items
  /\ next \in 0 .. ItemCount + 1

\* The coupled pairs.
Upper == {p \in Items \X Items : p[1] < p[2]}

Init ==
  /\ volume \in Volumes
  /\ setting \in Settings
  /\ given \in SUBSET Items
  /\ \E t \in [Upper -> Types \cup {NoCollision}] :
        /\ myCollisionInfos = [i \in Items |-> [j \in Items |->
              IF i < j THEN t[<<i, j>>] ELSE IF j < i THEN t[<<j, i>>] ELSE NoCollision]]
  /\ myShapeErrors = [i \in Items |-> IF i \in given THEN "Earlier" ELSE "NoError"]
  /\ next = 0

itemSuppressed(i) == myShapeErrors[i] # "NoError"

\* The row of item i: NoCollision is not saved.
Row(i) == {j \in Items : myCollisionInfos[i][j] # NoCollision}

countType(i, type) == Cardinality({j \in Items : myCollisionInfos[i][j] = type})

hasAtLeastType(i, type) == \E j \in Row(i) : myCollisionInfos[i][j] >= type

\* to_ShapeErrorType
ErrorOf(type) ==
  CASE type = Interference -> "Interference"
    [] type = Coincidence  -> "Coincidence"
    [] type = Enclosure    -> "Enclosure"
    [] type = Error        -> "UnknownError"

\* suppressItemImpl, which every caller guards with "not itemSuppressed"
SuppressUnlessDone(errors, i, type) ==
  IF errors[i] = "NoError" THEN [errors EXCEPT ![i] = ErrorOf(type)] ELSE errors

Advance == next' = next + 1 /\ UNCHANGED inputVars

\* processCollisionInfo(i): resolved before by suppressing this item
AlreadySuppressed(i) ==
  /\ itemSuppressed(i)
  /\ UNCHANGED myShapeErrors

\* ... row.size() == 0: a part without any contact
Floating(i) ==
  /\ ~itemSuppressed(i)
  /\ Row(i) = {}
  /\ myShapeErrors' = IF setting.suppressFloating
                        THEN [myShapeErrors EXCEPT ![i] = "FloatingShape"]
                        ELSE myShapeErrors

\* Mutant: the bigger of an enclosure.
VictimOuter(i, j) ==
  IF myCollisionInfos[i][j] = Enclosure /\ volume[i] < volume[j] THEN j ELSE i

\* The smaller of an enclosure, else the item itself.
Victim(i, j) ==
  IF myCollisionInfos[i][j] = Enclosure /\ volume[i] >= volume[j] THEN j ELSE i

\* ... row.size() == 1
OnePartner(i) ==
  /\ ~itemSuppressed(i)
  /\ \E j \in Items :
       /\ Row(i) = {j}
       /\ LET type == myCollisionInfos[i][j] IN
            myShapeErrors' =
              IF type \in {Enclosure, Error, Interference, Coincidence}
                THEN SuppressUnlessDone(myShapeErrors, Victim(i, j), type)
                ELSE myShapeErrors

\* resolveCollisionError(i, type): the item with more of these than every partner
\* has of the type it shares with i
Resolve(errors, i, type) ==
  IF countType(i, type) > 0 /\
     \A j \in Row(i) : countType(i, type) > countType(j, myCollisionInfos[i][j])
    THEN SuppressUnlessDone(errors, i, type)
    ELSE errors

\* Mutant: both items of a pair of duplicates.
DuplicateBoth(i) == \E j \in Row(i) : myCollisionInfos[i][j] = Coincidence

\* The items before the last one of a group of duplicates.
Duplicate(i) == \E j \in Row(i) : myCollisionInfos[i][j] = Coincidence /\ i < j

\* ... row.size() > 1
SeveralPartners(i) ==
  /\ ~itemSuppressed(i)
  /\ Cardinality(Row(i)) > 1
  /\ LET deduplicated == IF Duplicate(i) THEN [myShapeErrors EXCEPT ![i] = "Coincidence"]
                                         ELSE myShapeErrors
     IN myShapeErrors' =
          IF hasAtLeastType(i, Interference)
            THEN Resolve(Resolve(deduplicated, i, Interference), i, Error)
            ELSE myShapeErrors

processCollisionInfo(i) ==
  /\ next = i
  /\ \/ AlreadySuppressed(i)
     \/ Floating(i)
     \/ OnePartner(i)
     \/ SeveralPartners(i)
  /\ Advance

\* Mutant: an interference is overlooked.
UnresolvedStrict(i, j) ==
  /\ ~itemSuppressed(i) /\ ~itemSuppressed(j)
  /\ \/ myCollisionInfos[i][j] = Unknown /\ ~setting.ignoreUnknown
     \/ /\ myCollisionInfos[i][j] > Interference /\ myCollisionInfos[i][j] < Unknown
        /\ setting.suppressErroneous

\* Mutant: a contact is taken for a collision.
UnresolvedContact(i, j) ==
  /\ ~itemSuppressed(i) /\ ~itemSuppressed(j)
  /\ \/ myCollisionInfos[i][j] = Unknown /\ ~setting.ignoreUnknown
     \/ /\ myCollisionInfos[i][j] >= FaceContact /\ myCollisionInfos[i][j] < Unknown
        /\ setting.suppressErroneous

\* The pairs that checkCollisionResolution finds still unresolved
Unresolved(i, j) ==
  /\ ~itemSuppressed(i) /\ ~itemSuppressed(j)
  /\ \/ myCollisionInfos[i][j] = Unknown /\ ~setting.ignoreUnknown
     \/ /\ myCollisionInfos[i][j] >= Interference /\ myCollisionInfos[i][j] < Unknown
        /\ setting.suppressErroneous

\* Both items of every unresolved pair are suppressed; unresolvedItems is
\* complete before the first of them is.
checkCollisionResolution ==
  /\ next = ItemCount
  /\ myShapeErrors' = [i \in Items |->
        IF \E j \in Items : Unresolved(i, j) THEN "UnknownError" ELSE myShapeErrors[i]]
  /\ Advance

Terminated == next = ItemCount + 1 /\ UNCHANGED vars

Next ==
  \/ \E i \in Items : processCollisionInfo(i)
  \/ checkCollisionResolution
  \/ Terminated

Spec == Init /\ [][Next]_vars
-----------------------------------------------------------------------------
(* Properties *)

Resolved == next = ItemCount + 1

\* An item in a collision that this round treats as an error.
Conflict(i, j) == myCollisionInfos[i][j] >= Interference

\* What goes on to imprinting and merging is free of collisions, whatever the
\* first round found (checkCollisionResolution: "if still not resolved, just
\* suppress").
CollisionFree ==
  Resolved /\ setting.suppressErroneous /\ ~setting.ignoreUnknown =>
     \A i, j \in Items : Conflict(i, j) => itemSuppressed(i) \/ itemSuppressed(j)

\* No part of the assembly is lost without a reason: an item suppressed by this
\* round collides with another, or floats and floating parts are not wanted.
OnlyForAReason ==
  \A i \in Items : itemSuppressed(i) /\ i \notin given =>
     \/ \E j \in Items : Conflict(i, j)
     \/ Row(i) = {} /\ setting.suppressFloating

\* Two parts in the same place are related to everything else alike, if the tolerances
\* of the first round make no difference between them.
Alike(i, j) == \A k \in Items \ {i, j} : myCollisionInfos[i][k] = myCollisionInfos[j][k]

\* Of a group of parts that are found to be identical, are in contact with something
\* else and have no other trouble, the order of suppression leaves one
\* (EnclosureTest in test_collision.py: 4 of 6 solids remain).
OneDuplicateKept ==
  Resolved =>
     \A i \in Items :
       LET group == {i} \cup {j \in Items : myCollisionInfos[i][j] = Coincidence}
       IN ( /\ Cardinality(group) > 1
            /\ group \cap given = {}
            /\ \A j \in group \ {i} : Alike(i, j)
            /\ Cardinality(Row(i)) > 1
            /\ \A j \in Row(i) : Conflict(i, j) => myCollisionInfos[i][j] = Coincidence )
          => Cardinality({j \in group : ~itemSuppressed(j)}) = 1

\* A part enclosed in another one and related to nothing else is removed, the one
\* around it stays unless it has trouble of its own.
EnclosedRemoved ==
  Resolved =>
     \A i, j \in Items :
       ( /\ myCollisionInfos[i][j] = Enclosure
         /\ volume[i] < volume[j]
         /\ Row(i) = {j}
         /\ {i, j} \cap given = {} )
       => /\ itemSuppressed(i)
          /\ (\A k \in Row(j) \ {i} : ~Conflict(j, k)) => ~itemSuppressed(j)

\* "remove either is fine, but avoid removing twice!" (CollisionDetector.cpp:743):
\* of two identical parts that collide with nothing else one is kept.
RemoveEitherNotBoth ==
  Resolved =>
     \A i, j \in Items :
       ( /\ myCollisionInfos[i][j] = Coincidence
         /\ \A k \in Items \ {i, j} : ~Conflict(i, k)
         /\ {i, j} \cap given = {} )
       => ~(itemSuppressed(i) /\ itemSuppressed(j))

=============================================================================
