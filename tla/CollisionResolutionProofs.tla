---------------------- MODULE CollisionResolutionProofs ----------------------
(***************************************************************************)
(* Machine-checked proofs about the second round of the collision          *)
(* detector, for every number of items, every relation of types between    *)
(* them, every setting and every set of items suppressed earlier.          *)
(***************************************************************************)
EXTENDS CollisionResolution, FiniteSetTheorems, TLAPS

USE ResolutionAssumption

\* Both rows of a pair say the same.
Symmetric ==
  \A i, j \in Items : /\ myCollisionInfos[i][i] = NoCollision
                      /\ myCollisionInfos[i][j] = myCollisionInfos[j][i]

\* EnclosedRemoved is about such an item and the one around it,
EnclosedIn(i, j) ==
  /\ myCollisionInfos[i][j] = Enclosure
  /\ volume[i] < volume[j]
  /\ Row(i) = {j}
  /\ {i, j} \cap given = {}

\* OneDuplicateKept about such a group,
Group(i) == {i} \cup {j \in Items : myCollisionInfos[i][j] = Coincidence}

Duplicated(i) ==
  /\ Cardinality(Group(i)) > 1
  /\ Group(i) \cap given = {}
  /\ \A j \in Group(i) \ {i} : Alike(i, j)
  /\ Cardinality(Row(i)) > 1
  /\ \A j \in Row(i) : Conflict(i, j) => myCollisionInfos[i][j] = Coincidence

\* of which the loop takes the items one by one.
EnclosedInv ==
  \A i, j \in Items : EnclosedIn(i, j) =>
     /\ next > i => itemSuppressed(i)
     /\ (\A k \in Row(j) \ {i} : ~Conflict(j, k)) => ~itemSuppressed(j)

DuplicatesInv ==
  \A i \in Items : Duplicated(i) =>
     /\ next > i /\ Duplicate(i) => itemSuppressed(i)
     /\ ~Duplicate(i) => ~itemSuppressed(i)

\* The inductive invariant.
IInv ==
  /\ TypeOK
  /\ Symmetric
  /\ OnlyForAReason
  /\ EnclosedInv
  /\ DuplicatesInv
  /\ CollisionFree
-----------------------------------------------------------------------------
(* Facts about sets *)

ShapeErrors == {"NoError", "Earlier", "FloatingShape", "Interference", "Coincidence",
                "Enclosure", "UnknownError"}

LEMMA ItemsFinite == \A S \in SUBSET Items : IsFiniteSet(S)
<1>1. IsFiniteSet(Items)
  BY FS_Interval DEF Items
<1>2. QED
  BY <1>1, FS_Subset

\* A set with more than one item has two, and conversely.
LEMMA MoreThanOne ==
  ASSUME NEW S \in SUBSET Items
  PROVE  /\ Cardinality(S) > 1 => \A x \in S : \E y \in S : y # x
         /\ \A x, y \in S : x # y => Cardinality(S) > 1
         /\ Cardinality(S) > 1 => S # {}
         /\ Cardinality(S) > 0 => S # {}
<1>1. IsFiniteSet(S) /\ Cardinality(S) \in Nat
  BY ItemsFinite, FS_CardinalityType
<1>2. Cardinality({}) = 0
  BY FS_EmptySet
<1>3. ASSUME Cardinality(S) > 1, NEW x \in S
      PROVE  \E y \in S : y # x
  <2>1. Cardinality({x}) = 1
    BY FS_Singleton
  <2>2. ASSUME S = {x} PROVE FALSE
    <3>1. Cardinality(S) = 1
      BY <2>1, <2>2, Zenon
    <3>2. QED
      BY <1>3, <3>1
  <2>3. QED
    BY <2>2
<1>4. ASSUME NEW x \in S, NEW y \in S, x # y
      PROVE  Cardinality(S) > 1
  <2>1. Cardinality(S) # 0
    BY <1>1, FS_EmptySet
  <2>2. Cardinality(S) # 1
    BY <1>1, <1>4, FS_Singleton
  <2>3. QED
    BY <1>1, <2>1, <2>2
<1>5. QED
  BY <1>2, <1>3, <1>4

\* A set of items that is not empty has a last one.
LEMMA LastItem ==
  ASSUME NEW S \in SUBSET Items, S # {}
  PROVE  \E m \in S : \A j \in S : j <= m
<1> DEFINE T == {n \in Nat : ItemCount - 1 - n \in S}
           R == OpToRel(<, Nat)
<1>1. PICK x \in S : TRUE
  OBVIOUS
<1>2. x \in Items
  OBVIOUS
<1>3. ItemCount - 1 - (ItemCount - 1 - x) = x /\ ItemCount - 1 - x \in Nat
  BY <1>2 DEF Items
<1>4. T # {} /\ T \subseteq Nat
  BY <1>3
<1>5. IsWellFoundedOn(R, Nat)
  BY NatLessThanWellFounded
<1> HIDE DEF R
<1>6. PICK n \in T : \A k \in T : ~(<<k, n>> \in R)
  BY <1>4, <1>5, WFMin
<1>7. \A k \in T : n <= k
  <2>1. \A j, k \in Nat : <<j, k>> \in R <=> j < k
    BY DEF R, OpToRel
  <2>2. ASSUME NEW k \in T PROVE n <= k
    <3>1. k \in Nat /\ n \in Nat
      BY <1>4
    <3>2. ~(<<k, n>> \in R)
      BY <1>6
    <3>3. ~(k < n)
      BY <2>1, <3>1, <3>2
    <3>4. QED
      BY <3>1, <3>3
  <2>3. QED
    BY <2>2
<1>8. ASSUME NEW j \in S PROVE j <= ItemCount - 1 - n
  <2>1. j \in Items
    OBVIOUS
  <2>2. ItemCount - 1 - (ItemCount - 1 - j) = j /\ ItemCount - 1 - j \in Nat
    BY <2>1 DEF Items
  <2>3. ItemCount - 1 - j \in T
    BY <2>2
  <2>4. n <= ItemCount - 1 - j
    BY <1>7, <2>3
  <2>5. j \in Nat /\ n \in Nat
    BY <2>1, <1>4 DEF Items
  <2>6. QED
    BY <2>4, <2>5
<1>9. QED
  BY <1>8
-----------------------------------------------------------------------------
(* Facts about the operators *)

LEMMA TypeValues ==
  /\ NoCollision \notin Types
  /\ \A t \in Types \cup {NoCollision} : t \in Nat /\ t <= Unknown
  /\ \A t \in {Interference, Coincidence, Enclosure, Error, Unknown} : t >= Interference
  /\ \A t \in {Interference, Coincidence, Enclosure, Error} : ErrorOf(t) \in ShapeErrors \ {"NoError"}
  /\ Interference > NoCollision
BY DEF NoCollision, Clearance, FaceContact, Interference, Coincidence, Enclosure, Error,
       Unknown, ErrorOf, ShapeErrors

\* What a row says, and that the other row says it too.
LEMMA RowFacts ==
  ASSUME TypeOK, Symmetric, NEW i \in Items, NEW j \in Items
  PROVE  /\ myCollisionInfos[i][j] \in Types \cup {NoCollision}
         /\ myCollisionInfos[i][j] = myCollisionInfos[j][i]
         /\ Conflict(i, j) => j \in Row(i) /\ i # j /\ Conflict(j, i)
         /\ j \in Row(i) <=> i \in Row(j)
         /\ volume[i] \in Nat
<1>1. myCollisionInfos[i][j] \in Types \cup {NoCollision} /\ volume[i] \in Nat
  BY DEF TypeOK
<1>2. myCollisionInfos[i][j] = myCollisionInfos[j][i]
  BY DEF Symmetric
<1>3. Conflict(i, j) => myCollisionInfos[i][j] # NoCollision
  BY <1>1 DEF Conflict, Interference, NoCollision
<1>4. myCollisionInfos[i][i] = NoCollision
  BY DEF Symmetric
<1>5. QED
  BY <1>1, <1>2, <1>3, <1>4 DEF Row, Conflict

\* An item of which there is a type has one of that type.
LEMMA Counted ==
  ASSUME NEW i, NEW type, countType(i, type) > 0
  PROVE  \E j \in Items : myCollisionInfos[i][j] = type
<1>1. {j \in Items : myCollisionInfos[i][j] = type} # {}
  BY MoreThanOne DEF countType
<1>2. QED
  BY <1>1

LEMMA SuppressFacts ==
  ASSUME NEW errors \in [Items -> ShapeErrors], NEW i \in Items,
         NEW type \in {Interference, Coincidence, Enclosure, Error}
  PROVE  LET after == SuppressUnlessDone(errors, i, type)
         IN  /\ after \in [Items -> ShapeErrors]
             /\ after[i] # "NoError"
             /\ \A k \in Items \ {i} : after[k] = errors[k]
BY TypeValues DEF SuppressUnlessDone

LEMMA ResolveFacts ==
  ASSUME NEW errors \in [Items -> ShapeErrors], NEW i \in Items,
         NEW type \in {Interference, Error}
  PROVE  LET after == Resolve(errors, i, type)
         IN  /\ after \in [Items -> ShapeErrors]
             /\ errors[i] # "NoError" => after[i] # "NoError"
             /\ after[i] # "NoError" =>
                   errors[i] # "NoError" \/ \E j \in Items : myCollisionInfos[i][j] = type
             /\ \A k \in Items \ {i} : after[k] = errors[k]
<1> DEFINE after == Resolve(errors, i, type)
<1>1. CASE after = errors
  BY <1>1
<1>2. CASE after = SuppressUnlessDone(errors, i, type) /\ countType(i, type) > 0
  BY <1>2, SuppressFacts, Counted
<1>3. after = errors \/ (after = SuppressUnlessDone(errors, i, type) /\ countType(i, type) > 0)
  BY DEF Resolve
<1>4. QED
  BY <1>1, <1>2, <1>3
-----------------------------------------------------------------------------
(* What the loop does with an item *)

\* Why processing item i may suppress item k.
Reason(i, k) ==
  \/ k = i /\ Row(i) = {} /\ setting.suppressFloating
  \/ \E j \in Items : Row(i) = {j} /\ Conflict(i, j) /\ k = Victim(i, j)
  \/ /\ k = i
     /\ Cardinality(Row(i)) > 1
     /\ Duplicate(i) \/ \E j \in Items : myCollisionInfos[i][j] \in {Interference, Error}

LEMMA ProcessOutcome ==
  ASSUME TypeOK, Symmetric,
         NEW i \in Items, processCollisionInfo(i)
  PROVE  /\ next = i /\ next' = i + 1
         /\ UNCHANGED <<myCollisionInfos, volume, setting, given>>
         /\ myShapeErrors' \in [Items -> ShapeErrors]
         /\ \A k \in Items : itemSuppressed(k) => itemSuppressed(k)'
         /\ \A k \in Items : itemSuppressed(k)' => itemSuppressed(k) \/ Reason(i, k)
         /\ \A j \in Items : Row(i) = {j} /\ myCollisionInfos[i][j] = Enclosure =>
               itemSuppressed(i) \/ myShapeErrors'[Victim(i, j)] # "NoError"
         /\ Cardinality(Row(i)) > 1 /\ Duplicate(i) => itemSuppressed(i)'
<1>1. /\ next = i /\ next' = i + 1
      /\ UNCHANGED <<myCollisionInfos, volume, setting, given>>
  BY DEF processCollisionInfo, Advance, inputVars
<1>2. myShapeErrors \in [Items -> ShapeErrors]
  BY DEF TypeOK, ShapeErrors
<1>3. /\ Row(i) \in SUBSET Items
      /\ Cardinality({}) = 0
      /\ \A j : Cardinality({j}) = 1 /\ {j} # {}
  BY FS_EmptySet, FS_Singleton DEF Row
<1> DEFINE Goal == /\ myShapeErrors' \in [Items -> ShapeErrors]
                   /\ \A k \in Items : itemSuppressed(k) => itemSuppressed(k)'
                   /\ \A k \in Items : itemSuppressed(k)' => itemSuppressed(k) \/ Reason(i, k)
                   /\ \A j \in Items : Row(i) = {j} /\ myCollisionInfos[i][j] = Enclosure =>
                         itemSuppressed(i) \/ myShapeErrors'[Victim(i, j)] # "NoError"
                   /\ Cardinality(Row(i)) > 1 /\ Duplicate(i) => itemSuppressed(i)'
<1>4. ASSUME AlreadySuppressed(i) PROVE Goal
  BY <1>2, <1>4 DEF AlreadySuppressed, itemSuppressed
<1>5. ASSUME Floating(i) PROVE Goal
  <2>1. /\ Row(i) = {} /\ ~(Cardinality(Row(i)) > 1)
        /\ \A j : Row(i) # {j}
    BY <1>3, <1>5 DEF Floating
  <2>2. CASE setting.suppressFloating
    <3>1. myShapeErrors' = [myShapeErrors EXCEPT ![i] = "FloatingShape"]
      BY <1>5, <2>2 DEF Floating
    <3>2. QED
      BY <1>2, <2>1, <2>2, <3>1 DEF itemSuppressed, Reason, ShapeErrors
  <2>3. CASE ~setting.suppressFloating
    BY <1>2, <1>5, <2>1, <2>3 DEF Floating, itemSuppressed
  <2>4. QED
    BY <2>2, <2>3
<1>6. ASSUME OnePartner(i) PROVE Goal
  <2>1. PICK j \in Items :
          /\ Row(i) = {j}
          /\ myShapeErrors' =
               IF myCollisionInfos[i][j] \in {Enclosure, Error, Interference, Coincidence}
                 THEN SuppressUnlessDone(myShapeErrors, Victim(i, j), myCollisionInfos[i][j])
                 ELSE myShapeErrors
    BY <1>6 DEF OnePartner
  <2>2. ~(Cardinality(Row(i)) > 1) /\ \A k : Row(i) = {k} => k = j
    <3>1. Cardinality(Row(i)) = 1
      BY <1>3, <2>1, Zenon
    <3>2. \A k : Row(i) = {k} => k = j
      BY <2>1
    <3>3. QED
      BY <3>1, <3>2
  <2>3. Victim(i, j) \in Items
    BY DEF Victim
  <2>4. CASE myCollisionInfos[i][j] \in {Enclosure, Error, Interference, Coincidence}
    <3>1. Conflict(i, j)
      BY <2>4, TypeValues DEF Conflict
    <3>2. Reason(i, Victim(i, j))
      BY <2>1, <3>1 DEF Reason
    <3>3. /\ myShapeErrors' \in [Items -> ShapeErrors]
          /\ myShapeErrors'[Victim(i, j)] # "NoError"
          /\ \A k \in Items \ {Victim(i, j)} : myShapeErrors'[k] = myShapeErrors[k]
      BY <1>2, <2>1, <2>3, <2>4, SuppressFacts
    <3>4. QED
      BY <2>1, <2>2, <3>2, <3>3 DEF itemSuppressed
  <2>5. CASE myCollisionInfos[i][j] \notin {Enclosure, Error, Interference, Coincidence}
    BY <1>2, <2>1, <2>2, <2>5 DEF itemSuppressed
  <2>6. QED
    BY <2>4, <2>5
<1>7. ASSUME SeveralPartners(i) PROVE Goal
  <2>1. Cardinality(Row(i)) > 1 /\ \A j : Row(i) # {j}
    <3>1. Cardinality(Row(i)) > 1
      BY <1>7 DEF SeveralPartners
    <3>2. ASSUME NEW j, Row(i) = {j} PROVE FALSE
      <4>1. Cardinality(Row(i)) = 1
        BY <1>3, <3>2, Zenon
      <4>2. QED
        BY <3>1, <4>1
    <3>3. QED
      BY <3>1, <3>2
  <2> DEFINE deduplicated == IF Duplicate(i) THEN [myShapeErrors EXCEPT ![i] = "Coincidence"]
                                             ELSE myShapeErrors
             once == Resolve(deduplicated, i, Interference)
             twice == Resolve(once, i, Error)
  <2>2. myShapeErrors' = IF hasAtLeastType(i, Interference) THEN twice ELSE myShapeErrors
    BY <1>7 DEF SeveralPartners
  <2>3. /\ deduplicated \in [Items -> ShapeErrors]
        /\ Duplicate(i) => deduplicated[i] # "NoError"
        /\ ~Duplicate(i) => deduplicated[i] = myShapeErrors[i]
        /\ itemSuppressed(i) => deduplicated[i] # "NoError"
        /\ \A k \in Items \ {i} : deduplicated[k] = myShapeErrors[k]
    BY <1>2 DEF itemSuppressed, ShapeErrors
  <2> HIDE DEF deduplicated
  <2>4. /\ once \in [Items -> ShapeErrors]
        /\ deduplicated[i] # "NoError" => once[i] # "NoError"
        /\ once[i] # "NoError" =>
              deduplicated[i] # "NoError"
                 \/ \E j \in Items : myCollisionInfos[i][j] = Interference
        /\ \A k \in Items \ {i} : once[k] = deduplicated[k]
    BY <2>3, ResolveFacts
  <2> HIDE DEF once
  <2>5. /\ twice \in [Items -> ShapeErrors]
        /\ once[i] # "NoError" => twice[i] # "NoError"
        /\ twice[i] # "NoError" =>
              once[i] # "NoError" \/ \E j \in Items : myCollisionInfos[i][j] = Error
        /\ \A k \in Items \ {i} : twice[k] = once[k]
    BY <2>4, ResolveFacts
  <2> HIDE DEF twice
  <2>6. CASE hasAtLeastType(i, Interference)
    <3>1. myShapeErrors' = twice
      BY <2>2, <2>6
    <3>2. \A k \in Items \ {i} : myShapeErrors'[k] = myShapeErrors[k]
      BY <2>3, <2>4, <2>5, <3>1
    <3>3. itemSuppressed(i)' => itemSuppressed(i) \/ Reason(i, i)
      BY <2>1, <2>3, <2>4, <2>5, <3>1 DEF itemSuppressed, Reason
    <3>4. /\ itemSuppressed(i) => itemSuppressed(i)'
          /\ Duplicate(i) => itemSuppressed(i)'
      BY <2>3, <2>4, <2>5, <3>1 DEF itemSuppressed
    <3>5. QED
      BY <2>1, <2>5, <3>1, <3>2, <3>3, <3>4 DEF itemSuppressed
  <2>7. CASE ~hasAtLeastType(i, Interference)
    <3>1. myShapeErrors' = myShapeErrors
      BY <2>2, <2>7
    <3>2. ~Duplicate(i)
      BY <2>7, TypeValues DEF Duplicate, hasAtLeastType
    <3>3. QED
      BY <1>2, <2>1, <3>1, <3>2 DEF itemSuppressed
  <2>8. QED
    BY <2>6, <2>7
<1>8. Goal
  BY <1>4, <1>5, <1>6, <1>7 DEF processCollisionInfo
<1>9. QED
  BY <1>1, <1>8
-----------------------------------------------------------------------------
(* Items in the same place *)

\* The duplicates of a duplicated item are duplicated in the same group.
LEMMA SameGroup ==
  ASSUME TypeOK, Symmetric,
         NEW i \in Items, Duplicated(i),
         NEW k \in Items, myCollisionInfos[i][k] = Coincidence
  PROVE  Duplicated(k) /\ Group(k) = Group(i)
<1>1. /\ i # k
      /\ myCollisionInfos[k][i] = Coincidence
      /\ myCollisionInfos[i][i] = NoCollision /\ myCollisionInfos[k][k] = NoCollision
      /\ \A l \in Items \ {i, k} : myCollisionInfos[i][l] = myCollisionInfos[k][l]
  <2>1. i # k
    BY DEF Symmetric, Coincidence, NoCollision
  <2>2. Alike(i, k)
    BY <2>1 DEF Duplicated, Group
  <2>3. QED
    BY <2>1, <2>2 DEF Symmetric, Alike
<1>2. Coincidence # NoCollision /\ ~(NoCollision >= Interference)
  BY DEF Coincidence, NoCollision, Interference
<1>3. Group(k) = Group(i)
  <2>1. \A l \in Items \ {i, k} :
           myCollisionInfos[i][l] = Coincidence <=> myCollisionInfos[k][l] = Coincidence
    BY <1>1
  <2>2. QED
    BY <1>1, <2>1 DEF Group
<1>4. Row(i) \in SUBSET Items /\ Row(k) \in SUBSET Items
  BY DEF Row
<1>5. k \in Row(i) /\ i \in Row(k)
  BY <1>1, <1>2 DEF Row
<1>6. PICK l \in Row(i) : l # k
  BY <1>4, <1>5, MoreThanOne DEF Duplicated
<1>7. l \in Row(k) /\ l # i
  BY <1>1, <1>2, <1>6 DEF Row
<1>8. Cardinality(Row(k)) > 1
  BY <1>4, <1>5, <1>7, MoreThanOne
<1>9. ASSUME NEW j \in Row(k), Conflict(k, j)
      PROVE  myCollisionInfos[k][j] = Coincidence
  <2>1. CASE j = i
    BY <1>1, <2>1
  <2>2. CASE j # i
    <3>1. j \in Items /\ j # k
      BY <1>1, <1>2, <1>9 DEF Row, Conflict
    <3>2. myCollisionInfos[i][j] = myCollisionInfos[k][j]
      BY <1>1, <2>2, <3>1
    <3>3. j \in Row(i) /\ Conflict(i, j)
      BY <1>9, <3>1, <3>2 DEF Row, Conflict
    <3>4. QED
      BY <3>2, <3>3 DEF Duplicated
  <2>3. QED
    BY <2>1, <2>2
<1>10. ASSUME NEW j \in Group(k) \ {k}
       PROVE  Alike(k, j)
  <2>1. CASE j = i
    BY <1>1, <2>1 DEF Alike
  <2>2. CASE j # i
    <3>1. /\ j \in Items /\ Alike(i, j)
          /\ myCollisionInfos[i][j] = Coincidence
      BY <1>3, <1>10, <2>2 DEF Group, Duplicated
    <3>2. ASSUME NEW m \in Items \ {k, j}
          PROVE  myCollisionInfos[k][m] = myCollisionInfos[j][m]
      <4>1. CASE m = i
        BY <1>1, <3>1, <4>1 DEF Symmetric
      <4>2. CASE m # i
        BY <1>1, <3>1, <4>2 DEF Alike
      <4>3. QED
        BY <4>1, <4>2
    <3>3. QED
      BY <3>2 DEF Alike
  <2>3. QED
    BY <2>1, <2>2
<1>11. QED
  BY <1>3, <1>8, <1>9, <1>10 DEF Duplicated
-----------------------------------------------------------------------------
(* Every step preserves the invariant *)

\* What depends on the input only.
LEMMA SameInput ==
  ASSUME UNCHANGED <<myCollisionInfos, volume, setting, given>>
  PROVE  /\ Symmetric' <=> Symmetric
         /\ \A i : Row(i)' = Row(i) /\ Group(i)' = Group(i)
         /\ \A i, j : Conflict(i, j)' <=> Conflict(i, j)
         /\ \A i, j : EnclosedIn(i, j)' <=> EnclosedIn(i, j)
         /\ \A i : Duplicated(i)' <=> Duplicated(i)
         /\ \A i : Duplicate(i)' <=> Duplicate(i)
BY DEF Symmetric, Row, Group, Conflict, EnclosedIn, Duplicated, Duplicate, Alike

LEMMA ProcessReason ==
  ASSUME IInv, NEW i \in Items, processCollisionInfo(i)
  PROVE  OnlyForAReason'
<1>1. /\ UNCHANGED <<myCollisionInfos, volume, setting, given>>
      /\ \A k \in Items : itemSuppressed(k)' => itemSuppressed(k) \/ Reason(i, k)
  BY ProcessOutcome DEF IInv
<1>2. ASSUME NEW k \in Items, Reason(i, k)
      PROVE  (\E j \in Items : Conflict(k, j)) \/ (Row(k) = {} /\ setting.suppressFloating)
  <2>1. ASSUME NEW j \in Items, Conflict(i, j), k = Victim(i, j)
        PROVE  \E l \in Items : Conflict(k, l)
    BY <2>1, RowFacts DEF IInv, Victim
  <2>2. ASSUME Duplicate(i) \/ \E j \in Items : myCollisionInfos[i][j] \in {Interference, Error}
        PROVE  \E j \in Items : Conflict(i, j)
    BY <2>2, TypeValues DEF Duplicate, Row, Conflict
  <2>3. QED
    BY <1>2, <2>1, <2>2 DEF Reason
<1>3. \A k \in Items : itemSuppressed(k)' /\ k \notin given =>
        (\E j \in Items : Conflict(k, j)) \/ (Row(k) = {} /\ setting.suppressFloating)
  BY <1>1, <1>2 DEF IInv, OnlyForAReason
<1>4. \A k \in Items : itemSuppressed(k)' /\ k \notin given' =>
        (\E j \in Items : Conflict(k, j)') \/ (Row(k)' = {} /\ setting'.suppressFloating)
  BY <1>1, <1>3, SameInput
<1>5. QED
  BY <1>4 DEF OnlyForAReason

\* The inner one is the victim when its turn comes, the outer one never.
LEMMA ProcessEnclosed ==
  ASSUME IInv, NEW p \in Items, processCollisionInfo(p)
  PROVE  EnclosedInv'
<1>1. /\ next = p /\ next' = p + 1
      /\ UNCHANGED <<myCollisionInfos, volume, setting, given>>
      /\ \A k \in Items : itemSuppressed(k) => itemSuppressed(k)'
      /\ \A k \in Items : itemSuppressed(k)' => itemSuppressed(k) \/ Reason(p, k)
      /\ \A j \in Items : Row(p) = {j} /\ myCollisionInfos[p][j] = Enclosure =>
            itemSuppressed(p) \/ myShapeErrors'[Victim(p, j)] # "NoError"
  BY ProcessOutcome DEF IInv
<1>2. ASSUME NEW i \in Items, NEW j \in Items, EnclosedIn(i, j)
      PROVE  /\ p + 1 > i => itemSuppressed(i)'
             /\ (\A k \in Row(j) \ {i} : ~Conflict(j, k)) => ~itemSuppressed(j)'
  <2>1. /\ myCollisionInfos[i][j] = Enclosure /\ myCollisionInfos[j][i] = Enclosure
        /\ i # j /\ i \in Row(j) /\ Row(i) = {j}
        /\ volume[i] \in Nat /\ volume[j] \in Nat /\ volume[i] < volume[j]
    <3>1. Conflict(i, j)
      BY <1>2, TypeValues DEF EnclosedIn, Conflict
    <3>2. QED
      BY <1>2, <3>1, RowFacts DEF EnclosedIn, IInv
  <2>2. /\ next > i => itemSuppressed(i)
        /\ (\A k \in Row(j) \ {i} : ~Conflict(j, k)) => ~itemSuppressed(j)
    BY <1>2 DEF IInv, EnclosedInv
  <2>3. p + 1 > i => itemSuppressed(i)'
    <3>1. CASE i = p
      <4>1. Victim(i, j) = i
        BY <2>1 DEF Victim
      <4>2. itemSuppressed(i) \/ myShapeErrors'[i] # "NoError"
        BY <1>1, <2>1, <3>1, <4>1
      <4>3. QED
        BY <1>1, <4>2 DEF itemSuppressed
    <3>2. CASE i # p
      <4>1. p + 1 > i => next > i
        BY <1>1, <3>2 DEF Items
      <4>2. QED
        BY <1>1, <2>2, <4>1
    <3>3. QED
      BY <3>1, <3>2
  <2>4. ASSUME \A k \in Row(j) \ {i} : ~Conflict(j, k), Reason(p, j)
        PROVE  FALSE
    <3>1. \A k \in Items : Conflict(j, k) => k = i
      BY <2>4, RowFacts DEF IInv
    <3>2. Enclosure \notin {Coincidence, Interference, Error}
      BY DEF Enclosure, Coincidence, Interference, Error
    <3>3. CASE p = j
      <4>1. Row(j) # {}
        BY <2>1
      <4>2. ASSUME NEW k \in Items, Row(j) = {k}, j = Victim(j, k) PROVE FALSE
        <5>1. k = i
          BY <2>1, <4>2
        <5>2. QED
          BY <2>1, <4>2, <5>1 DEF Victim
      <4>3. ASSUME NEW k \in Items,
                   myCollisionInfos[j][k] \in {Coincidence, Interference, Error}
            PROVE  FALSE
        <5>1. Conflict(j, k)
          BY <4>3, TypeValues DEF Conflict
        <5>2. QED
          BY <2>1, <3>1, <3>2, <4>3, <5>1
      <4>4. ~Duplicate(j)
        BY <4>3 DEF Duplicate, Row
      <4>5. QED
        BY <2>4, <3>3, <4>1, <4>2, <4>3, <4>4 DEF Reason
    <3>4. CASE p # j
      <4>1. PICK k \in Items : Row(p) = {k} /\ Conflict(p, k) /\ j = Victim(p, k)
        BY <2>4, <3>4 DEF Reason
      <4>2. k = j /\ myCollisionInfos[p][j] = Enclosure /\ volume[p] >= volume[j]
        BY <3>4, <4>1 DEF Victim
      <4>3. Conflict(j, p)
        BY <4>1, <4>2, RowFacts DEF IInv
      <4>4. p = i
        BY <3>1, <4>3
      <4>5. QED
        BY <2>1, <4>2, <4>4
    <3>5. QED
      BY <3>3, <3>4
  <2>5. QED
    BY <1>1, <2>2, <2>3, <2>4
<1>3. QED
  BY <1>1, <1>2, SameInput DEF EnclosedInv

\* A duplicate that is not the last one is suppressed when its turn comes, the last
\* one never.
LEMMA ProcessDuplicates ==
  ASSUME IInv, NEW p \in Items, processCollisionInfo(p)
  PROVE  DuplicatesInv'
<1>1. /\ next = p /\ next' = p + 1
      /\ UNCHANGED <<myCollisionInfos, volume, setting, given>>
      /\ \A k \in Items : itemSuppressed(k) => itemSuppressed(k)'
      /\ \A k \in Items : itemSuppressed(k)' => itemSuppressed(k) \/ Reason(p, k)
      /\ Cardinality(Row(p)) > 1 /\ Duplicate(p) => itemSuppressed(p)'
  BY ProcessOutcome DEF IInv
<1>2. ASSUME NEW i \in Items, Duplicated(i)
      PROVE  /\ p + 1 > i /\ Duplicate(i) => itemSuppressed(i)'
             /\ ~Duplicate(i) => ~itemSuppressed(i)'
  <2>1. /\ next > i /\ Duplicate(i) => itemSuppressed(i)
        /\ ~Duplicate(i) => ~itemSuppressed(i)
    BY <1>2 DEF IInv, DuplicatesInv
  <2>2. ASSUME p + 1 > i, Duplicate(i) PROVE itemSuppressed(i)'
    <3>1. CASE i = p
      BY <1>1, <1>2, <2>2, <3>1 DEF Duplicated
    <3>2. CASE i # p
      <4>1. next > i
        BY <1>1, <2>2, <3>2 DEF Items
      <4>2. QED
        BY <1>1, <2>1, <2>2, <4>1
    <3>3. QED
      BY <3>1, <3>2
  <2>3. ASSUME ~Duplicate(i), Reason(p, i) PROVE FALSE
    <3>1. \A k \in Items : Conflict(i, k) => myCollisionInfos[i][k] = Coincidence
      BY <1>2, RowFacts DEF Duplicated, IInv
    <3>2. Coincidence \notin {Enclosure, Interference, Error}
      BY DEF Enclosure, Coincidence, Interference, Error
    <3>3. CASE p = i
      <4>1. Row(i) \in SUBSET Items
        BY DEF Row
      <4>2. Row(i) # {}
        BY <1>2, <4>1, MoreThanOne DEF Duplicated
      <4>3. ASSUME NEW k \in Items, Row(i) = {k} PROVE FALSE
        <5>1. \E l \in Row(i) : l # k
          BY <1>2, <4>1, <4>3, MoreThanOne DEF Duplicated
        <5>2. QED
          BY <4>3, <5>1
      <4>4. ASSUME NEW k \in Items, myCollisionInfos[i][k] \in {Interference, Error}
            PROVE  FALSE
        <5>1. Conflict(i, k)
          BY <4>4, TypeValues DEF Conflict
        <5>2. QED
          BY <3>1, <3>2, <4>4, <5>1
      <4>5. QED
        BY <2>3, <3>3, <4>2, <4>3, <4>4 DEF Reason
    <3>4. CASE p # i
      <4>1. PICK k \in Items : Row(p) = {k} /\ Conflict(p, k) /\ i = Victim(p, k)
        BY <2>3, <3>4 DEF Reason
      <4>2. k = i /\ myCollisionInfos[p][i] = Enclosure
        BY <3>4, <4>1 DEF Victim
      <4>3. Conflict(i, p) /\ myCollisionInfos[i][p] = Enclosure
        BY <4>1, <4>2, RowFacts DEF IInv
      <4>4. QED
        BY <3>1, <3>2, <4>3
    <3>5. QED
      BY <3>3, <3>4
  <2>4. QED
    BY <1>1, <2>1, <2>2, <2>3
<1>3. QED
  BY <1>1, <1>2, SameInput DEF DuplicatesInv

LEMMA ProcessKeeps ==
  ASSUME IInv, NEW i \in Items, processCollisionInfo(i)
  PROVE  IInv'
<1>1. /\ next = i /\ next' = i + 1
      /\ UNCHANGED <<myCollisionInfos, volume, setting, given>>
      /\ myShapeErrors' \in [Items -> ShapeErrors]
  BY ProcessOutcome DEF IInv
<1>2. TypeOK'
  BY <1>1 DEF IInv, TypeOK, ShapeErrors, Items
<1>3. CollisionFree'
  BY <1>1 DEF CollisionFree, Resolved, Items
<1>4. Symmetric'
  BY <1>1, SameInput DEF IInv
<1>5. QED
  BY <1>2, <1>3, <1>4, ProcessReason, ProcessEnclosed, ProcessDuplicates DEF IInv

\* The pairs that are left are conflicts, and after them none is.
LEMMA CheckOutcome ==
  ASSUME TypeOK, Symmetric, checkCollisionResolution
  PROVE  /\ next = ItemCount /\ next' = ItemCount + 1
         /\ UNCHANGED <<myCollisionInfos, volume, setting, given>>
         /\ myShapeErrors' \in [Items -> ShapeErrors]
         /\ \A i \in Items : itemSuppressed(i)' <=>
               itemSuppressed(i) \/ \E j \in Items : Unresolved(i, j)
         /\ \A i, j \in Items : Unresolved(i, j) => Conflict(i, j)
<1>1. /\ next = ItemCount /\ next' = ItemCount + 1
      /\ UNCHANGED <<myCollisionInfos, volume, setting, given>>
      /\ myShapeErrors' = [i \in Items |->
            IF \E j \in Items : Unresolved(i, j) THEN "UnknownError" ELSE myShapeErrors[i]]
  BY DEF checkCollisionResolution, Advance, inputVars
<1>2. myShapeErrors \in [Items -> ShapeErrors]
  BY DEF TypeOK, ShapeErrors
<1>3. myShapeErrors' \in [Items -> ShapeErrors]
  BY <1>1, <1>2 DEF ShapeErrors
<1>4. \A i \in Items : itemSuppressed(i)' <=>
         itemSuppressed(i) \/ \E j \in Items : Unresolved(i, j)
  BY <1>1 DEF itemSuppressed
<1>5. \A i, j \in Items : Unresolved(i, j) => Conflict(i, j)
  BY TypeValues DEF Unresolved, Conflict
<1>6. QED
  BY <1>1, <1>3, <1>4, <1>5

LEMMA CheckKeeps ==
  ASSUME IInv, checkCollisionResolution
  PROVE  IInv'
<1>1. /\ next = ItemCount /\ next' = ItemCount + 1
      /\ UNCHANGED <<myCollisionInfos, volume, setting, given>>
      /\ myShapeErrors' \in [Items -> ShapeErrors]
      /\ \A i \in Items : itemSuppressed(i)' <=>
            itemSuppressed(i) \/ \E j \in Items : Unresolved(i, j)
      /\ \A i, j \in Items : Unresolved(i, j) => Conflict(i, j)
  BY CheckOutcome DEF IInv
<1>2. \A i \in Items : ItemCount > i /\ i \in Nat
  BY DEF Items
<1>3. TypeOK'
  BY <1>1 DEF IInv, TypeOK, ShapeErrors
<1>4. Symmetric'
  BY <1>1, SameInput DEF IInv
<1>5. OnlyForAReason'
  <2>1. \A i \in Items : itemSuppressed(i)' /\ i \notin given =>
          (\E j \in Items : Conflict(i, j)) \/ (Row(i) = {} /\ setting.suppressFloating)
    BY <1>1 DEF IInv, OnlyForAReason
  <2>2. \A i \in Items : itemSuppressed(i)' /\ i \notin given' =>
          (\E j \in Items : Conflict(i, j)') \/ (Row(i)' = {} /\ setting'.suppressFloating)
    BY <1>1, <2>1, SameInput
  <2>3. QED
    BY <2>2 DEF OnlyForAReason
<1>6. EnclosedInv'
  <2>1. ASSUME NEW i \in Items, NEW j \in Items, EnclosedIn(i, j)
        PROVE  /\ itemSuppressed(i)'
               /\ (\A k \in Row(j) \ {i} : ~Conflict(j, k)) => ~itemSuppressed(j)'
    <3>1. /\ itemSuppressed(i)
          /\ (\A k \in Row(j) \ {i} : ~Conflict(j, k)) => ~itemSuppressed(j)
      BY <1>1, <1>2, <2>1 DEF IInv, EnclosedInv
    <3>2. ASSUME NEW k \in Items, Unresolved(j, k), \A l \in Row(j) \ {i} : ~Conflict(j, l)
          PROVE  FALSE
      <4>1. Conflict(j, k) /\ k \in Row(j)
        BY <1>1, <3>2, RowFacts DEF IInv
      <4>2. k = i
        BY <3>2, <4>1
      <4>3. QED
        BY <3>1, <3>2, <4>2 DEF Unresolved
    <3>3. QED
      BY <1>1, <3>1, <3>2
  <2>2. QED
    BY <1>1, <2>1, SameInput DEF EnclosedInv
<1>7. DuplicatesInv'
  <2>1. ASSUME NEW i \in Items, Duplicated(i)
        PROVE  /\ Duplicate(i) => itemSuppressed(i)'
               /\ ~Duplicate(i) => ~itemSuppressed(i)'
    <3>1. /\ Duplicate(i) => itemSuppressed(i)
          /\ ~Duplicate(i) => ~itemSuppressed(i)
      BY <1>1, <1>2, <2>1 DEF IInv, DuplicatesInv
    <3>2. ASSUME ~Duplicate(i), NEW k \in Items, Unresolved(i, k)
          PROVE  FALSE
      <4>1. Conflict(i, k) /\ k \in Row(i) /\ i # k
        BY <1>1, <3>2, RowFacts DEF IInv
      <4>2. myCollisionInfos[i][k] = Coincidence
        BY <2>1, <4>1 DEF Duplicated
      <4>3. k < i
        BY <1>2, <3>2, <4>1, <4>2 DEF Duplicate
      <4>4. Duplicated(k)
        BY <2>1, <4>2, SameGroup DEF IInv
      <4>5. i \in Row(k) /\ myCollisionInfos[k][i] = Coincidence
        BY <4>1, <4>2, RowFacts DEF IInv
      <4>6. Duplicate(k)
        BY <4>3, <4>5 DEF Duplicate
      <4>7. itemSuppressed(k)
        BY <1>1, <1>2, <4>4, <4>6 DEF IInv, DuplicatesInv
      <4>8. QED
        BY <3>2, <4>7 DEF Unresolved
    <3>3. QED
      BY <1>1, <3>1, <3>2
  <2>2. QED
    BY <1>1, <2>1, SameInput DEF DuplicatesInv
<1>8. CollisionFree'
  <2> SUFFICES ASSUME setting.suppressErroneous, ~setting.ignoreUnknown,
                      NEW i \in Items, NEW j \in Items, Conflict(i, j)
               PROVE  itemSuppressed(i)' \/ itemSuppressed(j)'
    BY <1>1, SameInput DEF CollisionFree
  <2>1. CASE itemSuppressed(i) \/ itemSuppressed(j)
    BY <1>1, <2>1
  <2>2. CASE ~itemSuppressed(i) /\ ~itemSuppressed(j)
    <3>1. myCollisionInfos[i][j] \in Nat /\ myCollisionInfos[i][j] <= Unknown
      BY RowFacts, TypeValues DEF IInv
    <3>2. Unresolved(i, j)
      BY <2>2, <3>1 DEF Unresolved, Conflict, Unknown
    <3>3. QED
      BY <1>1, <3>2
  <2>3. QED
    BY <2>1, <2>2
<1>9. QED
  BY <1>3, <1>4, <1>5, <1>6, <1>7, <1>8 DEF IInv

LEMMA StepIInv ==
  ASSUME IInv, [Next]_vars
  PROVE  IInv'
<1>1. ASSUME UNCHANGED vars PROVE IInv'
  <2>1. UNCHANGED <<myCollisionInfos, volume, setting, given, myShapeErrors, next>>
    BY <1>1 DEF vars, inputVars
  <2>2. TypeOK' /\ Symmetric'
    BY <2>1, SameInput DEF IInv, TypeOK
  <2>3. OnlyForAReason' /\ CollisionFree'
    BY <2>1 DEF IInv, OnlyForAReason, CollisionFree, Resolved, Conflict, Row, itemSuppressed
  <2>4. EnclosedInv'
    BY <2>1, SameInput DEF IInv, EnclosedInv, itemSuppressed
  <2>5. DuplicatesInv'
    BY <2>1, SameInput DEF IInv, DuplicatesInv, itemSuppressed
  <2>6. QED
    BY <2>2, <2>3, <2>4, <2>5 DEF IInv
<1>2. QED
  BY <1>1, ProcessKeeps, CheckKeeps DEF Next, Terminated

LEMMA InitIInv == Init => IInv
<1> SUFFICES ASSUME Init PROVE IInv
  OBVIOUS
<1>1. /\ volume \in Volumes /\ setting \in Settings /\ given \in SUBSET Items
      /\ myShapeErrors = [i \in Items |-> IF i \in given THEN "Earlier" ELSE "NoError"]
      /\ next = 0
  BY DEF Init
<1>2. myCollisionInfos \in [Items -> [Items -> Types \cup {NoCollision}]] /\ Symmetric
  <2>1. PICK t \in [Upper -> Types \cup {NoCollision}] :
          myCollisionInfos = [i \in Items |-> [j \in Items |->
             IF i < j THEN t[<<i, j>>] ELSE IF j < i THEN t[<<j, i>>] ELSE NoCollision]]
    BY DEF Init
  <2>2. \A i, j \in Items : (i < j => <<i, j>> \in Upper) /\ (j < i => <<j, i>> \in Upper)
    BY DEF Upper
  <2>3. \A i, j \in Items : (IF i < j THEN t[<<i, j>>] ELSE IF j < i THEN t[<<j, i>>]
                             ELSE NoCollision) \in Types \cup {NoCollision}
    BY <2>2
  <2>4. \A i, j \in Items : /\ myCollisionInfos[i][i] = NoCollision
                            /\ myCollisionInfos[i][j] = myCollisionInfos[j][i]
    <3>1. ASSUME NEW i \in Items, NEW j \in Items
          PROVE  /\ myCollisionInfos[i][i] = NoCollision
                 /\ myCollisionInfos[i][j] = myCollisionInfos[j][i]
      <4>1. i \in Nat /\ j \in Nat
        BY DEF Items
      <4>2. myCollisionInfos[i][i] = NoCollision
        BY <2>1, <4>1
      <4>3. /\ myCollisionInfos[i][j] = IF i < j THEN t[<<i, j>>]
                                         ELSE IF j < i THEN t[<<j, i>>] ELSE NoCollision
            /\ myCollisionInfos[j][i] = IF j < i THEN t[<<j, i>>]
                                         ELSE IF i < j THEN t[<<i, j>>] ELSE NoCollision
        BY <2>1
      <4>4. QED
        BY <4>1, <4>2, <4>3
    <3>2. QED
      BY <3>1
  <2>5. QED
    BY <2>1, <2>3, <2>4 DEF Symmetric
<1>3. TypeOK
  BY <1>1, <1>2 DEF TypeOK
<1>4. \A i \in Items : itemSuppressed(i) <=> i \in given
  BY <1>1 DEF itemSuppressed
<1>5. OnlyForAReason
  BY <1>4 DEF OnlyForAReason
<1>6. CollisionFree
  BY <1>1 DEF CollisionFree, Resolved
<1>7. \A i \in Items : ~(next > i)
  BY <1>1 DEF Items
<1>8. EnclosedInv
  BY <1>4, <1>7 DEF EnclosedInv, EnclosedIn
<1>9. DuplicatesInv
  BY <1>4, <1>7 DEF DuplicatesInv, Duplicated, Group
<1>10. QED
  BY <1>2, <1>3, <1>5, <1>6, <1>8, <1>9 DEF IInv
-----------------------------------------------------------------------------
(* The theorems *)

\* The inductive invariant holds of every state.
THEOREM Invariance == Spec => []IInv
<1>1. QED
  BY InitIInv, StepIInv, PTL DEF Spec

\* Every variable keeps its type: an item is suppressed with one of the error types.
THEOREM TypeCorrect == Spec => []TypeOK
<1>1. IInv => TypeOK
  BY DEF IInv
<1>2. QED
  BY <1>1, Invariance, PTL

\* What goes on to imprinting and merging is free of collisions, whatever the first
\* round found.
THEOREM FreeOfCollisions == Spec => []CollisionFree
<1>1. IInv => CollisionFree
  BY DEF IInv
<1>2. QED
  BY <1>1, Invariance, PTL

\* No part is suppressed but for a conflict of its own or because it floats.
THEOREM NoneForNothing == Spec => []OnlyForAReason
<1>1. IInv => OnlyForAReason
  BY DEF IInv
<1>2. QED
  BY <1>1, Invariance, PTL

\* An enclosed part is removed, the one around it stays.
THEOREM InnerRemoved == Spec => []EnclosedRemoved
<1>1. ASSUME IInv, Resolved, NEW i \in Items, NEW j \in Items,
             myCollisionInfos[i][j] = Enclosure, volume[i] < volume[j],
             Row(i) = {j}, {i, j} \cap given = {}
      PROVE  /\ itemSuppressed(i)
             /\ (\A k \in Row(j) \ {i} : ~Conflict(j, k)) => ~itemSuppressed(j)
  <2>1. EnclosedIn(i, j)
    BY <1>1 DEF EnclosedIn
  <2>2. next > i
    BY <1>1 DEF Resolved, Items
  <2>3. QED
    BY <1>1, <2>1, <2>2 DEF IInv, EnclosedInv
<1>2. IInv => EnclosedRemoved
  BY <1>1 DEF EnclosedRemoved
<1>3. QED
  BY <1>2, Invariance, PTL

\* Of a group of identical parts that are related to everything else alike and touch
\* something else, the last one stays and no other.
THEOREM LastDuplicateKept == Spec => []OneDuplicateKept
<1>1. ASSUME IInv, Resolved, NEW i \in Items, Duplicated(i)
      PROVE  Cardinality({j \in Group(i) : ~itemSuppressed(j)}) = 1
  <2>1. Group(i) \in SUBSET Items /\ Group(i) # {}
    BY DEF Group
  <2>2. PICK m \in Group(i) : \A j \in Group(i) : j <= m
    BY <2>1, LastItem
  <2>3. ASSUME NEW j \in Group(i)
        PROVE  /\ j \in Items /\ j \in Nat
               /\ Duplicated(j) /\ Group(j) = Group(i)
               /\ itemSuppressed(j) <=> Duplicate(j)
    <3>1. Duplicated(j) /\ Group(j) = Group(i) /\ j \in Items
      BY <1>1, SameGroup DEF IInv, Group
    <3>2. next > j
      BY <1>1, <3>1 DEF Resolved, Items
    <3>3. QED
      BY <1>1, <3>1, <3>2 DEF IInv, DuplicatesInv, Items
  <2>4. ~Duplicate(m)
    <3>1. ASSUME NEW k \in Row(m), myCollisionInfos[m][k] = Coincidence, m < k
          PROVE  FALSE
      <4>1. k \in Group(m) /\ Group(m) = Group(i)
        BY <2>3, <3>1 DEF Group, Row
      <4>2. k <= m /\ k \in Nat /\ m \in Nat
        BY <2>2, <2>3, <4>1
      <4>3. QED
        BY <3>1, <4>2
    <3>2. QED
      BY <3>1 DEF Duplicate
  <2>5. ASSUME NEW j \in Group(i), j # m PROVE Duplicate(j)
    <3>1. m \in Group(j) /\ j < m /\ j \in Items /\ m \in Items
      BY <2>2, <2>3, <2>5
    <3>2. myCollisionInfos[j][m] = Coincidence
      BY <2>5, <3>1 DEF Group
    <3>3. m \in Row(j)
      BY <3>1, <3>2 DEF Row, Coincidence, NoCollision
    <3>4. QED
      BY <3>1, <3>2, <3>3 DEF Duplicate
  <2>6. {j \in Group(i) : ~itemSuppressed(j)} = {m}
    BY <2>2, <2>3, <2>4, <2>5
  <2>7. Cardinality({m}) = 1
    BY FS_Singleton
  <2>8. QED
    BY <2>6, <2>7, Zenon
<1>2. IInv => OneDuplicateKept
  BY <1>1 DEF OneDuplicateKept, Duplicated, Group
<1>3. QED
  BY <1>2, Invariance, PTL
=============================================================================
