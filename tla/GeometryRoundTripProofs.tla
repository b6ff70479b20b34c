----------------------- MODULE GeometryRoundTripProofs -----------------------
(***************************************************************************)
(* Machine-checked proofs about what is read, written and read again, for  *)
(* every input, any hash codes that collide, any leftovers of earlier runs *)
(* and any widths of the numbers in an identifier.                         *)
(***************************************************************************)
EXTENDS GeometryRoundTrip, SequenceTheorems, FiniteSetTheorems, TLAPS

-----------------------------------------------------------------------------
(* Numbers and orders *)

\* A set of numbers that is not empty has a least one,
LEMMA LeastNumber ==
  ASSUME NEW S \in SUBSET Nat, S # {}
  PROVE  \E m \in S : \A n \in S : m <= n
<1> DEFINE R == OpToRel(<, Nat)
<1>1. IsWellFoundedOn(R, Nat)
  BY NatLessThanWellFounded
<1> HIDE DEF R
<1>2. PICK m \in S : \A n \in S : ~(<<n, m>> \in R)
  BY <1>1, WFMin
<1>3. \A j, k \in Nat : <<j, k>> \in R <=> j < k
  BY DEF R, OpToRel
<1>4. ASSUME NEW n \in S PROVE m <= n
  <2>1. ~(<<n, m>> \in R) /\ n \in Nat /\ m \in Nat
    BY <1>2
  <2>2. ~(n < m)
    BY <1>3, <2>1
  <2>3. QED
    BY <2>1, <2>2
<1>5. QED
  BY <1>4

\* and a greatest one when it has a bound.
LEMMA GreatestNumber ==
  ASSUME NEW S \in SUBSET Nat, S # {}, NEW b \in Nat, \A n \in S : n <= b
  PROVE  \E m \in S : \A n \in S : n <= m
<1> DEFINE T == {t \in Nat : \A n \in S : n <= t}
<1>1. PICK m \in T : \A t \in T : m <= t
  <2>1. b \in T
    OBVIOUS
  <2>2. T \in SUBSET Nat /\ T # {}
    BY <2>1
  <2>3. QED
    BY <2>2, LeastNumber
<1>2. m \in S
  <2> SUFFICES ASSUME m \notin S PROVE FALSE
    OBVIOUS
  <2>1. \A n \in S : n <= m /\ n # m /\ n \in Nat
    OBVIOUS
  <2>2. m \in Nat /\ m - 1 \notin T
    BY <1>1
  <2>3. PICK x \in S : TRUE
    OBVIOUS
  <2>4. m - 1 \in Nat
    BY <2>1, <2>2, <2>3
  <2>5. \A n \in S : n <= m - 1
    BY <2>1, <2>2
  <2>6. QED
    BY <2>2, <2>4, <2>5
<1>3. QED
  BY <1>1, <1>2

\* The values of a loop are numbered,
Ordered(values) == \A v \in values : v.order[1] \in Nat /\ v.order[2] \in Nat

\* and come to an end.
Ending(values) ==
  /\ Ordered(values)
  /\ \E n \in Nat : \A v \in values : v.order[1] <= n
  /\ \A m \in Nat : \E n \in Nat : \A v \in values : v.order[1] = m => v.order[2] <= n

\* So one of those that a key is given comes first,
LEMMA EarliestIsOne ==
  ASSUME NEW values, Ordered(values), NEW key, key \in Keys(values)
  PROVE  /\ Earliest(Of(values, key)) \in values
         /\ Earliest(Of(values, key)).key = key
<1> DEFINE V == Of(values, key)
           S == {v.order[1] : v \in V}
<1>1. V # {} /\ \A v \in V : v \in values /\ v.key = key
  BY DEF Of, Keys
<1>2. PICK i \in S : \A n \in S : i <= n
  <2>1. S \in SUBSET Nat /\ S # {}
    BY <1>1 DEF Ordered
  <2>2. QED
    BY <2>1, LeastNumber
<1> DEFINE T == {v.order[2] : v \in {w \in V : w.order[1] = i}}
<1>3. PICK j \in T : \A n \in T : j <= n
  <2>1. T \in SUBSET Nat /\ T # {}
    BY <1>1, <1>2 DEF Ordered
  <2>2. QED
    BY <2>1, LeastNumber
<1>4. PICK v \in V : v.order[1] = i /\ v.order[2] = j
  BY <1>3
<1>5. \A w \in V : Before(v.order, w.order)
  <2> TAKE w \in V
  <2>1. i <= w.order[1] /\ (w.order[1] = i => j <= w.order[2])
    BY <1>2, <1>3
  <2>2. i \in Nat /\ w.order[1] \in Nat
    BY <1>1, <1>4 DEF Ordered
  <2>3. QED
    BY <1>4, <2>1, <2>2 DEF Before
<1>6. Earliest(V) \in V
  BY <1>5 DEF Earliest
<1>7. QED
  BY <1>1, <1>6

\* and one comes last.
LEMMA LatestIsOne ==
  ASSUME NEW values, Ending(values), NEW key, key \in Keys(values)
  PROVE  /\ Latest(Of(values, key)) \in values
         /\ Latest(Of(values, key)).key = key
         /\ \A w \in Of(values, key) : Before(w.order, Latest(Of(values, key)).order)
<1> DEFINE V == Of(values, key)
           S == {v.order[1] : v \in V}
<1>1. V # {} /\ \A v \in V : v \in values /\ v.key = key
  BY DEF Of, Keys
<1>2. PICK i \in S : \A n \in S : n <= i
  <2>1. S \in SUBSET Nat /\ S # {}
    BY <1>1 DEF Ordered, Ending
  <2>2. PICK b \in Nat : \A v \in values : v.order[1] <= b
    BY DEF Ending
  <2>3. \A n \in S : n <= b
    BY <1>1, <2>2
  <2>4. QED
    BY <2>1, <2>3, GreatestNumber
<1> DEFINE T == {v.order[2] : v \in {w \in V : w.order[1] = i}}
<1>3. PICK j \in T : \A n \in T : n <= j
  <2>1. T \in SUBSET Nat /\ T # {} /\ i \in Nat
    BY <1>1, <1>2 DEF Ordered, Ending
  <2>2. PICK b \in Nat : \A v \in values : v.order[1] = i => v.order[2] <= b
    BY <2>1 DEF Ending
  <2>3. \A n \in T : n <= b
    BY <1>1, <2>2
  <2>4. QED
    BY <2>1, <2>3, GreatestNumber
<1>4. PICK v \in V : v.order[1] = i /\ v.order[2] = j
  BY <1>3
<1>5. \A w \in V : Before(w.order, v.order)
  <2> TAKE w \in V
  <2>1. w.order[1] <= i /\ (w.order[1] = i => w.order[2] <= j)
    BY <1>2, <1>3
  <2>2. i \in Nat /\ w.order[1] \in Nat
    BY <1>1, <1>4 DEF Ordered, Ending
  <2>3. QED
    BY <1>4, <2>1, <2>2 DEF Before
<1>6. Latest(V) \in V /\ \A w \in V : Before(w.order, Latest(V).order)
  BY <1>5 DEF Latest
<1>7. QED
  BY <1>1, <1>6

-----------------------------------------------------------------------------
(* Identifiers *)

\* The patterns of a sign are those from a multiple of SignBit on.
LEMMA PatternFacts ==
  ASSUME NEW p \in Patterns
  PROVE  /\ p \in Nat /\ p <= Width - ROUND_PRECISION_MASK
         /\ Magnitude(p) \in 0 .. INFINITY /\ Magnitude(p) <= p
         /\ \A d \in Nat : d <= INFINITY - Magnitude(p) => p + d \in Patterns
         /\ \A d \in Nat : d <= Magnitude(p) => p - d \in Patterns
<1>1. /\ SignBit \in Nat /\ SignBit > 0 /\ Width = 2 * SignBit /\ Width \in Nat
      /\ INFINITY \in Nat /\ INFINITY < SignBit
      /\ ROUND_PRECISION_MASK \in Nat /\ INFINITY + ROUND_PRECISION_MASK <= SignBit
  BY UniqueIdAssumption DEF SignBit
<1>2. CASE p \in 0 .. INFINITY
  <2>1. Magnitude(p) = p
    BY <1>1, <1>2 DEF Magnitude
  <2>2. QED
    BY <1>1, <1>2, <2>1 DEF Patterns
<1>3. CASE p \in SignBit .. SignBit + INFINITY
  <2>1. p = SignBit * 1 + (p - SignBit) /\ p - SignBit \in 0 .. SignBit - 1
    BY <1>1, <1>3
  <2>2. Magnitude(p) = p - SignBit
    BY <1>1, <1>3, <2>1 DEF Magnitude
  <2>3. QED
    BY <1>1, <1>3, <2>2 DEF Patterns
<1>4. QED
  BY <1>2, <1>3 DEF Patterns

\* Rounding moves a pattern by half of the mask at most, and none out of its word.
LEMMA RoundFacts ==
  ASSUME NEW v \in Nat, v <= Width - ROUND_PRECISION_MASK
  PROVE  LET r == round(v, ROUND_PRECISION_MASK)
             h == ROUND_PRECISION_MASK \div 2
         IN  /\ r \in Nat /\ r < Width
             /\ v - r <= h
             /\ r - v <= ROUND_PRECISION_MASK - h
<1> DEFINE tol == ROUND_PRECISION_MASK
           q == v \div tol
           m == v % tol
           h == tol \div 2
<1>1. tol \in Nat /\ tol > 1 /\ Width \in Nat /\ Width > 0
  BY UniqueIdAssumption DEF SignBit
<1>2. q \in Nat /\ m \in 0 .. tol - 1 /\ v = tol * q + m
  BY <1>1
<1>3. h \in Nat /\ h > 0 /\ 2 * h <= tol
  BY <1>1
<1> DEFINE u == tol * (q + (IF m >= h THEN 1 ELSE 0))
<1>4. round(v, tol) = u % Width
  BY DEF round
<1> HIDE DEF q, m, h
<1>5. CASE m >= h
  <2>1. u = tol * q + tol
    BY <1>1, <1>2, <1>5
  <2>2. u \in Nat /\ u < Width /\ u - v = tol - m
    BY <1>1, <1>2, <1>3, <1>5, <2>1
  <2> HIDE DEF u
  <2>3. u % Width = u
    BY <1>1, <2>2
  <2>4. QED
    BY <1>1, <1>2, <1>3, <1>4, <1>5, <2>2, <2>3 DEF h
<1>6. CASE ~(m >= h)
  <2>1. u = tol * q
    BY <1>1, <1>2, <1>6
  <2>2. u \in Nat /\ u < Width /\ v - u = m
    BY <1>1, <1>2, <1>3, <1>6, <2>1
  <2> HIDE DEF u
  <2>3. u % Width = u
    BY <1>1, <2>2
  <2>4. QED
    BY <1>1, <1>2, <1>3, <1>4, <1>6, <2>2, <2>3 DEF h
<1>7. QED
  BY <1>5, <1>6

\* What is close to zero counts as zero.
NonZero(pattern) == IF Magnitude(pattern) < ZERO_THRESHOLD THEN 0 ELSE pattern

LEMMA NumberFacts ==
  ASSUME NEW p \in Patterns, NEW q \in Patterns
  PROVE  /\ double2uint16(p) \in 0 .. Width - 1
         /\ double2uint16(p) = double2uint16(q) =>
              NonZero(p) - NonZero(q) <= ROUND_PRECISION_MASK
<1> DEFINE a == NonZero(p)
           b == NonZero(q)
           R(v) == round(v, ROUND_PRECISION_MASK)
<1>1. ROUND_PRECISION_MASK \in Nat /\ Width \in Nat /\ Width - ROUND_PRECISION_MASK >= 0
  BY UniqueIdAssumption DEF SignBit
<1>2. /\ a \in Nat /\ a <= Width - ROUND_PRECISION_MASK
      /\ b \in Nat /\ b <= Width - ROUND_PRECISION_MASK
  BY <1>1, PatternFacts DEF NonZero
<1>3. double2uint16(p) = R(a) /\ double2uint16(q) = R(b)
  BY DEF double2uint16, NonZero
<1> HIDE DEF a, b
<1>4. /\ R(a) \in Nat /\ R(a) < Width /\ a - R(a) <= ROUND_PRECISION_MASK \div 2
      /\ R(b) \in Nat /\ R(b) < Width
      /\ R(b) - b <= ROUND_PRECISION_MASK - (ROUND_PRECISION_MASK \div 2)
  BY <1>2, RoundFacts
<1> HIDE DEF R
<1>5. ROUND_PRECISION_MASK \div 2 \in Nat
  BY <1>1
<1>6. QED
  BY <1>1, <1>2, <1>3, <1>4, <1>5 DEF a, b

\* The words of the last numbers of a solid, up to n of them.
Word(values, n, f) ==
  f = [m \in 0 .. n |-> IF m = 0 THEN 0
                        ELSE double2uint16(values[ID_ITEM_COUNT + 1 - m]) + Width * f[m - 1]]

LEMMA WordsExist ==
  ASSUME NEW values, NEW n \in Nat
  PROVE  \E f : Word(values, n, f)
<1> DEFINE T == {k \in Nat : ~\E f : Word(values, k, f)}
<1> SUFFICES ASSUME n \in T PROVE FALSE
  OBVIOUS
<1>1. PICK k \in T : \A j \in T : k <= j
  <2>1. T \in SUBSET Nat /\ T # {}
    OBVIOUS
  <2>2. QED
    BY <2>1, LeastNumber
<1>2. CASE k = 0
  <2>1. Word(values, 0, [m \in 0 .. 0 |-> 0])
    BY DEF Word
  <2>2. QED
    BY <1>1, <1>2, <2>1
<1>3. CASE k # 0
  <2>1. k - 1 \in Nat /\ ~(k <= k - 1)
    BY <1>1, <1>3
  <2>2. PICK f : Word(values, k - 1, f)
    BY <1>1, <2>1
  <2> DEFINE next == double2uint16(values[ID_ITEM_COUNT + 1 - k]) + Width * f[k - 1]
             g == [m \in 0 .. k |-> IF m = k THEN next ELSE f[m]]
  <2> HIDE DEF next
  <2>3. ASSUME NEW m \in 0 .. k
        PROVE  g[m] = IF m = 0 THEN 0
                      ELSE double2uint16(values[ID_ITEM_COUNT + 1 - m]) + Width * g[m - 1]
    <3>1. CASE m = k
      <4>1. m # 0 /\ m - 1 \in 0 .. k /\ m - 1 # k
        BY <1>3, <2>1, <3>1
      <4>2. g[m] = next /\ g[m - 1] = f[k - 1]
        BY <3>1, <4>1
      <4>3. QED
        BY <3>1, <4>1, <4>2 DEF next
    <3>2. CASE m # k
      <4>1. m \in 0 .. k - 1 /\ g[m] = f[m]
        BY <3>2
      <4>2. m # 0 => m - 1 \in 0 .. k /\ m - 1 # k /\ g[m - 1] = f[m - 1]
        BY <3>2
      <4>3. f[m] = IF m = 0 THEN 0
                   ELSE double2uint16(values[ID_ITEM_COUNT + 1 - m]) + Width * f[m - 1]
        BY <2>2, <4>1, Zenon DEF Word
      <4> HIDE DEF g
      <4>4. QED
        BY <4>1, <4>2, <4>3
    <3>3. QED
      BY <3>1, <3>2
  <2>4. Word(values, k, g)
    <3> DEFINE e == [m \in 0 .. k |-> IF m = 0 THEN 0
                        ELSE double2uint16(values[ID_ITEM_COUNT + 1 - m]) + Width * g[m - 1]]
    <3>1. \A m \in 0 .. k : g[m] = e[m]
      BY <2>3
    <3>2. g = [m \in 0 .. k |-> g[m]] /\ e = [m \in 0 .. k |-> e[m]]
      OBVIOUS
    <3>3. g = e
      BY <3>1, <3>2
    <3>4. QED
      BY <3>3 DEF Word
  <2>5. QED
    BY <1>1, <2>4
<1>4. QED
  BY <1>2, <1>3

\* The identifier is the word of all numbers.
LEMMA IdentifierIsWord ==
  ASSUME NEW values
  PROVE  \E f : Word(values, ID_ITEM_COUNT, f) /\ geometryUniqueId(values) = f[ID_ITEM_COUNT]
<1>1. ID_ITEM_COUNT \in Nat
  BY UniqueIdAssumption
<1> DEFINE W(f) == Word(values, ID_ITEM_COUNT, f)
<1>2. \E f : W(f)
  BY <1>1, WordsExist
<1>3. geometryUniqueId(values) = (CHOOSE f : W(f))[ID_ITEM_COUNT]
  BY DEF geometryUniqueId, uniqueId, Word
<1> HIDE DEF W
<1>4. W(CHOOSE f : W(f))
  BY <1>2
<1>5. QED
  BY <1>3, <1>4 DEF W

\* Two numbers and two words under them are the same when their sums are.
LEMMA Digits ==
  ASSUME NEW a \in 0 .. Width - 1, NEW b \in 0 .. Width - 1, NEW x \in Nat, NEW y \in Nat,
         a + Width * x = b + Width * y
  PROVE  a = b /\ x = y
<1>1. Width \in Nat /\ Width > 0
  BY UniqueIdAssumption DEF SignBit
<1>2. ASSUME NEW k \in Nat, NEW l \in Nat, k < l PROVE Width * l >= Width * k + Width
  <2>1. l = k + 1 + (l - k - 1) /\ l - k - 1 \in Nat
    BY <1>2
  <2> DEFINE d == l - k - 1
  <2>2. Width * d \in Nat
    BY <1>1, <2>1
  <2>3. Width * l = Width * k + Width + Width * d
    BY <1>1, <2>1
  <2>4. Width * k \in Nat
    BY <1>1
  <2>5. QED
    BY <1>1, <2>2, <2>3, <2>4
<1>3. Width * x \in Nat /\ Width * y \in Nat
  BY <1>1
<1>4. ~(x < y) /\ ~(y < x)
  BY <1>1, <1>2, <1>3
<1>5. x = y
  BY <1>4
<1>6. QED
  BY <1>3, <1>5

LEMMA WordStep ==
  ASSUME NEW values \in Geometries, NEW f, Word(values, ID_ITEM_COUNT, f)
  PROVE  /\ f[0] = 0
         /\ \A m \in 1 .. ID_ITEM_COUNT :
               /\ f[m] = double2uint16(values[ID_ITEM_COUNT + 1 - m]) + Width * f[m - 1]
               /\ double2uint16(values[ID_ITEM_COUNT + 1 - m]) \in 0 .. Width - 1
<1>1. ID_ITEM_COUNT \in Nat
  BY UniqueIdAssumption
<1>2. \A m \in 0 .. ID_ITEM_COUNT :
         f[m] = IF m = 0 THEN 0
                ELSE double2uint16(values[ID_ITEM_COUNT + 1 - m]) + Width * f[m - 1]
  BY Zenon DEF Word
<1>3. \A m \in 1 .. ID_ITEM_COUNT : values[ID_ITEM_COUNT + 1 - m] \in Patterns
  BY <1>1 DEF Geometries
<1>4. \A m \in 1 .. ID_ITEM_COUNT : double2uint16(values[ID_ITEM_COUNT + 1 - m]) \in 0 .. Width - 1
  BY <1>3, NumberFacts
<1>5. 0 \in 0 .. ID_ITEM_COUNT /\ \A m \in 1 .. ID_ITEM_COUNT : m \in 0 .. ID_ITEM_COUNT /\ m # 0
  BY <1>1
<1>6. QED
  BY <1>2, <1>4, <1>5

LEMMA WordIsNumber ==
  ASSUME NEW values \in Geometries, NEW f, Word(values, ID_ITEM_COUNT, f)
  PROVE  \A m \in 0 .. ID_ITEM_COUNT : f[m] \in Nat
<1>1. ID_ITEM_COUNT \in Nat /\ Width \in Nat
  BY UniqueIdAssumption
<1> DEFINE T == {m \in 0 .. ID_ITEM_COUNT : f[m] \notin Nat}
<1> SUFFICES ASSUME T # {} PROVE FALSE
  OBVIOUS
<1>2. PICK m \in T : \A j \in T : m <= j
  <2>1. T \in SUBSET Nat
    BY <1>1
  <2>2. QED
    BY <2>1, LeastNumber
<1>3. m # 0
  BY <1>1, <1>2, WordStep
<1>4. m \in 1 .. ID_ITEM_COUNT /\ m - 1 \in 0 .. ID_ITEM_COUNT /\ ~(m <= m - 1)
  BY <1>1, <1>2, <1>3
<1>5. f[m - 1] \in Nat
  BY <1>2, <1>4
<1>6. f[m] \in Nat
  <2>1. PICK a \in 0 .. Width - 1 : f[m] = a + Width * f[m - 1]
    BY <1>4, WordStep
  <2>2. Width * f[m - 1] \in Nat
    BY <1>1, <1>5
  <2>3. QED
    BY <1>1, <2>1, <2>2
<1>7. QED
  BY <1>2, <1>6

\* Two solids have one identifier only if all their numbers are rounded to the same.
LEMMA SameIdentifier ==
  ASSUME NEW g \in Geometries, NEW h \in Geometries, geometryUniqueId(g) = geometryUniqueId(h)
  PROVE  \A c \in 1 .. ID_ITEM_COUNT : double2uint16(g[c]) = double2uint16(h[c])
<1> DEFINE N == ID_ITEM_COUNT
           G(m) == double2uint16(g[N + 1 - m])
           H(m) == double2uint16(h[N + 1 - m])
<1>1. N \in Nat
  BY UniqueIdAssumption
<1>2. PICK f : Word(g, N, f) /\ geometryUniqueId(g) = f[N]
  BY IdentifierIsWord
<1>3. PICK e : Word(h, N, e) /\ geometryUniqueId(h) = e[N]
  BY IdentifierIsWord
<1>4. \A m \in 1 .. N : /\ f[m] = G(m) + Width * f[m - 1] /\ G(m) \in 0 .. Width - 1
                        /\ e[m] = H(m) + Width * e[m - 1] /\ H(m) \in 0 .. Width - 1
  BY <1>2, <1>3, WordStep
<1>5. \A m \in 0 .. N : f[m] \in Nat /\ e[m] \in Nat
  BY <1>2, <1>3, WordIsNumber
<1> HIDE DEF G, H
<1> DEFINE T == {m \in 0 .. N : f[m] = e[m] /\ ~\A j \in 1 .. m : G(j) = H(j)}
<1>6. T = {}
  <2> SUFFICES ASSUME T # {} PROVE FALSE
    OBVIOUS
  <2>1. PICK m \in T : \A j \in T : m <= j
    <3>1. T \in SUBSET Nat
      BY <1>1
    <3>2. QED
      BY <3>1, LeastNumber
  <2>2. PICK j \in 1 .. m : G(j) # H(j)
    BY <2>1
  <2>3. m \in 1 .. N /\ m - 1 \in 0 .. N /\ ~(m <= m - 1)
    BY <1>1, <2>1, <2>2
  <2>4. G(m) = H(m) /\ f[m - 1] = e[m - 1]
    <3>1. /\ G(m) \in 0 .. Width - 1 /\ H(m) \in 0 .. Width - 1
          /\ f[m - 1] \in Nat /\ e[m - 1] \in Nat
          /\ G(m) + Width * f[m - 1] = H(m) + Width * e[m - 1]
      BY <1>4, <1>5, <2>1, <2>3
    <3>2. QED
      BY <3>1, Digits
  <2>5. m - 1 \notin T
    BY <2>1, <2>3
  <2>6. \A i \in 1 .. m - 1 : G(i) = H(i)
    BY <2>3, <2>4, <2>5
  <2>7. j = m \/ j \in 1 .. m - 1
    BY <2>2, <2>3
  <2>8. QED
    BY <2>2, <2>4, <2>6, <2>7
<1>7. f[N] = e[N] /\ N \in 0 .. N
  <2>1. f[N] = e[N]
    BY <1>2, <1>3, Zenon
  <2>2. N \in 0 .. N
    BY <1>1
  <2>3. QED
    BY <2>1, <2>2
<1>8. \A m \in 1 .. N : G(m) = H(m)
  BY <1>6, <1>7
<1>9. QED
  <2> TAKE c \in 1 .. N
  <2>1. N + 1 - c \in 1 .. N /\ N + 1 - (N + 1 - c) = c
    BY <1>1
  <2>2. G(N + 1 - c) = H(N + 1 - c)
    BY <1>8, <2>1
  <2>3. QED
    BY <2>1, <2>2 DEF G, H

\* Such solids have nearly the same size and centre.
THEOREM NearlySame ==
  ASSUME NEW g \in Geometries, NEW h \in Geometries, geometryUniqueId(g) = geometryUniqueId(h)
  PROVE  Near(g, h)
<1>1. \A c \in 1 .. ID_ITEM_COUNT : g[c] \in Patterns /\ h[c] \in Patterns
  BY DEF Geometries
<1>2. \A c \in 1 .. ID_ITEM_COUNT :
         /\ NonZero(g[c]) - NonZero(h[c]) <= ROUND_PRECISION_MASK
         /\ NonZero(h[c]) - NonZero(g[c]) <= ROUND_PRECISION_MASK
  BY <1>1, SameIdentifier, NumberFacts
<1>3. DOMAIN g = 1 .. ID_ITEM_COUNT
  BY DEF Geometries
<1>4. QED
  BY <1>2, <1>3 DEF Near, NonZero

-----------------------------------------------------------------------------
(* What a loop leaves in a map *)

\* A new key has a value that it was given.
LEMMA InsertNew ==
  ASSUME NEW map, NEW values, Ordered(values), NEW k \in Keys(values), k \notin DOMAIN map
  PROVE  \E v \in values : v.key = k /\ insert(map, values)[k] = v.value
<1>1. insert(map, values)[k] = Earliest(Of(values, k)).value
  BY DEF insert
<1>2. Earliest(Of(values, k)) \in values /\ Earliest(Of(values, k)).key = k
  BY EarliestIsOne
<1>3. QED
  BY <1>1, <1>2

\* The values are for the keys of K.
For(values, K) == (\A v \in values : v.key \in K) /\ \A k \in K : \E v \in values : v.key = k

\* The others stay with theirs.
Inserted(new, map, values, K) ==
  /\ DOMAIN new = DOMAIN map \cup K
  /\ \A k \in DOMAIN map : new[k] = map[k]
  /\ \A k \in DOMAIN new \ DOMAIN map : \E v \in values : v.key = k /\ new[k] = v.value

LEMMA InsertFacts ==
  ASSUME NEW map, NEW values, Ordered(values), NEW K, For(values, K)
  PROVE  Inserted(insert(map, values), map, values, K)
<1>1. Keys(values) = K
  BY DEF Keys, For
<1>2. DOMAIN insert(map, values) = DOMAIN map \cup K
  BY <1>1 DEF insert
<1>3. \A k \in DOMAIN map : insert(map, values)[k] = map[k]
  BY DEF insert
<1>4. ASSUME NEW k \in DOMAIN insert(map, values) \ DOMAIN map
      PROVE  \E v \in values : v.key = k /\ insert(map, values)[k] = v.value
  <2>1. k \in Keys(values) /\ k \notin DOMAIN map
    BY <1>1, <1>2
  <2>2. QED
    BY <2>1, InsertNew
<1>5. QED
  BY <1>2, <1>3, <1>4 DEF Inserted

\* With operator[] a key has one of the values that it was given.
Assigned(new, map, values) ==
  /\ DOMAIN new = DOMAIN map \cup Keys(values)
  /\ \A k \in DOMAIN map \ Keys(values) : new[k] = map[k]
  /\ \A k \in Keys(values) : \E v \in values : v.key = k /\ new[k] = v.value

LEMMA AssignFacts ==
  ASSUME NEW map, NEW values, Ending(values)
  PROVE  Assigned(assign(map, values), map, values)
<1>1. ASSUME NEW k \in Keys(values)
      PROVE  \E v \in values : v.key = k /\ assign(map, values)[k] = v.value
  <2>1. assign(map, values)[k] = Latest(Of(values, k)).value
    BY DEF assign
  <2>2. Latest(Of(values, k)) \in values /\ Latest(Of(values, k)).key = k
    BY LatestIsOne
  <2>3. QED
    BY <2>1, <2>2
<1>2. QED
  BY <1>1 DEF assign, Assigned

\* A shape has its own code, or that of those with which it collides.
LEMMA CodeFacts ==
  ASSUME NEW part
  PROVE  /\ <<at, part>> \notin collision => HashCode(part) = <<at, part>>
         /\ <<at, part>> \in collision => /\ HashCode(part) \in collision
                                          /\ HashCode(part) = CHOOSE s \in collision : TRUE
<1>1. CASE <<at, part>> \in collision
  <2> DEFINE one == CHOOSE s \in collision : TRUE
  <2>1. one \in collision
    BY <1>1
  <2>2. HashCode(part) = one
    BY <1>1 DEF HashCode
  <2>3. QED
    BY <1>1, <2>1, <2>2
<1>2. CASE <<at, part>> \notin collision
  BY <1>2 DEF HashCode
<1>3. QED
  BY <1>1, <1>2

\* The maps after the calls of registerShape.
LEMMA RegisterFacts ==
  ASSUME NEW maps, NEW calls, Ordered(calls)
  PROVE  LET r == registerShape(maps, calls)
         IN  /\ DOMAIN r.solids = DOMAIN maps.solids \cup {HashCode(c.solid.part) : c \in calls}
             /\ \A k \in DOMAIN maps.solids : r.solids[k] = maps.solids[k]
             /\ \A k \in DOMAIN r.solids \ DOMAIN maps.solids : \E c \in calls :
                   k = HashCode(c.solid.part) /\ r.solids[k] = SolidOf(c.file, c.solid)
             /\ DOMAIN r.names = DOMAIN maps.names \cup {HashCode(c.solid.part) : c \in calls}
             /\ \A k \in DOMAIN maps.names : r.names[k] = maps.names[k]
             /\ \A k \in DOMAIN r.names \ DOMAIN maps.names : \E c \in calls :
                   k = HashCode(c.solid.part) /\ r.names[k] = NameOf(c.p, k)
             /\ DOMAIN r.materials = DOMAIN maps.materials \cup
                   {HashCode(c.solid.part) : c \in {d \in calls : HasMaterial(d.p)}}
             /\ \A k \in DOMAIN maps.materials : r.materials[k] = maps.materials[k]
             /\ \A k \in DOMAIN r.materials \ DOMAIN maps.materials : \E c \in calls :
                   /\ k = HashCode(c.solid.part) /\ HasMaterial(c.p)
                   /\ r.materials[k] = MaterialOf(c.p)
<1> DEFINE hid(c) == HashCode(c.solid.part)
           r == registerShape(maps, calls)
           solids == {Value(c.order, hid(c), SolidOf(c.file, c.solid)) : c \in calls}
           names  == {Value(c.order, hid(c), NameOf(c.p, hid(c))) : c \in calls}
           with   == {c \in calls : HasMaterial(c.p)}
           materials == {Value(c.order, hid(c), MaterialOf(c.p)) : c \in with}
<1>1. /\ r.solids = insert(maps.solids, solids) /\ r.names = insert(maps.names, names)
      /\ r.materials = insert(maps.materials, materials)
  BY DEF registerShape
<1> HIDE DEF r, hid
<1>2. Ordered(solids) /\ Ordered(names) /\ Ordered(materials)
  BY DEF Ordered, Value
<1>3. /\ \A v \in solids : \E c \in calls : v.key = hid(c) /\ v.value = SolidOf(c.file, c.solid)
      /\ \A c \in calls : \E v \in solids : v.key = hid(c)
  <2>1. ASSUME NEW c \in calls PROVE \E v \in solids : v.key = hid(c)
    <3>1. Value(c.order, hid(c), SolidOf(c.file, c.solid)) \in solids
      BY Zenon
    <3>2. Value(c.order, hid(c), SolidOf(c.file, c.solid)).key = hid(c)
      BY DEF Value
    <3>3. QED
      BY <3>1, <3>2, Zenon
  <2>2. \A v \in solids : \E c \in calls : v.key = hid(c) /\ v.value = SolidOf(c.file, c.solid)
    BY DEF Value
  <2>3. QED
    BY <2>1, <2>2
<1>4. /\ \A v \in names : \E c \in calls : v.key = hid(c) /\ v.value = NameOf(c.p, hid(c))
      /\ \A c \in calls : \E v \in names : v.key = hid(c)
  <2>1. ASSUME NEW c \in calls PROVE \E v \in names : v.key = hid(c)
    <3>1. Value(c.order, hid(c), NameOf(c.p, hid(c))) \in names
      BY Zenon
    <3>2. Value(c.order, hid(c), NameOf(c.p, hid(c))).key = hid(c)
      BY DEF Value
    <3>3. QED
      BY <3>1, <3>2, Zenon
  <2>2. \A v \in names : \E c \in calls : v.key = hid(c) /\ v.value = NameOf(c.p, hid(c))
    BY DEF Value
  <2>3. QED
    BY <2>1, <2>2
<1>5. /\ \A v \in materials : \E c \in with : v.key = hid(c) /\ v.value = MaterialOf(c.p)
      /\ \A c \in with : \E v \in materials : v.key = hid(c)
  <2>1. ASSUME NEW c \in with PROVE \E v \in materials : v.key = hid(c)
    <3>1. Value(c.order, hid(c), MaterialOf(c.p)) \in materials
      BY Zenon
    <3>2. Value(c.order, hid(c), MaterialOf(c.p)).key = hid(c)
      BY DEF Value
    <3>3. QED
      BY <3>1, <3>2, Zenon
  <2>2. \A v \in materials : \E c \in with : v.key = hid(c) /\ v.value = MaterialOf(c.p)
    BY DEF Value
  <2>3. QED
    BY <2>1, <2>2
<1> HIDE DEF solids, names, materials, with
<1>6. /\ DOMAIN r.solids = DOMAIN maps.solids \cup {hid(c) : c \in calls}
      /\ \A k \in DOMAIN maps.solids : r.solids[k] = maps.solids[k]
      /\ \A k \in DOMAIN r.solids \ DOMAIN maps.solids : \E c \in calls :
            k = hid(c) /\ r.solids[k] = SolidOf(c.file, c.solid)
  <2> DEFINE K == {hid(c) : c \in calls}
  <2>1. For(solids, K)
    BY <1>3 DEF For
  <2> HIDE DEF K
  <2>2. Inserted(r.solids, maps.solids, solids, K)
    BY <1>1, <1>2, <2>1, InsertFacts
  <2>3. ASSUME NEW k \in DOMAIN r.solids \ DOMAIN maps.solids
        PROVE  \E c \in calls : k = hid(c) /\ r.solids[k] = SolidOf(c.file, c.solid)
    <3>1. PICK v \in solids : v.key = k /\ r.solids[k] = v.value
      BY <2>2 DEF Inserted
    <3>2. QED
      BY <1>3, <3>1
  <2>4. QED
    BY <2>2, <2>3 DEF K, Inserted
<1>7. /\ DOMAIN r.names = DOMAIN maps.names \cup {hid(c) : c \in calls}
      /\ \A k \in DOMAIN maps.names : r.names[k] = maps.names[k]
      /\ \A k \in DOMAIN r.names \ DOMAIN maps.names : \E c \in calls :
            k = hid(c) /\ r.names[k] = NameOf(c.p, k)
  <2> DEFINE K == {hid(c) : c \in calls}
  <2>1. For(names, K)
    BY <1>4 DEF For
  <2> HIDE DEF K
  <2>2. Inserted(r.names, maps.names, names, K)
    BY <1>1, <1>2, <2>1, InsertFacts
  <2>3. ASSUME NEW k \in DOMAIN r.names \ DOMAIN maps.names
        PROVE  \E c \in calls : k = hid(c) /\ r.names[k] = NameOf(c.p, k)
    <3>1. PICK v \in names : v.key = k /\ r.names[k] = v.value
      BY <2>2 DEF Inserted
    <3>2. QED
      BY <1>4, <3>1
  <2>4. QED
    BY <2>2, <2>3 DEF K, Inserted
<1>8. /\ DOMAIN r.materials = DOMAIN maps.materials \cup {hid(c) : c \in with}
      /\ \A k \in DOMAIN maps.materials : r.materials[k] = maps.materials[k]
      /\ \A k \in DOMAIN r.materials \ DOMAIN maps.materials : \E c \in with :
            k = hid(c) /\ r.materials[k] = MaterialOf(c.p)
  <2> DEFINE K == {hid(c) : c \in with}
  <2>1. For(materials, K)
    BY <1>5 DEF For
  <2> HIDE DEF K
  <2>2. Inserted(r.materials, maps.materials, materials, K)
    BY <1>1, <1>2, <2>1, InsertFacts
  <2>3. ASSUME NEW k \in DOMAIN r.materials \ DOMAIN maps.materials
        PROVE  \E c \in with : k = hid(c) /\ r.materials[k] = MaterialOf(c.p)
    <3>1. PICK v \in materials : v.key = k /\ r.materials[k] = v.value
      BY <2>2 DEF Inserted
    <3>2. QED
      BY <1>5, <3>1
  <2>4. QED
    BY <2>2, <2>3 DEF K, Inserted
<1>9. QED
  BY <1>6, <1>7, <1>8, Zenon DEF r, hid, with

-----------------------------------------------------------------------------
(* The inductive invariant *)

\* What sessions write is a map of some numbers, as is every list.
Numbered(s) == \E n \in Nat : DOMAIN s \subseteq 1 .. n

Readable(f) ==
  IF f.format = "brep"
    THEN Numbered(f.content) /\ \A s \in ToSet(f.content) : s.geometry \in Geometries
    ELSE WellFormed(f)

InputInv ==
  /\ Listed(input.entries)
  /\ \A f \in ToSet(input.entries) : Readable(f)
  /\ Numbered(input.metadata.rows)
  /\ at \in 1 .. Len(input.entries) + 1
  /\ reading = "published" => at = Len(input.entries) + 1
  /\ unreadable \subseteq 1 .. at - 1
  /\ WellFormedObjects(tempDir.objects)
  /\ session = 1 => ToSet(tempDir.objects) \subseteq AllObjects
  /\ session = 2 => \A f \in ToSet(input.entries) : f.format # "freecad"

\* The files before the next one are read, and nothing else.
LoadedInv ==
  /\ DOMAIN loaded = {"solids", "names", "materials", "colours"}
  /\ IsFiniteSet(DOMAIN loaded.solids)
  /\ \A k \in DOMAIN loaded.solids : loaded.solids[k].geometry \in Geometries
  /\ \A k \in DOMAIN loaded.solids \ collision : k[1] \in 1 .. at - 1
  /\ \A k \in DOMAIN loaded.names \ collision : k[1] \in 1 .. at - 1
  /\ \A k \in DOMAIN loaded.materials \ collision : k[1] \in 1 .. at - 1
  /\ \A e \in readable : e < at => Arrived(e, Wanted(e))
  /\ \A k \in DOMAIN loaded.solids : Expected(k)
  /\ \A k \in DOMAIN loaded.solids \ collision : Own(k)

\* Workers find the error of each of their items in the map.
ItemsInv ==
  /\ reading \in {"files", "published", "failed"}
  /\ session \in {1, 2}
  /\ config \in Configs
  /\ stage \in 1 .. Len(Processors) + 1
  /\ reading = "files" => /\ DOMAIN myShapeErrors = {} /\ todo = {} /\ mySolidIDs = <<>>
                          /\ session = 1 => stage = 1
  /\ reading = "published" => /\ DOMAIN myShapeErrors = DOMAIN loaded.solids
                              /\ mySolidIDs \in Seq(DOMAIN loaded.solids)
  /\ todo # {} => /\ session = 1 /\ reading = "published"
                  /\ stage <= Len(Processors) /\ Processors[stage] # "CollisionDetector"
  /\ todo \subseteq 1 .. itemCount

\* What a row says.
Describes(row, name, material, geometry) ==
  /\ Has(row, "name") /\ row["name"] = name
  /\ Has(row, "material") /\ row["material"] = material
  /\ row["uniqueId"] = geometryUniqueId(geometry)

\* Rows are of items that are not suppressed.
KeptRows(rows) ==
  /\ Numbered(rows)
  /\ \A p \in ToSet(rows) : Has(p, "suppressed") /\ p["suppressed"] = FALSE /\ ~Has(p, "groups")

\* The rows of a metadata file are of items, of all that are not suppressed, each with the
\* identifier of what was measured of it.
TellsOfItems(f) ==
  /\ keptItems \subseteq DOMAIN f.rows /\ DOMAIN f.rows \subseteq 1 .. itemCount
  /\ \A i \in DOMAIN f.rows : Describes(f.rows[i], itemName(i), itemMaterial(i), f.measured[i])

FileOfRows(f) ==
  /\ f.exists /\ KeptRows(f.rows)
  /\ \A i \in DOMAIN f.rows : f.measured[i] \in Geometries

\* Names and materials do not change after the reader, and suppressed items stay so.
MeasuredInv ==
  /\ Listed(metadata) /\ \A f \in ToSet(metadata) : FileOfRows(f)
  /\ session = 1 /\ reading = "files" => metadata = <<>>
  /\ session = 1 /\ reading = "published" =>
       /\ stage <= Len(Processors) /\ Processors[stage] = "GeometryPropertyBuilder" =>
            \A i \in 1 .. itemCount \ todo :
               /\ i \in DOMAIN myGeometryUniqueIds
               /\ myGeometryUniqueIds[i] = geometryUniqueId(item(i).geometry)
       /\ \A f \in ToSet(metadata) : TellsOfItems(f)

\* A solid that came back has the metadata of a row with its identifier.
Recognised(k) ==
  LET rows == input.metadata.rows
      gid  == geometryUniqueId(loaded.solids[k].geometry)
  IN  \/ \E j \in DOMAIN rows : rows[j]["uniqueId"] = gid /\ HasMetadataOf(k, j)
      \/ /\ \A j \in DOMAIN rows : rows[j]["uniqueId"] # gid
         /\ loaded.names[k] = <<"shape", k>> /\ k \notin DOMAIN loaded.materials

\* The metadata file that session two is given is one of session one.
GivenInv ==
  /\ FileOfRows(input.metadata)
  /\ KeptItems \subseteq DOMAIN input.metadata.rows
  /\ \A i \in DOMAIN input.metadata.rows :
       Describes(input.metadata.rows[i], original[i].name, original[i].material,
                 input.metadata.measured[i])

BackInv ==
  session = 2 =>
    /\ Len(input.entries) = 1 /\ input.entries[1].format = config.format
    /\ config.format = "brep" =>
         /\ DOMAIN input.entries[1].content = KeptItems
         /\ \A i \in KeptItems : input.entries[1].content[i].part = i
    /\ KeptRows(input.metadata.rows)
    /\ input.metadata.exists => GivenInv
    /\ at = 1 => loaded = Empty
    /\ at = 2 /\ config.format = "brep" =>
         /\ \A k \in DOMAIN loaded.solids \ collision : k[2] \in KeptItems
         /\ \A i \in KeptItems : <<1, i>> \in DOMAIN loaded.solids \cup collision
         /\ input.metadata.exists =>
              \A k \in DOMAIN loaded.solids \ collision : Recognised(k)

IInv == ItemsInv /\ InputInv /\ LoadedInv /\ MeasuredInv /\ BackInv

-----------------------------------------------------------------------------
(* A file is read *)

LEMMA ListedFacts ==
  ASSUME NEW s, Listed(s)
  PROVE  /\ Len(s) \in Nat /\ DOMAIN s = 1 .. Len(s) /\ Numbered(s)
         /\ \A i \in DOMAIN s : s[i] \in ToSet(s)
         /\ \A x \in ToSet(s) : \E i \in DOMAIN s : x = s[i]
<1>1. Len(s) \in Nat /\ DOMAIN s = 1 .. Len(s)
  BY DEF Listed
<1>2. QED
  BY <1>1 DEF Numbered, ToSet

\* What the properties say of an entry depends on the input only.
LEMMA SameEntry ==
  ASSUME input' = input
  PROVE  /\ \A e : Wanted(e)' = Wanted(e)
         /\ \A e, part, from : OwnMetas(e, part, from)' = OwnMetas(e, part, from)
         /\ AllObjects' = AllObjects
         /\ \A k, metas, name : OwnName(k, metas, name)' = OwnName(k, metas, name)
<1>1. AllObjects' = AllObjects
  BY Zenon DEF AllObjects
<1>2. \A e : Wanted(e)' = Wanted(e)
  BY Zenon DEF Wanted
<1>3. \A e, part, from : OwnMetas(e, part, from)' = OwnMetas(e, part, from)
  BY <1>1, Zenon DEF OwnMetas
<1>4. \A k, metas, name : OwnName(k, metas, name)' = OwnName(k, metas, name)
  BY <1>1, Zenon DEF OwnName
<1>5. QED
  BY <1>1, <1>2, <1>3, <1>4

\* Maps that have grown by the file of the next entry: keys that were there stay.
Grown(new, old) ==
  /\ DOMAIN old \subseteq DOMAIN new
  /\ \A k \in DOMAIN new : k \in DOMAIN old \/ k \in collision \/ k[1] = at
  /\ \A k \in DOMAIN old \ collision : new[k] = old[k]

\* It is enough to look at the keys of this file.
LEMMA LoadedStep ==
  ASSUME InputInv, LoadedInv, at <= Len(input.entries),
         input' = input, collision' = collision, at' = at + 1,
         unreadable' \in {unreadable, unreadable \cup {at}},
         Grown(loaded'.solids, loaded.solids), Grown(loaded'.names, loaded.names),
         Grown(loaded'.materials, loaded.materials),
         DOMAIN loaded' = {"solids", "names", "materials", "colours"},
         IsFiniteSet(DOMAIN loaded'.solids),
         \A k \in DOMAIN loaded'.solids : loaded'.solids[k].geometry \in Geometries,
         \A e \in readable' : e = at => Arrived(e, Wanted(e))',
         \A k \in DOMAIN loaded'.solids \ collision : k[1] = at => Expected(k)' /\ Own(k)'
  PROVE  LoadedInv'
<1>1. /\ at \in Nat /\ at >= 1 /\ unreadable \subseteq 1 .. at - 1
      /\ DOMAIN input.entries = 1 .. Len(input.entries) /\ Len(input.entries) \in Nat
  BY ListedFacts DEF InputInv
<1>2. /\ \A k \in DOMAIN loaded'.solids \ collision' : k[1] \in 1 .. at' - 1
      /\ \A k \in DOMAIN loaded'.names \ collision' : k[1] \in 1 .. at' - 1
      /\ \A k \in DOMAIN loaded'.materials \ collision' : k[1] \in 1 .. at' - 1
  BY <1>1 DEF LoadedInv, Grown
<1>3. \A e \in DOMAIN input.entries : e # at => (e \in readable' <=> e \in readable)
  BY DEF readable
<1>4. ASSUME NEW e \in readable', e < at' PROVE Arrived(e, Wanted(e))'
  <2>1. CASE e = at
    BY <2>1, <1>4
  <2>2. CASE e # at
    <3>1. e \in readable /\ e < at
      BY <1>1, <1>3, <1>4, <2>2 DEF readable
    <3>2. Arrived(e, Wanted(e))
      BY <3>1 DEF LoadedInv
    <3>3. ASSUME NEW s \in Wanted(e)
          PROVE  IF <<e, s.part>> \in collision
                   THEN (CHOOSE c \in collision : TRUE) \in DOMAIN loaded'.solids
                   ELSE /\ <<e, s.part>> \in DOMAIN loaded'.solids
                        /\ loaded'.solids[<<e, s.part>>].file = input.entries[e].file
      BY <3>2, <3>3 DEF Arrived, Grown
    <3>4. QED
      BY <3>3, SameEntry DEF Arrived
  <2>3. QED
    BY <2>1, <2>2
<1>5. ASSUME NEW k \in DOMAIN loaded'.solids, k \in collision \/ k[1] # at PROVE Expected(k)'
  <2>1. CASE k \in collision
    BY <2>1 DEF Expected
  <2>2. CASE k \notin collision
    <3>1. k \in DOMAIN loaded.solids
      BY <1>5, <2>2 DEF Grown
    <3>2. k[1] \in 1 .. at - 1 /\ Expected(k)
      BY <3>1, <2>2 DEF LoadedInv
    <3>3. k[1] \in readable => k[1] \in readable'
      BY <1>1, <3>2 DEF readable
    <3>4. k[1] \in unreadable => k[1] \in unreadable'
      OBVIOUS
    <3>5. QED
      BY <2>2, <3>2, <3>3, <3>4, SameEntry DEF Expected
  <2>3. QED
    BY <2>1, <2>2
<1>6. ASSUME NEW k \in DOMAIN loaded'.solids \ collision', k[1] # at PROVE Own(k)'
  <2>1. k \in DOMAIN loaded.solids \ collision
    BY <1>6 DEF Grown
  <2>2. k[1] \in 1 .. at - 1 /\ Own(k)
    BY <2>1 DEF LoadedInv
  <2>3. loaded'.solids[k] = loaded.solids[k]
    BY <2>1 DEF Grown
  <2>4. k \in DOMAIN loaded'.names =>
           k \in DOMAIN loaded.names /\ loaded'.names[k] = loaded.names[k]
    BY <2>1, <1>6 DEF Grown
  <2>5. k \in DOMAIN loaded'.materials =>
           k \in DOMAIN loaded.materials /\ loaded'.materials[k] = loaded.materials[k]
    BY <2>1, <1>6 DEF Grown
  <2> DEFINE M == OwnMetas(k[1], k[2], loaded.solids[k].file)
  <2>6. \A from : OwnMetas(k[1], k[2], from)' = OwnMetas(k[1], k[2], from)
    BY SameEntry
  <2>7. k \in DOMAIN loaded.materials => OwnMaterial(M, loaded.materials[k])
    BY <2>2, Zenon DEF Own
  <2>8. k \in DOMAIN loaded.names => OwnName(k, M, loaded.names[k])
    BY <2>2, Zenon DEF Own
  <2>9. \A metas, name : OwnName(k, metas, name)' = OwnName(k, metas, name)
    BY SameEntry
  <2>10. QED
    BY <2>3, <2>4, <2>5, <2>6, <2>7, <2>8, <2>9 DEF Own
<1>7. QED
  BY <1>2, <1>4, <1>5, <1>6 DEF LoadedInv

\* Calls of registerShape for the solids that the next entry has to give, of its file;
\* or, when it could not be parsed, for those of an earlier one.
CallsOf(calls, ok) ==
  /\ Ordered(calls)
  /\ IsFiniteSet({HashCode(c.solid.part) : c \in calls})
  /\ \A c \in calls : c.solid.geometry \in Geometries
  /\ ok => /\ \A c \in calls : c.file = entry.file
           /\ \A c \in calls : \E s \in Wanted(at) : s.part = c.solid.part
           /\ \A s \in Wanted(at) : \E c \in calls : s.part = c.solid.part
  /\ ~ok => entry.format = "freecad"

\* Their metadata is that of the solids.
OwnCalls(calls) ==
  \A c, d \in calls : c.solid.part = d.solid.part =>
    LET key == <<at, c.solid.part>>
    IN  /\ OwnName(key, OwnMetas(at, c.solid.part, c.file), NameOf(d.p, key))
        /\ HasMaterial(d.p) => OwnMaterial(OwnMetas(at, c.solid.part, c.file), MaterialOf(d.p))

LEMMA KeyOfCall ==
  ASSUME NEW part, NEW k, k = HashCode(part), k \notin collision
  PROVE  k = <<at, part>> /\ k[1] = at /\ k[2] = part
<1>1. <<at, part>> \notin collision
  BY CodeFacts
<1>2. k = <<at, part>>
  BY <1>1, CodeFacts
<1>3. QED
  BY <1>2

LEMMA RegisterGrows ==
  ASSUME NEW maps, NEW calls, Ordered(calls)
  PROVE  LET r == registerShape(maps, calls)
         IN  /\ Grown(r.solids, maps.solids) /\ Grown(r.names, maps.names)
             /\ Grown(r.materials, maps.materials)
<1> DEFINE r == registerShape(maps, calls)
<1>1. \A c \in calls : HashCode(c.solid.part) \in collision \/ HashCode(c.solid.part)[1] = at
  BY KeyOfCall
<1>2. /\ DOMAIN r.solids = DOMAIN maps.solids \cup {HashCode(c.solid.part) : c \in calls}
      /\ \A k \in DOMAIN maps.solids : r.solids[k] = maps.solids[k]
  BY RegisterFacts
<1>3. /\ DOMAIN r.names = DOMAIN maps.names \cup {HashCode(c.solid.part) : c \in calls}
      /\ \A k \in DOMAIN maps.names : r.names[k] = maps.names[k]
  BY RegisterFacts
<1>4. /\ DOMAIN r.materials = DOMAIN maps.materials \cup
            {HashCode(c.solid.part) : c \in {d \in calls : HasMaterial(d.p)}}
      /\ \A k \in DOMAIN maps.materials : r.materials[k] = maps.materials[k]
  BY RegisterFacts
<1> HIDE DEF r
<1>5. Grown(r.solids, maps.solids)
  BY <1>1, <1>2 DEF Grown
<1>6. Grown(r.names, maps.names)
  BY <1>1, <1>3 DEF Grown
<1>7. Grown(r.materials, maps.materials)
  BY <1>1, <1>4 DEF Grown
<1>8. QED
  BY <1>5, <1>6, <1>7 DEF r

LEMMA CallsStep ==
  ASSUME InputInv, LoadedInv, at <= Len(input.entries), entry.format # "missing",
         NEW calls, NEW ok \in BOOLEAN, CallsOf(calls, ok), OwnCalls(calls),
         input' = input, collision' = collision, at' = at + 1,
         unreadable' = IF ok THEN unreadable ELSE unreadable \cup {at},
         loaded' = registerShape(loaded, calls)
  PROVE  LoadedInv'
<1>1. /\ at \in Nat /\ at >= 1 /\ unreadable \subseteq 1 .. at - 1 /\ at \in DOMAIN input.entries
  BY ListedFacts DEF InputInv
<1>2. Ordered(calls)
  BY DEF CallsOf
<1>3. /\ Grown(loaded'.solids, loaded.solids) /\ Grown(loaded'.names, loaded.names)
      /\ Grown(loaded'.materials, loaded.materials)
  BY <1>2, RegisterGrows
<1>4. /\ DOMAIN loaded'.solids = DOMAIN loaded.solids \cup {HashCode(c.solid.part) : c \in calls}
      /\ \A k \in DOMAIN loaded.solids : loaded'.solids[k] = loaded.solids[k]
      /\ \A k \in DOMAIN loaded'.solids \ DOMAIN loaded.solids : \E c \in calls :
            k = HashCode(c.solid.part) /\ loaded'.solids[k] = SolidOf(c.file, c.solid)
  BY <1>2, RegisterFacts
<1>5. \A k \in DOMAIN loaded'.names \ DOMAIN loaded.names : \E c \in calls :
         k = HashCode(c.solid.part) /\ loaded'.names[k] = NameOf(c.p, k)
  BY <1>2, RegisterFacts
<1>6. \A k \in DOMAIN loaded'.materials \ DOMAIN loaded.materials : \E c \in calls :
         /\ k = HashCode(c.solid.part) /\ HasMaterial(c.p)
         /\ loaded'.materials[k] = MaterialOf(c.p)
  BY <1>2, RegisterFacts
<1>7. IsFiniteSet(DOMAIN loaded'.solids)
  <2> DEFINE old  == DOMAIN loaded.solids
             keys == {HashCode(c.solid.part) : c \in calls}
  <2>1. IsFiniteSet(old) /\ IsFiniteSet(keys) /\ DOMAIN loaded'.solids = old \cup keys
    BY <1>4, Zenon DEF LoadedInv, CallsOf
  <2> HIDE DEF old, keys
  <2>2. QED
    BY <2>1, FS_Union
<1>8. ASSUME NEW k \in DOMAIN loaded'.solids PROVE loaded'.solids[k].geometry \in Geometries
  <2>1. CASE k \in DOMAIN loaded.solids
    BY <1>4, <2>1 DEF LoadedInv
  <2>2. CASE k \notin DOMAIN loaded.solids
    <3>1. PICK c \in calls : loaded'.solids[k] = SolidOf(c.file, c.solid)
      BY <1>4, <2>2
    <3>2. QED
      BY <3>1 DEF CallsOf, SolidOf
  <2>3. QED
    BY <2>1, <2>2
<1>9. \A k : k[1] = at /\ k \notin collision => /\ k \notin DOMAIN loaded.solids
                                                 /\ k \notin DOMAIN loaded.names
                                                 /\ k \notin DOMAIN loaded.materials
  BY <1>1 DEF LoadedInv
<1>10. ASSUME NEW e \in readable', e = at PROVE Arrived(e, Wanted(e))'
  <2>1. ok
    BY <1>10 DEF readable
  <2>2. ASSUME NEW s \in Wanted(at)
        PROVE  IF <<at, s.part>> \in collision
                 THEN (CHOOSE c \in collision : TRUE) \in DOMAIN loaded'.solids
                 ELSE /\ <<at, s.part>> \in DOMAIN loaded'.solids
                      /\ loaded'.solids[<<at, s.part>>].file = entry.file
    <3>1. PICK c \in calls : s.part = c.solid.part
      BY <2>1 DEF CallsOf
    <3>2. HashCode(s.part) \in DOMAIN loaded'.solids
      BY <1>4, <3>1
    <3>3. CASE <<at, s.part>> \in collision
      BY <3>2, <3>3, CodeFacts
    <3>4. CASE <<at, s.part>> \notin collision
      <4> DEFINE k == <<at, s.part>>
      <4>1. k \in DOMAIN loaded'.solids /\ k[1] = at
        BY <3>2, <3>4, CodeFacts
      <4>2. k \notin DOMAIN loaded.solids
        BY <1>9, <3>4, <4>1
      <4>3. PICK d \in calls : loaded'.solids[k] = SolidOf(d.file, d.solid)
        BY <1>4, <4>1, <4>2
      <4>4. loaded'.solids[k].file = entry.file
        BY <2>1, <4>3 DEF CallsOf, SolidOf
      <4>5. QED
        BY <3>4, <4>1, <4>4
    <3>5. QED
      BY <3>3, <3>4
  <2>3. QED
    BY <1>10, <2>2, SameEntry DEF Arrived, entry
<1>11. ASSUME NEW k \in DOMAIN loaded'.solids \ collision, k[1] = at PROVE Expected(k)' /\ Own(k)'
  <2>1. k \notin DOMAIN loaded.solids /\ k \notin DOMAIN loaded.names /\ k \notin DOMAIN loaded.materials
    BY <1>9, <1>11
  <2>2. PICK c \in calls : k = HashCode(c.solid.part) /\ loaded'.solids[k] = SolidOf(c.file, c.solid)
    BY <1>4, <2>1
  <2>3. k = <<at, c.solid.part>> /\ k[2] = c.solid.part
    BY <1>11, <2>2, KeyOfCall
  <2>4. Expected(k)'
    <3>1. CASE ok
      <4>1. at \in readable'
        BY <1>1, <3>1 DEF readable, entry
      <4>2. PICK s \in Wanted(at) : s.part = c.solid.part
        BY <3>1 DEF CallsOf
      <4>3. k[2] \in {w.part : w \in Wanted(at)}
        BY <2>3, <4>2
      <4>4. QED
        BY <1>11, <4>1, <4>3, SameEntry DEF Expected
    <3>2. CASE ~ok
      BY <1>11, <3>2 DEF Expected, CallsOf, entry
    <3>3. QED
      BY <3>1, <3>2
  <2> DEFINE M == OwnMetas(at, c.solid.part, c.file)
  <2>5. k \in DOMAIN loaded'.names => OwnName(k, M, loaded'.names[k])
    <3> SUFFICES ASSUME k \in DOMAIN loaded'.names PROVE OwnName(k, M, loaded'.names[k])
      OBVIOUS
    <3>1. PICK d \in calls : k = HashCode(d.solid.part) /\ loaded'.names[k] = NameOf(d.p, k)
      BY <1>5, <2>1
    <3>2. k[2] = d.solid.part
      BY <1>11, <3>1, KeyOfCall
    <3>3. QED
      BY <2>3, <3>1, <3>2 DEF OwnCalls
  <2>6. k \in DOMAIN loaded'.materials => OwnMaterial(M, loaded'.materials[k])
    <3> SUFFICES ASSUME k \in DOMAIN loaded'.materials PROVE OwnMaterial(M, loaded'.materials[k])
      OBVIOUS
    <3>1. PICK d \in calls : /\ k = HashCode(d.solid.part) /\ HasMaterial(d.p)
                             /\ loaded'.materials[k] = MaterialOf(d.p)
      BY <1>6, <2>1
    <3>2. k[2] = d.solid.part
      BY <1>11, <3>1, KeyOfCall
    <3>3. QED
      BY <2>3, <3>1, <3>2 DEF OwnCalls
  <2>7. M = OwnMetas(k[1], k[2], loaded'.solids[k].file)
    BY <1>11, <2>2, <2>3 DEF SolidOf
  <2> HIDE DEF M
  <2>8. \A from : OwnMetas(k[1], k[2], from)' = OwnMetas(k[1], k[2], from)
    BY SameEntry
  <2>9. \A metas, name : OwnName(k, metas, name)' = OwnName(k, metas, name)
    BY SameEntry
  <2>10. Own(k)'
    BY <2>5, <2>6, <2>7, <2>8, <2>9 DEF Own
  <2>11. QED
    BY <2>4, <2>10
<1>12. /\ unreadable' \in {unreadable, unreadable \cup {at}}
       /\ DOMAIN loaded' = {"solids", "names", "materials", "colours"}
  BY DEF registerShape
<1>13. QED
  BY <1>3, <1>7, <1>8, <1>10, <1>11, <1>12, LoadedStep

\* Numbered things are finitely many.
LEMMA ImageFinite ==
  ASSUME NEW n \in Nat, NEW f, NEW S, \A s \in S : \E i \in 1 .. n : s = f[i]
  PROVE  IsFiniteSet(S)
<1> DEFINE T == {f[i] : i \in 1 .. n}
           g == [i \in 1 .. n |-> f[i]]
<1>1. IsFiniteSet(1 .. n)
  BY FS_Interval
<1>2. g \in Surjection(1 .. n, T)
  BY DEF Surjection
<1>3. IsFiniteSet(T)
  BY <1>1, <1>2, FS_Surjection
<1>4. S \in SUBSET T
  OBVIOUS
<1> HIDE DEF T
<1>5. QED
  BY <1>3, <1>4, FS_Subset

\* The record of an identifier is the last row with it.
LEMMA RecordFacts ==
  ASSUME NEW rows, Numbered(rows)
  PROVE  /\ \A i \in DOMAIN rows : rows[i]["uniqueId"] \in DOMAIN gpMapOf(rows)
         /\ \A g \in DOMAIN gpMapOf(rows) : \E i \in DOMAIN rows :
               /\ rows[i]["uniqueId"] = g /\ gpMapOf(rows)[g] = rows[i]
               /\ \A j \in DOMAIN rows : rows[j]["uniqueId"] = g => j <= i
<1> DEFINE values == {Value(<<i, 0>>, rows[i]["uniqueId"], rows[i]) : i \in DOMAIN rows}
<1>1. PICK n \in Nat : DOMAIN rows \subseteq 1 .. n
  BY DEF Numbered
<1>2. /\ \A v \in values : \E i \in DOMAIN rows :
            /\ v.order[1] = i /\ v.order[2] = 0
            /\ v.key = rows[i]["uniqueId"] /\ v.value = rows[i]
      /\ \A i \in DOMAIN rows : \E v \in values :
            v.order[1] = i /\ v.order[2] = 0 /\ v.key = rows[i]["uniqueId"]
  <2>1. ASSUME NEW i \in DOMAIN rows
        PROVE  \E v \in values : v.order[1] = i /\ v.order[2] = 0 /\ v.key = rows[i]["uniqueId"]
    <3> DEFINE v == Value(<<i, 0>>, rows[i]["uniqueId"], rows[i])
    <3>1. v \in values
      BY Zenon
    <3>2. v.order[1] = i /\ v.order[2] = 0 /\ v.key = rows[i]["uniqueId"]
      BY DEF Value
    <3>3. QED
      BY <3>1, <3>2, Zenon
  <2>2. QED
    BY <2>1 DEF Value
<1>3. gpMapOf(rows) = assign(NoMap, values)
  BY DEF gpMapOf
<1> HIDE DEF values
<1>4. Ending(values)
  <2>1. Ordered(values)
    BY <1>1, <1>2 DEF Ordered
  <2>2. \A v \in values : v.order[1] <= n /\ v.order[2] <= 0
    BY <1>1, <1>2
  <2>3. QED
    BY <2>1, <2>2 DEF Ending
<1>5. Keys(values) = {v.key : v \in values} /\ DOMAIN NoMap = {}
  BY DEF Keys, NoMap
<1>6. DOMAIN gpMapOf(rows) = Keys(values)
  BY <1>3, <1>5 DEF assign
<1>7. ASSUME NEW g \in DOMAIN gpMapOf(rows)
      PROVE  \E i \in DOMAIN rows :
               /\ rows[i]["uniqueId"] = g /\ gpMapOf(rows)[g] = rows[i]
               /\ \A j \in DOMAIN rows : rows[j]["uniqueId"] = g => j <= i
  <2>1. PICK v \in values : /\ v.key = g /\ gpMapOf(rows)[g] = v.value
                            /\ \A w \in Of(values, g) : Before(w.order, v.order)
    <3>1. Latest(Of(values, g)) \in values /\ Latest(Of(values, g)).key = g
          /\ \A w \in Of(values, g) : Before(w.order, Latest(Of(values, g)).order)
      BY <1>4, <1>6, <1>7, LatestIsOne
    <3>2. gpMapOf(rows)[g] = Latest(Of(values, g)).value
      BY <1>3, <1>6, <1>7 DEF assign
    <3>3. QED
      BY <3>1, <3>2
  <2>2. PICK i \in DOMAIN rows :
           v.order[1] = i /\ v.order[2] = 0 /\ v.key = rows[i]["uniqueId"] /\ v.value = rows[i]
    BY <1>2
  <2>3. ASSUME NEW j \in DOMAIN rows, rows[j]["uniqueId"] = g PROVE j <= i
    <3>1. PICK w \in values : w.order[1] = j /\ w.key = g
      BY <1>2, <2>3
    <3>2. Before(w.order, v.order)
      BY <2>1, <3>1 DEF Of
    <3>3. i \in Nat /\ j \in Nat
      BY <1>1
    <3>4. QED
      BY <2>2, <3>1, <3>2, <3>3 DEF Before
  <2>4. QED
    BY <2>1, <2>2, <2>3
<1>8. \A i \in DOMAIN rows : rows[i]["uniqueId"] \in DOMAIN gpMapOf(rows)
  BY <1>2, <1>5, <1>6
<1>9. QED
  BY <1>7, <1>8

\* What a solid of a brep file is given: the last row with its identifier.
LEMMA RecordOfSolid ==
  ASSUME NEW rows, Numbered(rows), NEW s
  PROVE  LET p  == RecordOf(s, gpMapOf(rows))
             of == {i \in DOMAIN rows : rows[i]["uniqueId"] = geometryUniqueId(s.geometry)}
         IN  \/ /\ of # {}
                /\ \E i \in of : p = rows[i] /\ \A j \in of : j <= i
             \/ of = {} /\ DOMAIN rows # {} /\ p = Null
             \/ of = {} /\ DOMAIN rows = {} /\ p = [name |-> <<"geometry">>, material |-> "unknown"]
<1> DEFINE gid == geometryUniqueId(s.geometry)
           of == {i \in DOMAIN rows : rows[i]["uniqueId"] = gid}
           m == gpMapOf(rows)
           p == RecordOf(s, m)
<1>1. /\ \A i \in DOMAIN rows : rows[i]["uniqueId"] \in DOMAIN m
      /\ \A g \in DOMAIN m : \E i \in DOMAIN rows :
               /\ rows[i]["uniqueId"] = g /\ m[g] = rows[i]
               /\ \A j \in DOMAIN rows : rows[j]["uniqueId"] = g => j <= i
  BY RecordFacts
<1> HIDE DEF m
<1>2. CASE gid \in DOMAIN m
  <2>1. p = m[gid]
    BY <1>2 DEF RecordOf
  <2>2. PICK i \in DOMAIN rows : /\ rows[i]["uniqueId"] = gid /\ m[gid] = rows[i]
                                 /\ \A j \in DOMAIN rows : rows[j]["uniqueId"] = gid => j <= i
    BY <1>1, <1>2
  <2>3. QED
    BY <2>1, <2>2 DEF m
<1>3. CASE gid \notin DOMAIN m
  <2>1. of = {}
    BY <1>1, <1>3
  <2>2. DOMAIN m = {} <=> DOMAIN rows = {}
    BY <1>1
  <2>3. p = IF DOMAIN m = {} THEN [name |-> <<"geometry">>, material |-> "unknown"] ELSE Null
    BY <1>3 DEF RecordOf
  <2>4. QED
    BY <2>1, <2>2, <2>3 DEF m
<1>4. QED
  BY <1>2, <1>3

\* Metadata of the solid gives it a material of its own.
LEMMA MaterialIsOwn ==
  ASSUME NEW metas, NEW p \in metas, HasMaterial(p)
  PROVE  OwnMaterial(metas, MaterialOf(p))
<1>1. CASE Has(p, "material")
  BY <1>1 DEF OwnMaterial, Said, MaterialOf
<1>2. CASE ~Has(p, "material")
  <2> DEFINE g == p["groups"]
  <2>1. Has(p, "groups") /\ g # <<>> /\ MaterialOf(p) = g[1]
    BY <1>2 DEF HasMaterial, MaterialOf
  <2>2. g \in Said(metas, "groups")
    BY <2>1 DEF Said
  <2> HIDE DEF g
  <2>3. QED
    BY <2>1, <2>2 DEF OwnMaterial
<1>3. QED
  BY <1>1, <1>2

IsSuppressed(p) == Has(p, "suppressed") /\ p["suppressed"]

\* The calls for a brep file.
BrepCalls(calls, file, content, gpMap) ==
  /\ Ordered(calls)
  /\ IsFiniteSet({HashCode(c.solid.part) : c \in calls})
  /\ \A c \in calls : \E i \in DOMAIN content :
       /\ c.file = file /\ c.solid = content[i]
       /\ c.p = RecordOf(content[i], gpMap) /\ ~IsSuppressed(c.p)
  /\ \A i \in DOMAIN content : ~IsSuppressed(RecordOf(content[i], gpMap)) =>
       \E c \in calls : c.solid = content[i]

LEMMA BrepIsCalls ==
  ASSUME NEW maps, NEW file, NEW content, Numbered(content), NEW gpMap
  PROVE  \E calls : /\ BrepCalls(calls, file, content, gpMap)
                    /\ loadBrepShapes(maps, file, content, gpMap) = registerShape(maps, calls)
<1> DEFINE p(i) == RecordOf(content[i], gpMap)
           kept == {i \in DOMAIN content : ~IsSuppressed(p(i))}
           calls == {Call(<<i, 0>>, file, content[i], p(i)) : i \in kept}
<1>1. loadBrepShapes(maps, file, content, gpMap) = registerShape(maps, calls)
  <2> DEFINE suppressed == {i \in DOMAIN content : Has(p(i), "suppressed") /\ p(i)["suppressed"]}
  <2>1. kept = DOMAIN content \ suppressed
    BY DEF IsSuppressed
  <2>2. loadBrepShapes(maps, file, content, gpMap) =
          registerShape(maps, {Call(<<i, 0>>, file, content[i], p(i))
                                 : i \in DOMAIN content \ suppressed})
    BY DEF loadBrepShapes
  <2>3. QED
    BY <2>1, <2>2, Zenon
<1>2. PICK n \in Nat : DOMAIN content \subseteq 1 .. n
  BY DEF Numbered
<1> HIDE DEF p
<1>3. ASSUME NEW c \in calls
      PROVE  \E i \in kept : /\ c.order[1] = i /\ c.order[2] = 0
                             /\ c.file = file /\ c.solid = content[i] /\ c.p = p(i)
  BY DEF Call
<1>4. ASSUME NEW i \in kept PROVE \E c \in calls : c.solid = content[i]
  <2>1. Call(<<i, 0>>, file, content[i], p(i)) \in calls
    BY Zenon
  <2>2. Call(<<i, 0>>, file, content[i], p(i)).solid = content[i]
    BY DEF Call
  <2>3. QED
    BY <2>1, <2>2, Zenon
<1>5. kept \subseteq 1 .. n
  BY <1>2
<1> HIDE DEF calls
<1>6. Ordered(calls)
  BY <1>3, <1>5 DEF Ordered
<1>7. IsFiniteSet({HashCode(c.solid.part) : c \in calls})
  <2> DEFINE f == [i \in 1 .. n |-> HashCode(content[i].part)]
             S == {HashCode(c.solid.part) : c \in calls}
  <2>1. \A s \in S : \E i \in 1 .. n : s = f[i]
    BY <1>3, <1>5
  <2> HIDE DEF f, S
  <2>2. IsFiniteSet(S)
    BY <2>1, ImageFinite
  <2>3. QED
    BY <2>2 DEF S
<1>8. BrepCalls(calls, file, content, gpMap)
  BY <1>3, <1>4, <1>6, <1>7 DEF BrepCalls, p
<1>9. QED
  BY <1>1, <1>8

LEMMA BrepStep ==
  ASSUME InputInv, LoadedInv, readBrep
  PROVE  LoadedInv'
<1> DEFINE rows == IF input.metadata.exists THEN input.metadata.rows ELSE <<>>
           gpMap == gpMapOf(rows)
           content == entry.content
           of(s) == {i \in DOMAIN rows : rows[i]["uniqueId"] = geometryUniqueId(s.geometry)}
           p(s) == RecordOf(s, gpMap)
<1>1. /\ at <= Len(input.entries) /\ entry.format = "brep" /\ input' = input /\ collision' = collision
      /\ at' = at + 1 /\ unreadable' = unreadable
      /\ loaded' = loadBrepShapes(loaded, entry.file, content, gpMap)
  BY DEF readBrep, NextFile, Loaded
<1>2. at \in DOMAIN input.entries /\ entry \in ToSet(input.entries)
  BY <1>1, ListedFacts DEF InputInv, entry
<1>3. Numbered(content) /\ \A s \in ToSet(content) : s.geometry \in Geometries
  BY <1>1, <1>2 DEF InputInv, Readable
<1>4. Numbered(rows)
  <2>1. Numbered(<<>>)
    BY DEF Numbered
  <2>2. QED
    BY <2>1 DEF InputInv
<1> HIDE DEF rows
<1>5. \A s : \/ \E i \in of(s) : p(s) = rows[i] /\ \A j \in of(s) : j <= i
             \/ of(s) = {} /\ DOMAIN rows # {} /\ p(s) = Null
             \/ of(s) = {} /\ DOMAIN rows = {}
                  /\ p(s) = [name |-> <<"geometry">>, material |-> "unknown"]
  <2> TAKE s
  <2>1. of(s) # {} <=> \E i \in of(s) : TRUE
    OBVIOUS
  <2>2. QED
    BY <1>4, <2>1, RecordOfSolid
<1>6. PICK calls : BrepCalls(calls, entry.file, content, gpMap) /\ loaded' = registerShape(loaded, calls)
  BY <1>1, <1>3, BrepIsCalls DEF rows
<1>7. Wanted(at) = {s \in ToSet(content) : ~\E i \in of(s) : /\ \A j \in of(s) : j <= i
                                                             /\ Has(rows[i], "suppressed")
                                                             /\ rows[i]["suppressed"]}
  BY <1>1, Zenon DEF Wanted, entry, rows
<1> HIDE DEF content
<1>8. ASSUME NEW s \in ToSet(content) PROVE s \in Wanted(at) <=> ~IsSuppressed(p(s))
  <2>1. DOMAIN rows \subseteq Nat
    BY <1>4 DEF Numbered
  <2>2. \A i, j \in of(s) : i <= j /\ j <= i => i = j
    BY <2>1
  <2>3. CASE \E i \in of(s) : p(s) = rows[i] /\ \A j \in of(s) : j <= i
    BY <1>7, <1>8, <2>2, <2>3 DEF IsSuppressed
  <2>4. CASE of(s) = {} /\ ~Has(p(s), "suppressed")
    BY <1>7, <1>8, <2>4 DEF IsSuppressed
  <2>5. ~Has(Null, "suppressed") /\ ~Has([name |-> <<"geometry">>, material |-> "unknown"], "suppressed")
    BY DEF Has, Null
  <2>6. QED
    BY <1>5, <2>3, <2>4, <2>5
<1> HIDE DEF p
<1>9. CallsOf(calls, TRUE)
  <2>1. ASSUME NEW c \in calls
        PROVE  /\ c.solid.geometry \in Geometries /\ c.file = entry.file
               /\ \E s \in Wanted(at) : s.part = c.solid.part
    <3>1. PICK i \in DOMAIN content : /\ c.file = entry.file /\ c.solid = content[i]
                                      /\ c.p = p(content[i]) /\ ~IsSuppressed(c.p)
      BY <1>6 DEF BrepCalls, p
    <3>2. content[i] \in ToSet(content)
      BY DEF ToSet
    <3>3. QED
      BY <1>3, <1>8, <3>1, <3>2
  <2>2. ASSUME NEW s \in Wanted(at) PROVE \E c \in calls : s.part = c.solid.part
    <3>1. PICK i \in DOMAIN content : s = content[i] /\ s \in ToSet(content)
      BY <1>7 DEF ToSet
    <3>2. PICK c \in calls : c.solid = content[i]
      BY <1>6, <1>8, <3>1 DEF BrepCalls, p
    <3>3. QED
      BY <3>1, <3>2
  <2>3. QED
    BY <1>6, <2>1, <2>2 DEF BrepCalls, CallsOf
<1>10. OwnCalls(calls)
  <2> SUFFICES ASSUME NEW c \in calls, NEW d \in calls, c.solid.part = d.solid.part
               PROVE  LET key == <<at, c.solid.part>>
                          metas == OwnMetas(at, c.solid.part, c.file)
                      IN  /\ OwnName(key, metas, NameOf(d.p, key))
                          /\ HasMaterial(d.p) => OwnMaterial(metas, MaterialOf(d.p))
    BY DEF OwnCalls
  <2> DEFINE key == <<at, c.solid.part>>
             metas == OwnMetas(at, c.solid.part, c.file)
  <2>1. PICK i \in DOMAIN content : d.solid = content[i] /\ d.p = p(content[i])
    BY <1>6 DEF BrepCalls, p
  <2>2. d.solid \in ToSet(content) /\ d.solid.part = c.solid.part
    BY <2>1 DEF ToSet
  <2>3. metas = IF ~input.metadata.exists \/ DOMAIN input.metadata.rows = {}
                  THEN {[name |-> <<"geometry">>, material |-> "unknown"]}
                  ELSE {r \in ToSet(input.metadata.rows) :
                          \E s \in ToSet(content) :
                             s.part = c.solid.part /\ r["uniqueId"] = geometryUniqueId(s.geometry)}
    BY <1>1, Zenon DEF OwnMetas, entry, content
  <2>4. \A r \in of(d.solid) : rows[r] \in metas
    BY <2>2, <2>3 DEF rows, ToSet
  <2>5. NameOf(Null, key) = <<"shape", key>> /\ ~HasMaterial(Null)
    BY DEF NameOf, HasMaterial, Has, Null
  <2> HIDE DEF key, metas
  <2>6. CASE \E r \in of(d.solid) : d.p = rows[r]
    <3>1. d.p \in metas
      BY <2>4, <2>6
    <3>2. OwnName(key, metas, NameOf(d.p, key))
      BY <3>1 DEF OwnName, Said, NameOf
    <3>3. QED
      BY <3>1, <3>2, MaterialIsOwn DEF key, metas
  <2>7. CASE d.p = Null
    BY <2>5, <2>7 DEF OwnName, key, metas
  <2>8. CASE DOMAIN rows = {} /\ d.p = [name |-> <<"geometry">>, material |-> "unknown"]
    <3>1. d.p \in metas
      BY <2>3, <2>8 DEF rows, metas
    <3>2. Has(d.p, "name")
      BY <2>8 DEF Has
    <3>3. OwnName(key, metas, NameOf(d.p, key))
      BY <3>1, <3>2 DEF OwnName, Said, NameOf
    <3>4. QED
      BY <3>1, <3>3, MaterialIsOwn DEF key, metas
  <2>9. QED
    BY <1>5, <2>1, <2>6, <2>7, <2>8 DEF p
<1>11. QED
  BY <1>1, <1>6, <1>9, <1>10, CallsStep

\* So are things with two numbers.
Pairs(S, n, m, f) ==
  /\ n \in Nat /\ \A i \in 1 .. n : m[i] \in Nat
  /\ \A s \in S : \E i \in 1 .. n : \E j \in 1 .. m[i] : s = f[i][j]

LEMMA PairsFinite ==
  ASSUME NEW S, NEW n, NEW m, NEW f, Pairs(S, n, m, f)
  PROVE  IsFiniteSet(S)
<1> DEFINE part(i) == {f[i][j] : j \in 1 .. m[i]}
           parts == [i \in 1 .. n |-> part(i)]
           all == {parts[i] : i \in 1 .. n}
<1>0. n \in Nat /\ \A i \in 1 .. n : m[i] \in Nat
  BY DEF Pairs
<1>1. ASSUME NEW i \in 1 .. n PROVE IsFiniteSet(part(i))
  <2> DEFINE P == part(i)
             count == m[i]
             row == f[i]
  <2>1. count \in Nat /\ \A x \in P : \E j \in 1 .. count : x = row[j]
    BY <1>0
  <2> HIDE DEF P, count, row
  <2>2. IsFiniteSet(P)
    BY <2>1, ImageFinite
  <2>3. QED
    BY <2>2 DEF P
<1>2. \A x \in all : \E i \in 1 .. n : x = parts[i]
  OBVIOUS
<1>3. \A i \in 1 .. n : parts[i] = part(i) /\ IsFiniteSet(parts[i])
  BY <1>1
<1>4. ASSUME NEW s \in S PROVE s \in UNION all
  <2>1. PICK i \in 1 .. n : \E j \in 1 .. m[i] : s = f[i][j]
    BY DEF Pairs
  <2>2. s \in part(i) /\ parts[i] \in all
    BY <2>1
  <2>3. QED
    BY <1>3, <2>2
<1> HIDE DEF all, parts, part
<1>5. IsFiniteSet(all)
  <2>1. n \in Nat
    BY <1>0
  <2>2. QED
    BY <1>2, <2>1, ImageFinite
<1>6. IsFiniteSet(UNION all)
  BY <1>2, <1>3, <1>5, FS_UNION
<1>7. S \in SUBSET UNION all
  BY <1>4
<1>8. QED
  BY <1>6, <1>7, FS_Subset

\* A FreeCAD object that is loaded.
Shown(o) == o.type \in {"SOLID", "COMPOUND"} /\ (Has(o.meta, "visible") => o.meta["visible"])

\* The calls for the objects of a metadata.json.
FreeCADCalls(calls, objects) ==
  /\ Ordered(calls)
  /\ IsFiniteSet({HashCode(c.solid.part) : c \in calls})
  /\ \A c \in calls : \E o \in ToSet(objects) : \E j \in DOMAIN o.solids :
       /\ Shown(o) /\ c.file = o.file /\ c.solid = o.solids[j]
       /\ \/ c.p = o.meta
          \/ c.p = assignOne(o.meta, "name", o.meta["name"] \o <<"component", j - 1>>)
  /\ \A o \in ToSet(objects) : Shown(o) => \A s \in ToSet(o.solids) : \E c \in calls : c.solid = s

LEMMA FreeCADIsCalls ==
  ASSUME NEW maps, NEW objects, WellFormedObjects(objects)
  PROVE  \E calls : /\ FreeCADCalls(calls, objects)
                    /\ loadFreeCADShapes(maps, objects) = registerShape(maps, calls)
<1> DEFINE visible == {i \in DOMAIN objects :
                         Has(objects[i].meta, "visible") => objects[i].meta["visible"]}
           of(i) == IF objects[i].type = "SOLID"
                      THEN {Call(<<i, 1>>, objects[i].file, objects[i].solids[1], objects[i].meta)}
                      ELSE registerCompoundShape(i, objects[i])
           calls == UNION {of(i) : i \in visible}
           n == Len(objects)
           m == [i \in 1 .. n |-> Len(objects[i].solids)]
<1>1. loadFreeCADShapes(maps, objects) = registerShape(maps, calls)
  BY Zenon DEF loadFreeCADShapes
<1>2. n \in Nat /\ DOMAIN objects = 1 .. n /\ \A i \in 1 .. n : objects[i] \in ToSet(objects)
  BY ListedFacts DEF WellFormedObjects
<1>3. \A i \in 1 .. n : /\ m[i] \in Nat /\ DOMAIN objects[i].solids = 1 .. m[i]
                        /\ objects[i].type \in {"SOLID", "COMPOUND", "COMPSOLID"}
                        /\ objects[i].type = "SOLID" => m[i] = 1
  BY <1>2, ListedFacts DEF WellFormedObjects, Measured
<1> HIDE DEF m, n
<1>4. ASSUME NEW i \in 1 .. n, i \in visible, NEW c \in of(i)
      PROVE  \E j \in 1 .. m[i] :
               /\ c.order[1] = i /\ c.order[2] = j
               /\ Shown(objects[i]) /\ c.file = objects[i].file /\ c.solid = objects[i].solids[j]
               /\ \/ c.p = objects[i].meta
                  \/ c.p = assignOne(objects[i].meta, "name",
                                     objects[i].meta["name"] \o <<"component", j - 1>>)
  <2>1. CASE objects[i].type = "SOLID"
    <3>1. c = Call(<<i, 1>>, objects[i].file, objects[i].solids[1], objects[i].meta)
      BY <1>4, <2>1
    <3>2. 1 \in 1 .. m[i]
      BY <1>3, <2>1
    <3>3. c.order[1] = i /\ c.order[2] = 1 /\ c.file = objects[i].file
          /\ c.solid = objects[i].solids[1] /\ c.p = objects[i].meta
      BY <3>1 DEF Call
    <3>4. Shown(objects[i])
      BY <1>4, <2>1 DEF Shown
    <3>5. QED
      BY <3>2, <3>3, <3>4
  <2>2. CASE objects[i].type = "COMPOUND"
    <3> DEFINE p(j) == assignOne(objects[i].meta, "name",
                                 objects[i].meta["name"] \o <<"component", j - 1>>)
    <3>1. of(i) = {Call(<<i, j>>, objects[i].file, objects[i].solids[j], p(j))
                     : j \in DOMAIN objects[i].solids}
      BY <2>2, Zenon DEF registerCompoundShape
    <3> HIDE DEF p, of
    <3>2. PICK j \in DOMAIN objects[i].solids :
             c = Call(<<i, j>>, objects[i].file, objects[i].solids[j], p(j))
      BY <1>4, <3>1
    <3>3. c.order[1] = i /\ c.order[2] = j /\ c.file = objects[i].file
          /\ c.solid = objects[i].solids[j] /\ c.p = p(j)
      BY <3>2 DEF Call
    <3>4. Shown(objects[i]) /\ j \in 1 .. m[i]
      BY <1>3, <1>4, <2>2 DEF Shown
    <3>5. QED
      BY <3>3, <3>4 DEF p
  <2>3. CASE objects[i].type = "COMPSOLID"
    <3>1. of(i) = {}
      BY <2>3 DEF registerCompoundShape
    <3>2. QED
      BY <1>4, <3>1
  <2>4. QED
    BY <1>3, <2>1, <2>2, <2>3
<1>5. ASSUME NEW i \in 1 .. n, Shown(objects[i]), NEW s \in ToSet(objects[i].solids)
      PROVE  \E c \in calls : c.solid = s
  <2>1. i \in visible
    BY <1>2, <1>5 DEF Shown
  <2>2. PICK j \in 1 .. m[i] : s = objects[i].solids[j]
    BY <1>3 DEF ToSet
  <2>3. \E c \in of(i) : c.solid = s
    <3>1. CASE objects[i].type = "SOLID"
      <4> DEFINE c == Call(<<i, 1>>, objects[i].file, objects[i].solids[1], objects[i].meta)
      <4>1. c \in of(i)
        BY <3>1
      <4>2. j = 1 /\ c.solid = objects[i].solids[1]
        BY <1>3, <3>1 DEF Call
      <4> HIDE DEF c, of
      <4>3. QED
        BY <2>2, <4>1, <4>2
    <3>2. CASE objects[i].type = "COMPOUND"
      <4> DEFINE p(k) == assignOne(objects[i].meta, "name",
                                   objects[i].meta["name"] \o <<"component", k - 1>>)
                 c == Call(<<i, j>>, objects[i].file, objects[i].solids[j], p(j))
      <4>1. of(i) = {Call(<<i, k>>, objects[i].file, objects[i].solids[k], p(k))
                       : k \in DOMAIN objects[i].solids}
        BY <3>2, Zenon DEF registerCompoundShape
      <4>2. c \in of(i)
        BY <1>3, <4>1, Zenon
      <4>3. c.solid = objects[i].solids[j]
        BY DEF Call
      <4> HIDE DEF c, of
      <4>4. QED
        BY <2>2, <4>2, <4>3
    <3>3. QED
      BY <1>3, <1>5, <3>1, <3>2 DEF Shown
  <2>4. QED
    BY <2>1, <2>3
<1>6. ASSUME NEW c \in calls
      PROVE  \E i \in 1 .. n : \E j \in 1 .. m[i] :
               /\ c.order[1] = i /\ c.order[2] = j
               /\ Shown(objects[i]) /\ c.file = objects[i].file /\ c.solid = objects[i].solids[j]
               /\ \/ c.p = objects[i].meta
                  \/ c.p = assignOne(objects[i].meta, "name",
                                     objects[i].meta["name"] \o <<"component", j - 1>>)
  <2> HIDE DEF of
  <2>1. PICK i \in visible : c \in of(i)
    OBVIOUS
  <2>2. i \in 1 .. n
    BY <1>2
  <2>3. QED
    BY <1>4, <2>1, <2>2
<1> HIDE DEF calls
<1>7. Ordered(calls)
  <2>1. ASSUME NEW c \in calls PROVE c.order[1] \in Nat /\ c.order[2] \in Nat
    <3>1. PICK i \in 1 .. n : \E j \in 1 .. m[i] : c.order[1] = i /\ c.order[2] = j
      BY <1>6
    <3>2. PICK j \in 1 .. m[i] : c.order[1] = i /\ c.order[2] = j
      BY <3>1
    <3>3. QED
      BY <1>2, <1>3, <3>2
  <2>2. QED
    BY <2>1 DEF Ordered
<1>8. IsFiniteSet({HashCode(c.solid.part) : c \in calls})
  <2> DEFINE f == [i \in 1 .. n |-> [j \in 1 .. m[i] |-> HashCode(objects[i].solids[j].part)]]
             S == {HashCode(c.solid.part) : c \in calls}
  <2>1. ASSUME NEW s \in S PROVE \E i \in 1 .. n : \E j \in 1 .. m[i] : s = f[i][j]
    <3>1. PICK c \in calls : s = HashCode(c.solid.part)
      OBVIOUS
    <3>2. PICK i \in 1 .. n : \E j \in 1 .. m[i] : c.solid = objects[i].solids[j]
      BY <1>6
    <3>3. PICK j \in 1 .. m[i] : c.solid = objects[i].solids[j]
      BY <3>2
    <3>4. f[i][j] = HashCode(objects[i].solids[j].part)
      OBVIOUS
    <3>5. QED
      BY <3>1, <3>3, <3>4
  <2>2. \A i \in 1 .. n : m[i] \in Nat
    BY <1>3
  <2> HIDE DEF f, S
  <2>3. Pairs(S, n, m, f)
    BY <1>2, <2>1, <2>2 DEF Pairs
  <2>4. IsFiniteSet(S)
    BY <2>3, PairsFinite
  <2>5. QED
    BY <2>4 DEF S
<1>9. ASSUME NEW c \in calls
      PROVE  \E o \in ToSet(objects) : \E j \in DOMAIN o.solids :
               /\ Shown(o) /\ c.file = o.file /\ c.solid = o.solids[j]
               /\ \/ c.p = o.meta
                  \/ c.p = assignOne(o.meta, "name", o.meta["name"] \o <<"component", j - 1>>)
  <2> DEFINE from(i, j) ==
               /\ Shown(objects[i]) /\ c.file = objects[i].file /\ c.solid = objects[i].solids[j]
               /\ \/ c.p = objects[i].meta
                  \/ c.p = assignOne(objects[i].meta, "name",
                                     objects[i].meta["name"] \o <<"component", j - 1>>)
  <2>0. PICK i \in 1 .. n : \E j \in 1 .. m[i] : from(i, j)
    BY <1>6
  <2>1. PICK j \in 1 .. m[i] : from(i, j)
    BY <2>0
  <2>2. objects[i] \in ToSet(objects) /\ j \in DOMAIN objects[i].solids
    BY <1>2, <1>3
  <2>3. QED
    BY <2>1, <2>2
<1>10. ASSUME NEW o \in ToSet(objects), Shown(o), NEW s \in ToSet(o.solids)
       PROVE  \E c \in calls : c.solid = s
  <2>1. PICK i \in 1 .. n : o = objects[i]
    BY <1>2 DEF ToSet
  <2>2. QED
    BY <1>5, <1>10, <2>1
<1>11. FreeCADCalls(calls, objects)
  BY <1>7, <1>8, <1>9, <1>10 DEF FreeCADCalls
<1>12. QED
  BY <1>1, <1>11

\* What is in the folder of the parser was there before or is of the file.
LEMMA FolderFacts ==
  ASSUME InputInv, session = 1, at <= Len(input.entries), entry.format = "freecad",
         tempDir' \in {tempDir, [exists |-> TRUE, objects |-> entry.content]}
  PROVE  /\ WellFormedObjects(tempDir'.objects) /\ ToSet(tempDir'.objects) \subseteq AllObjects
         /\ WellFormed(entry)
<1>1. at \in DOMAIN input.entries /\ entry \in ToSet(input.entries)
  BY ListedFacts DEF InputInv, entry
<1>2. WellFormed(entry)
  BY <1>1 DEF InputInv, Readable
<1>3. WellFormedObjects(entry.content)
  BY <1>2 DEF WellFormed
<1>4. ToSet(entry.content) \subseteq AllObjects
  <2> DEFINE contents == {ToSet(f.content) : f \in {e \in ToSet(input.entries) : e.format = "freecad"}}
             earlier == {ToSet(dir.objects) : dir \in TempDirs}
  <2>1. ToSet(entry.content) \in contents
    BY <1>1
  <2>2. AllObjects = UNION (earlier \cup contents)
    BY Zenon DEF AllObjects
  <2> HIDE DEF earlier, contents
  <2>3. QED
    BY <2>1, <2>2
<1>5. QED
  BY <1>2, <1>3, <1>4 DEF InputInv

LEMMA FreeCADStep ==
  ASSUME InputInv, LoadedInv, session = 1, readFreeCADFile, tempDir'.exists
  PROVE  LoadedInv'
<1>1. /\ at <= Len(input.entries) /\ entry.format = "freecad"
      /\ input' = input /\ collision' = collision
  BY DEF readFreeCADFile, NextFile
<1>2. PICK parsed \in BOOLEAN :
         /\ tempDir' = IF parsed THEN [exists |-> TRUE, objects |-> entry.content] ELSE tempDir
         /\ unreadable' = IF parsed THEN unreadable ELSE unreadable \cup {at}
         /\ at' = at + 1 /\ loaded' = loadFreeCADShapes(loaded, tempDir'.objects)
  BY DEF readFreeCADFile, Loaded
<1> DEFINE objects == tempDir'.objects
<1>3. WellFormedObjects(objects) /\ ToSet(objects) \subseteq AllObjects /\ WellFormed(entry)
  BY <1>1, <1>2, FolderFacts
<1>4. parsed => objects = entry.content
  BY <1>2
<1>5. loaded' = loadFreeCADShapes(loaded, objects)
  BY <1>2
<1> HIDE DEF objects
<1>6. PICK calls : FreeCADCalls(calls, objects) /\ loaded' = registerShape(loaded, calls)
  BY <1>3, <1>5, FreeCADIsCalls
<1>7. Wanted(at) = UNION {ToSet(o.solids) : o \in {p \in ToSet(entry.content) :
                            /\ p.type \in {"SOLID", "COMPOUND"}
                            /\ Has(p.meta, "visible") => p.meta["visible"]}}
  BY <1>1, Zenon DEF Wanted, entry
<1>8. ASSUME NEW c \in calls
      PROVE  \E o \in ToSet(objects) : \E j \in DOMAIN o.solids :
               /\ Shown(o) /\ c.file = o.file /\ c.solid = o.solids[j]
               /\ \/ c.p = o.meta
                  \/ c.p = assignOne(o.meta, "name", o.meta["name"] \o <<"component", j - 1>>)
  BY <1>6 DEF FreeCADCalls
<1>9. CallsOf(calls, parsed)
  <2>1. ASSUME NEW c \in calls
        PROVE  /\ c.solid.geometry \in Geometries
               /\ parsed => c.file = entry.file /\ \E s \in Wanted(at) : s.part = c.solid.part
    <3>1. PICK o \in ToSet(objects) : \E j \in DOMAIN o.solids :
                 Shown(o) /\ c.file = o.file /\ c.solid = o.solids[j]
      BY <1>8
    <3>2. c.solid \in ToSet(o.solids) /\ Shown(o) /\ c.file = o.file
      BY <3>1 DEF ToSet
    <3>3. c.solid.geometry \in Geometries
      BY <1>3, <3>2 DEF WellFormedObjects, Measured
    <3>4. ASSUME parsed PROVE c.file = entry.file /\ c.solid \in Wanted(at)
      <4>1. c.file = entry.file
        BY <1>1, <1>3, <1>4, <3>2, <3>4 DEF WellFormed
      <4>2. c.solid \in Wanted(at)
        BY <1>4, <1>7, <3>2, <3>4 DEF Shown
      <4>3. QED
        BY <4>1, <4>2
    <3>5. QED
      BY <3>3, <3>4
  <2>2. ASSUME parsed, NEW s \in Wanted(at) PROVE \E c \in calls : s.part = c.solid.part
    <3>1. PICK o \in ToSet(objects) : Shown(o) /\ s \in ToSet(o.solids)
      BY <1>4, <1>7, <2>2 DEF Shown
    <3>2. QED
      BY <1>6, <3>1 DEF FreeCADCalls
  <2>3. QED
    BY <1>1, <1>6, <2>1, <2>2 DEF FreeCADCalls, CallsOf
<1>10. OwnCalls(calls)
  <2> SUFFICES ASSUME NEW c \in calls, NEW d \in calls, c.solid.part = d.solid.part
               PROVE  LET key == <<at, c.solid.part>>
                          metas == OwnMetas(at, c.solid.part, c.file)
                      IN  /\ OwnName(key, metas, NameOf(d.p, key))
                          /\ HasMaterial(d.p) => OwnMaterial(metas, MaterialOf(d.p))
    BY DEF OwnCalls
  <2> DEFINE key == <<at, c.solid.part>>
             metas == OwnMetas(at, c.solid.part, c.file)
  <2>1. PICK o \in ToSet(objects) : \E j \in DOMAIN o.solids :
               /\ Shown(o) /\ d.file = o.file /\ d.solid = o.solids[j]
               /\ \/ d.p = o.meta
                  \/ d.p = assignOne(o.meta, "name", o.meta["name"] \o <<"component", j - 1>>)
    BY <1>8
  <2>2. PICK j \in DOMAIN o.solids :
               /\ Shown(o) /\ d.file = o.file /\ d.solid = o.solids[j]
               /\ \/ d.p = o.meta
                  \/ d.p = assignOne(o.meta, "name", o.meta["name"] \o <<"component", j - 1>>)
    BY <2>1
  <2>3. PICK q \in ToSet(objects) : c.file = q.file
    BY <1>8
  <2>4. o.file = c.file /\ o \in AllObjects /\ Has(o.meta, "name")
    BY <1>3, <2>3 DEF WellFormedObjects
  <2>5. metas = {p.meta : p \in {q1 \in AllObjects : /\ q1.file = c.file
                                    /\ c.solid.part \in {s.part : s \in ToSet(q1.solids)}}}
    BY <1>1, Zenon DEF OwnMetas, entry
  <2>6. d.solid \in ToSet(o.solids)
    BY <2>2 DEF ToSet
  <2>7. o.meta \in metas
    BY <2>4, <2>5, <2>6
  <2> HIDE DEF key, metas
  <2>8. CASE d.p = o.meta
    <3>1. OwnName(key, metas, NameOf(d.p, key))
      BY <2>4, <2>7, <2>8 DEF OwnName, Said, NameOf
    <3>2. QED
      BY <2>4, <2>7, <2>8, <3>1, MaterialIsOwn DEF key, metas
  <2>9. CASE d.p = assignOne(o.meta, "name", o.meta["name"] \o <<"component", j - 1>>)
    <3>1. /\ Has(d.p, "name") /\ d.p["name"] = o.meta["name"] \o <<"component", j - 1>>
          /\ Has(d.p, "material") <=> Has(o.meta, "material")
          /\ Has(d.p, "groups") <=> Has(o.meta, "groups")
          /\ Has(o.meta, "material") => d.p["material"] = o.meta["material"]
          /\ Has(o.meta, "groups") => d.p["groups"] = o.meta["groups"]
      BY <2>9 DEF assignOne, Has
    <3>2. NameOf(d.p, key) = o.meta["name"] \o <<"component", j - 1>>
      BY <3>1 DEF NameOf
    <3>3. OwnName(key, metas, NameOf(d.p, key))
      BY <2>2, <2>4, <2>7, <3>2 DEF OwnName
    <3>4. HasMaterial(d.p) => HasMaterial(o.meta) /\ MaterialOf(d.p) = MaterialOf(o.meta)
      BY <3>1 DEF HasMaterial, MaterialOf
    <3>5. QED
      BY <2>4, <2>7, <3>3, <3>4, MaterialIsOwn DEF key, metas
  <2>10. QED
    BY <2>2, <2>8, <2>9
<1>11. QED
  BY <1>1, <1>2, <1>6, <1>9, <1>10, CallsStep

\* The visits of the labels come to an end, and so does all that is told by them.
LEMMA EndingOf ==
  ASSUME NEW V, Ending(V), NEW W, \A w \in W : \E v \in V : w.order = v.order
  PROVE  Ending(W)
<1>1. Ordered(W)
  BY DEF Ending, Ordered
<1>2. PICK n \in Nat : \A v \in V : v.order[1] <= n
  BY DEF Ending
<1>3. \A w \in W : w.order[1] <= n
  BY <1>2
<1>4. ASSUME NEW m \in Nat PROVE \E b \in Nat : \A w \in W : w.order[1] = m => w.order[2] <= b
  <2>1. PICK b \in Nat : \A v \in V : v.order[1] = m => v.order[2] <= b
    BY DEF Ending
  <2>2. \A w \in W : w.order[1] = m => w.order[2] <= b
    BY <2>1
  <2>3. QED
    BY <2>2
<1>5. QED
  BY <1>1, <1>3, <1>4 DEF Ending

WellFormedDoc(doc, file) ==
  /\ Listed(doc)
  /\ \A l \in ToSet(doc) : /\ Measured(l.solids) /\ l.file = file
                           /\ Listed(l.components) /\ Listed(l.children)

LEMMA VisitsEnd ==
  ASSUME NEW doc, NEW file, WellFormedDoc(doc, file)
  PROVE  Ending(Visits(doc))
<1> DEFINE n == Len(doc)
           m(i) == Len(Below(doc[i]))
<1>1. n \in Nat /\ DOMAIN doc = 1 .. n /\ \A i \in 1 .. n : doc[i] \in ToSet(doc)
  BY ListedFacts DEF WellFormedDoc
<1>2. ASSUME NEW i \in 1 .. n PROVE m(i) \in Nat /\ DOMAIN Below(doc[i]) = 1 .. m(i)
  <2> DEFINE c == doc[i].components
             d == doc[i].children
             A == ToSet(c) \cup ToSet(d)
  <2>1. c \in Seq(ToSet(c)) /\ d \in Seq(ToSet(d))
    BY <1>1 DEF WellFormedDoc, Listed
  <2> HIDE DEF c, d
  <2>2. c \in Seq(A) /\ d \in Seq(A)
    BY <2>1
  <2>3. c \o d \in Seq(A)
    BY <2>2, ConcatProperties
  <2>4. Below(doc[i]) = c \o d
    BY DEF Below, c, d
  <2> HIDE DEF A
  <2>5. QED
    BY <2>3, <2>4
<1> HIDE DEF n, m
<1>3. ASSUME NEW v \in Visits(doc)
      PROVE  \E i \in 1 .. n : v.order[1] = i /\ v.order[2] \in 0 .. m(i)
  <2> DEFINE top == {[order |-> <<i, 0>>, label |-> doc[i]] : i \in DOMAIN doc}
             below(i) == {[order |-> <<i, j>>, label |-> Below(doc[i])[j]] : j \in DOMAIN Below(doc[i])}
  <2>1. v \in top \/ \E i \in DOMAIN doc : v \in below(i)
    BY DEF Visits
  <2>2. CASE v \in top
    <3>1. PICK i \in 1 .. n : v = [order |-> <<i, 0>>, label |-> doc[i]]
      BY <1>1, <2>2
    <3>2. QED
      BY <1>2, <3>1
  <2>3. ASSUME NEW i \in DOMAIN doc, v \in below(i)
        PROVE  v.order[1] = i /\ v.order[2] \in 0 .. m(i)
    <3>1. PICK j \in DOMAIN Below(doc[i]) : v = [order |-> <<i, j>>, label |-> Below(doc[i])[j]]
      BY <2>3
    <3>2. j \in 1 .. m(i) /\ m(i) \in Nat
      BY <1>1, <1>2
    <3>3. QED
      BY <3>1, <3>2
  <2>4. QED
    BY <1>1, <2>1, <2>2, <2>3
<1>4. Ordered(Visits(doc)) /\ \A v \in Visits(doc) : v.order[1] <= n
  BY <1>1, <1>2, <1>3 DEF Ordered
<1>5. ASSUME NEW k \in Nat
      PROVE  \E b \in Nat : \A v \in Visits(doc) : v.order[1] = k => v.order[2] <= b
  <2>1. CASE k \in 1 .. n
    <3>1. \A v \in Visits(doc) : v.order[1] = k => v.order[2] <= m(k)
      BY <1>3
    <3>2. QED
      BY <1>2, <2>1, <3>1
  <2>2. CASE k \notin 1 .. n
    BY <1>3, <2>2
  <2>3. QED
    BY <2>1, <2>2
<1>6. QED
  BY <1>1, <1>4, <1>5 DEF Ending

\* What a map has after it was given values f of visits, of those that tell one.
Gained(new, map, told, f) ==
  /\ DOMAIN map \subseteq DOMAIN new
  /\ \A k \in DOMAIN new : \/ k \in DOMAIN map /\ new[k] = map[k]
                           \/ \E v \in told : k = HashCode(v.label.part) /\ new[k] = f[v]

ValuesOf(told, f) == {Value(v.order, HashCode(v.label.part), f[v]) : v \in told}

LEMMA LabelFacts ==
  ASSUME NEW map, NEW visits, Ending(visits), NEW told \in SUBSET visits, NEW f
  PROVE  Gained(assign(map, ValuesOf(told, f)), map, told, f)
<1> DEFINE values == ValuesOf(told, f)
<1>1. \A x \in values : \E v \in told : /\ x.order = v.order /\ x.key = HashCode(v.label.part)
                                        /\ x.value = f[v]
  BY DEF Value, ValuesOf
<1> HIDE DEF values
<1>2. Ending(values)
  BY <1>1, EndingOf
<1> DEFINE new == assign(map, values)
<1>3. Assigned(new, map, values)
  BY <1>2, AssignFacts
<1> HIDE DEF new
<1>4. \A k \in Keys(values) : \E v \in told : k = HashCode(v.label.part) /\ new[k] = f[v]
  BY <1>1, <1>3 DEF Assigned
<1>5. QED
  BY <1>3, <1>4 DEF Assigned, Gained, new, values

\* What the maps say after the labels were visited.
LabelsTold(r, maps, visits, extra) ==
  /\ DOMAIN r = {"solids", "names", "materials", "colours"}
  /\ r.solids = maps.solids
  /\ DOMAIN maps.names \subseteq DOMAIN r.names
  /\ \A k \in DOMAIN r.names :
       \/ k \in DOMAIN maps.names /\ r.names[k] = maps.names[k]
       \/ \E v \in visits : /\ k = HashCode(v.label.part)
                            /\ Has(v.label.meta, "name") \/ ~IsNull(extra)
                            /\ r.names[k] = NameOfLabel(v.label, extra)
  /\ DOMAIN maps.materials \subseteq DOMAIN r.materials
  /\ \A k \in DOMAIN r.materials :
       \/ k \in DOMAIN maps.materials /\ r.materials[k] = maps.materials[k]
       \/ \E v \in visits : /\ k = HashCode(v.label.part)
                            /\ Has(v.label.meta, "material") \/ ~IsNull(extra)
                            /\ r.materials[k] = MaterialOfLabel(v.label, extra)

LEMMA XCAFNames ==
  ASSUME NEW maps, DOMAIN maps = {"solids", "names", "materials", "colours"},
         NEW visits, Ending(visits), NEW extra
  PROVE  LabelsTold(extractXCAFMetadata(maps, visits, extra), maps, visits, extra)
<1> DEFINE r == extractXCAFMetadata(maps, visits, extra)
           told(field) == {v \in visits : Has(v.label.meta, field)}
           given == IF IsNull(extra) THEN {} ELSE visits
           named == told("name") \cup given
           made  == told("material") \cup given
           name == [v \in named |-> NameOfLabel(v.label, extra)]
           material == [v \in made |-> MaterialOfLabel(v.label, extra)]
<1>1. /\ DOMAIN r = {"solids", "names", "materials", "colours"} /\ r.solids = maps.solids
      /\ r.names = assign(maps.names, {Value(v.order, HashCode(v.label.part),
                                             NameOfLabel(v.label, extra)) : v \in named})
      /\ r.materials = assign(maps.materials, {Value(v.order, HashCode(v.label.part),
                                             MaterialOfLabel(v.label, extra)) : v \in made})
  BY DEF extractXCAFMetadata
<1>2. ValuesOf(named, name) =
        {Value(v.order, HashCode(v.label.part), NameOfLabel(v.label, extra)) : v \in named}
  BY DEF ValuesOf
<1>3. ValuesOf(made, material) =
        {Value(v.order, HashCode(v.label.part), MaterialOfLabel(v.label, extra)) : v \in made}
  BY DEF ValuesOf
<1>4. named \in SUBSET visits /\ made \in SUBSET visits
  OBVIOUS
<1>5. /\ \A v \in named : /\ Has(v.label.meta, "name") \/ ~IsNull(extra)
                          /\ name[v] = NameOfLabel(v.label, extra)
      /\ \A v \in made : /\ Has(v.label.meta, "material") \/ ~IsNull(extra)
                         /\ material[v] = MaterialOfLabel(v.label, extra)
  OBVIOUS
<1>6. /\ r.names = assign(maps.names, ValuesOf(named, name))
      /\ r.materials = assign(maps.materials, ValuesOf(made, material))
  BY <1>1, <1>2, <1>3
<1> HIDE DEF r, named, made, name, material
<1>7. Gained(r.names, maps.names, named, name)
  BY <1>4, <1>6, LabelFacts
<1>8. Gained(r.materials, maps.materials, made, material)
  BY <1>4, <1>6, LabelFacts
<1>9. QED
  BY <1>1, <1>4, <1>5, <1>7, <1>8 DEF r, Gained, LabelsTold

\* The solids of the labels.
DocSolids(doc) ==
  UNION {{Value(<<i, j>>, HashCode(doc[i].solids[j].part), SolidOf(doc[i].file, doc[i].solids[j]))
            : j \in DOMAIN doc[i].solids} : i \in DOMAIN doc}

\* The map after they were inserted.
DocLoaded(new, map, doc) ==
  /\ DOMAIN map \subseteq DOMAIN new /\ \A k \in DOMAIN map : new[k] = map[k]
  /\ \A k \in DOMAIN new \ DOMAIN map : \E l \in ToSet(doc) : \E s \in ToSet(l.solids) :
       k = HashCode(s.part) /\ new[k] = SolidOf(l.file, s)
  /\ \A l \in ToSet(doc) : \A s \in ToSet(l.solids) : HashCode(s.part) \in DOMAIN new
  /\ IsFiniteSet(DOMAIN new \ DOMAIN map)

LEMMA DocSolidsFacts ==
  ASSUME NEW doc, NEW file, WellFormedDoc(doc, file), NEW map
  PROVE  DocLoaded(insert(map, DocSolids(doc)), map, doc)
<1> DEFINE values == DocSolids(doc)
           n == Len(doc)
           m == [i \in 1 .. n |-> Len(doc[i].solids)]
           of(i) == {Value(<<i, j>>, HashCode(doc[i].solids[j].part),
                           SolidOf(doc[i].file, doc[i].solids[j])) : j \in DOMAIN doc[i].solids}
           new == insert(map, values)
<1>1. n \in Nat /\ DOMAIN doc = 1 .. n /\ \A i \in 1 .. n : doc[i] \in ToSet(doc)
  BY ListedFacts DEF WellFormedDoc
<1>2. \A i \in 1 .. n : m[i] \in Nat /\ DOMAIN doc[i].solids = 1 .. m[i]
  BY <1>1, ListedFacts DEF WellFormedDoc, Measured
<1>3. values = UNION {of(i) : i \in 1 .. n}
  BY <1>1, Zenon DEF DocSolids
<1> HIDE DEF n, m, values
<1>4. ASSUME NEW i \in 1 .. n, NEW v \in of(i)
      PROVE  \E j \in 1 .. m[i] : /\ v.order[1] = i /\ v.order[2] = j
                                  /\ v.key = HashCode(doc[i].solids[j].part)
                                  /\ v.value = SolidOf(doc[i].file, doc[i].solids[j])
  <2>1. PICK j \in 1 .. m[i] : v = Value(<<i, j>>, HashCode(doc[i].solids[j].part),
                                         SolidOf(doc[i].file, doc[i].solids[j]))
    BY <1>2
  <2>2. QED
    BY <2>1 DEF Value
<1>5. ASSUME NEW i \in 1 .. n, NEW j \in 1 .. m[i]
      PROVE  \E v \in of(i) : v.key = HashCode(doc[i].solids[j].part)
  <2> DEFINE v == Value(<<i, j>>, HashCode(doc[i].solids[j].part),
                        SolidOf(doc[i].file, doc[i].solids[j]))
  <2>1. v \in of(i)
    BY <1>2, Zenon
  <2>2. v.key = HashCode(doc[i].solids[j].part)
    BY DEF Value
  <2>3. QED
    BY <2>1, <2>2, Zenon
<1> HIDE DEF of
<1>6. ASSUME NEW v \in values
      PROVE  \E i \in 1 .. n : \E j \in 1 .. m[i] :
               /\ v.order[1] = i /\ v.order[2] = j
               /\ v.key = HashCode(doc[i].solids[j].part)
               /\ v.value = SolidOf(doc[i].file, doc[i].solids[j])
  <2>1. PICK i \in 1 .. n : v \in of(i)
    BY <1>3
  <2>2. QED
    BY <1>4, <2>1
<1>7. Ordered(values)
  <2>1. ASSUME NEW v \in values PROVE v.order[1] \in Nat /\ v.order[2] \in Nat
    <3>1. PICK i \in 1 .. n : \E j \in 1 .. m[i] : v.order[1] = i /\ v.order[2] = j
      BY <1>6
    <3>2. PICK j \in 1 .. m[i] : v.order[1] = i /\ v.order[2] = j
      BY <3>1
    <3>3. QED
      BY <1>1, <1>2, <3>2
  <2>2. QED
    BY <2>1 DEF Ordered
<1>8. Inserted(new, map, values, Keys(values))
  <2>1. For(values, Keys(values))
    BY DEF For, Keys
  <2>2. QED
    BY <1>7, <2>1, InsertFacts
<1> HIDE DEF new
<1>9. ASSUME NEW k \in DOMAIN new \ DOMAIN map
      PROVE  \E l \in ToSet(doc) : \E s \in ToSet(l.solids) :
               k = HashCode(s.part) /\ new[k] = SolidOf(l.file, s)
  <2>1. PICK v \in values : v.key = k /\ new[k] = v.value
    BY <1>8 DEF Inserted
  <2>2. PICK i \in 1 .. n : \E j \in 1 .. m[i] : /\ v.key = HashCode(doc[i].solids[j].part)
                                                /\ v.value = SolidOf(doc[i].file, doc[i].solids[j])
    BY <1>6
  <2>3. PICK j \in 1 .. m[i] : /\ v.key = HashCode(doc[i].solids[j].part)
                               /\ v.value = SolidOf(doc[i].file, doc[i].solids[j])
    BY <2>2
  <2>4. doc[i] \in ToSet(doc) /\ doc[i].solids[j] \in ToSet(doc[i].solids)
    BY <1>1, <1>2 DEF ToSet
  <2>5. QED
    BY <2>1, <2>3, <2>4
<1>10. ASSUME NEW l \in ToSet(doc), NEW s \in ToSet(l.solids) PROVE HashCode(s.part) \in DOMAIN new
  <2>1. PICK i \in 1 .. n : l = doc[i]
    BY <1>1 DEF ToSet
  <2>2. PICK j \in 1 .. m[i] : s = doc[i].solids[j]
    BY <1>2, <2>1 DEF ToSet
  <2>3. PICK v \in of(i) : v.key = HashCode(s.part)
    BY <1>5, <2>2
  <2>4. v \in values
    BY <1>3, <2>3
  <2>5. QED
    BY <1>8, <2>3, <2>4 DEF Inserted, Keys
<1>11. IsFiniteSet(DOMAIN new \ DOMAIN map)
  <2> DEFINE f == [i \in 1 .. n |-> [j \in 1 .. m[i] |-> HashCode(doc[i].solids[j].part)]]
             S == DOMAIN new \ DOMAIN map
  <2>1. ASSUME NEW k \in S PROVE \E i \in 1 .. n : \E j \in 1 .. m[i] : k = f[i][j]
    <3>1. PICK v \in values : v.key = k
      BY <1>8 DEF Inserted
    <3>2. PICK i \in 1 .. n : \E j \in 1 .. m[i] : v.key = HashCode(doc[i].solids[j].part)
      BY <1>6
    <3>3. PICK j \in 1 .. m[i] : v.key = HashCode(doc[i].solids[j].part)
      BY <3>2
    <3>4. f[i][j] = HashCode(doc[i].solids[j].part)
      OBVIOUS
    <3>5. QED
      BY <3>1, <3>3, <3>4
  <2> HIDE DEF f, S
  <2>2. Pairs(S, n, m, f)
    BY <1>1, <1>2, <2>1 DEF Pairs
  <2>3. IsFiniteSet(S)
    BY <2>2, PairsFinite
  <2>4. QED
    BY <2>3 DEF S
<1>12. QED
  BY <1>8, <1>9, <1>10, <1>11 DEF Inserted, new, values, DocLoaded

LEMMA XCAFStep ==
  ASSUME InputInv, LoadedInv, ReadXCAF
  PROVE  LoadedInv'
<1> DEFINE extra == entry.default
           middle(doc) == [loaded EXCEPT !.solids = insert(@, DocSolids(doc))]
<1>1. /\ at <= Len(input.entries) /\ entry.format = "step"
      /\ input' = input /\ collision' = collision /\ at' = at + 1
  BY DEF ReadXCAF, NextFile, Loaded
<1>2. PICK ok \in BOOLEAN : /\ unreadable' = IF ok THEN unreadable ELSE unreadable \cup {at}
                            /\ hDoc' = readXCAFDoc(ok, entry.content)
  BY DEF ReadXCAF
<1> DEFINE doc == IF ok THEN entry.content ELSE <<>>
<1>3. loaded' = extractXCAFMetadata(middle(doc), Visits(doc), extra)
  <2>1. loaded' = loadXCAFDoc(loaded, hDoc', extra)
    BY DEF ReadXCAF, Loaded
  <2>2. hDoc' = doc
    BY <1>2 DEF readXCAFDoc
  <2> HIDE DEF doc, extra
  <2>3. loaded' = loadXCAFDoc(loaded, doc, extra)
    BY <2>1, <2>2
  <2>4. QED
    BY <2>3, Zenon DEF loadXCAFDoc, loadShapes, DocSolids
<1>4. at \in DOMAIN input.entries /\ entry \in ToSet(input.entries)
  BY <1>1, ListedFacts DEF InputInv, entry
<1>5. WellFormed(entry)
  BY <1>1, <1>4 DEF InputInv, Readable
<1>6. WellFormedDoc(doc, entry.file)
  <2>1. WellFormedDoc(entry.content, entry.file)
    BY <1>1, <1>5 DEF WellFormed, WellFormedDoc
  <2>2. WellFormedDoc(<<>>, entry.file)
    BY DEF WellFormedDoc, Listed, ToSet
  <2>3. QED
    BY <2>1, <2>2
<1>7. ~IsNull(extra) => Has(extra, "material")
  BY <1>1, <1>5 DEF WellFormed
<1>8. ok => doc = entry.content
  OBVIOUS
<1>9. ~ok => ToSet(doc) = {}
  BY DEF ToSet
<1> HIDE DEF doc, extra
<1>10. Ending(Visits(doc)) /\ DOMAIN loaded = {"solids", "names", "materials", "colours"}
  BY <1>6, VisitsEnd DEF LoadedInv
<1>11. /\ DOMAIN middle(doc) = {"solids", "names", "materials", "colours"}
       /\ middle(doc).solids = insert(loaded.solids, DocSolids(doc))
       /\ middle(doc).names = loaded.names /\ middle(doc).materials = loaded.materials
  BY <1>10
<1> DEFINE mid == middle(doc)
           solids == insert(loaded.solids, DocSolids(doc))
<1>12. DOMAIN mid = {"solids", "names", "materials", "colours"} /\ mid.solids = solids
       /\ mid.names = loaded.names /\ mid.materials = loaded.materials
       /\ loaded' = extractXCAFMetadata(mid, Visits(doc), extra)
  BY <1>3, <1>11
<1>13. DocLoaded(solids, loaded.solids, doc)
  BY <1>6, DocSolidsFacts
<1> HIDE DEF mid, solids, middle
<1>14. /\ LabelsTold(loaded', mid, Visits(doc), extra)
       /\ DOMAIN loaded' = {"solids", "names", "materials", "colours"} /\ loaded'.solids = solids
  <2>1. LabelsTold(extractXCAFMetadata(mid, Visits(doc), extra), mid, Visits(doc), extra)
    BY <1>10, <1>12, XCAFNames
  <2>2. LabelsTold(loaded', mid, Visits(doc), extra)
    BY <1>12, <2>1
  <2>3. QED
    BY <1>12, <2>2 DEF LabelsTold
<1>15. /\ at \in Nat /\ at >= 1 /\ unreadable \subseteq 1 .. at - 1
  BY <1>4, ListedFacts DEF InputInv
<1>16. \A k : k[1] = at /\ k \notin collision => /\ k \notin DOMAIN loaded.solids
                                                  /\ k \notin DOMAIN loaded.names
                                                  /\ k \notin DOMAIN loaded.materials
  BY <1>15 DEF LoadedInv
<1>17. Grown(loaded'.solids, loaded.solids)
  BY <1>13, <1>14, KeyOfCall DEF Grown, DocLoaded
<1>18. Grown(loaded'.names, loaded.names)
  BY <1>12, <1>14, <1>16, KeyOfCall DEF Grown, LabelsTold
<1>19. Grown(loaded'.materials, loaded.materials)
  BY <1>12, <1>14, <1>16, KeyOfCall DEF Grown, LabelsTold
<1>20. IsFiniteSet(DOMAIN loaded'.solids)
  <2> DEFINE old == DOMAIN loaded.solids
             more == DOMAIN solids \ DOMAIN loaded.solids
  <2>1. IsFiniteSet(old) /\ IsFiniteSet(more) /\ DOMAIN loaded'.solids = old \cup more
    BY <1>13, <1>14 DEF LoadedInv, DocLoaded
  <2> HIDE DEF old, more
  <2>2. QED
    BY <2>1, FS_Union
<1>21. ASSUME NEW k \in DOMAIN loaded'.solids PROVE loaded'.solids[k].geometry \in Geometries
  <2>1. CASE k \in DOMAIN loaded.solids
    BY <1>13, <1>14, <2>1 DEF LoadedInv, DocLoaded
  <2>2. CASE k \notin DOMAIN loaded.solids
    <3>1. PICK l \in ToSet(doc) : \E s \in ToSet(l.solids) : solids[k] = SolidOf(l.file, s)
      BY <1>13, <1>14, <2>2 DEF DocLoaded
    <3>2. PICK s \in ToSet(l.solids) : solids[k] = SolidOf(l.file, s)
      BY <3>1
    <3>3. s.geometry \in Geometries
      BY <1>6 DEF WellFormedDoc, Measured
    <3>4. QED
      BY <1>14, <3>2, <3>3 DEF SolidOf
  <2>3. QED
    BY <2>1, <2>2
<1>22. Wanted(at) = UNION {ToSet(l.solids) : l \in ToSet(entry.content)}
  BY <1>1, Zenon DEF Wanted, entry
<1>23. ASSUME NEW e \in readable', e = at PROVE Arrived(e, Wanted(e))'
  <2>1. ok
    BY <1>2, <1>23 DEF readable
  <2>2. ASSUME NEW s \in Wanted(at)
        PROVE  IF <<at, s.part>> \in collision
                 THEN (CHOOSE c \in collision : TRUE) \in DOMAIN loaded'.solids
                 ELSE /\ <<at, s.part>> \in DOMAIN loaded'.solids
                      /\ loaded'.solids[<<at, s.part>>].file = entry.file
    <3>1. HashCode(s.part) \in DOMAIN loaded'.solids
      BY <1>8, <1>13, <1>14, <1>22, <2>1 DEF DocLoaded
    <3>2. CASE <<at, s.part>> \in collision
      BY <3>1, <3>2, CodeFacts
    <3>3. CASE <<at, s.part>> \notin collision
      <4> DEFINE k == <<at, s.part>>
      <4>1. k \in DOMAIN loaded'.solids /\ k[1] = at
        BY <3>1, <3>3, CodeFacts
      <4>2. k \notin DOMAIN loaded.solids
        BY <1>16, <3>3, <4>1
      <4>3. PICK l \in ToSet(doc) : \E t \in ToSet(l.solids) : solids[k] = SolidOf(l.file, t)
        BY <1>13, <1>14, <4>1, <4>2 DEF DocLoaded
      <4>4. l.file = entry.file
        BY <1>6 DEF WellFormedDoc
      <4>5. loaded'.solids[k].file = entry.file
        BY <1>14, <4>3, <4>4 DEF SolidOf
      <4>6. QED
        BY <3>3, <4>1, <4>5
    <3>4. QED
      BY <3>2, <3>3
  <2>3. QED
    BY <1>1, <1>23, <2>2, SameEntry DEF Arrived, entry
<1>24. ASSUME NEW k \in DOMAIN loaded'.solids \ collision, k[1] = at PROVE Expected(k)' /\ Own(k)'
  <2>1. /\ k \notin DOMAIN loaded.solids /\ k \notin DOMAIN loaded.names
        /\ k \notin DOMAIN loaded.materials
    BY <1>16, <1>24
  <2>2. PICK l \in ToSet(doc) : \E s \in ToSet(l.solids) : k = HashCode(s.part)
    BY <1>13, <1>14, <2>1 DEF DocLoaded
  <2>3. PICK s \in ToSet(l.solids) : k = HashCode(s.part)
    BY <2>2
  <2>4. k[2] = s.part /\ ok
    BY <1>9, <1>24, <2>3, KeyOfCall
  <2>5. Expected(k)'
    <3>1. at \in readable'
      BY <1>1, <1>2, <1>4, <1>15, <2>4 DEF readable, entry
    <3>2. s \in Wanted(at)
      BY <1>8, <1>22, <2>4
    <3>3. k[2] \in {w.part : w \in Wanted(at)}
      BY <2>4, <3>2
    <3>4. QED
      BY <1>1, <1>24, <3>1, <3>3, SameEntry DEF Expected
  <2> DEFINE from == loaded'.solids[k].file
             M == OwnMetas(at, k[2], from)
  <2>6. M = {EntryMeta(extra)} \cup {n.meta : n \in {n1 \in AllLabels(doc) : n1.part = k[2]}}
    BY <1>1, <1>8, <2>4, Zenon DEF OwnMetas, entry, extra
  <2> HIDE DEF M
  <2>7. ASSUME NEW v \in Visits(doc), k = HashCode(v.label.part)
        PROVE  EntryMeta(extra) \in M /\ v.label.meta \in M
    <3>1. v.label.part = k[2]
      BY <1>24, <2>7, KeyOfCall
    <3>2. v.label \in AllLabels(doc)
      BY DEF AllLabels
    <3>3. QED
      BY <2>6, <3>1, <3>2
  <2>8. k \in DOMAIN loaded'.names => OwnName(k, M, loaded'.names[k])
    <3> SUFFICES ASSUME k \in DOMAIN loaded'.names PROVE OwnName(k, M, loaded'.names[k])
      OBVIOUS
    <3>1. PICK v \in Visits(doc) : /\ k = HashCode(v.label.part)
                                   /\ Has(v.label.meta, "name") \/ ~IsNull(extra)
                                   /\ loaded'.names[k] = NameOfLabel(v.label, extra)
      BY <1>12, <1>14, <2>1 DEF LabelsTold
    <3>2. EntryMeta(extra) \in M /\ v.label.meta \in M
      BY <2>7, <3>1
    <3>3. NameOfLabel(v.label, extra) \in Said(M, "name")
      <4>1. CASE IsNull(extra)
        BY <3>1, <3>2, <4>1 DEF NameOfLabel, Said
      <4>2. CASE ~IsNull(extra)
        <5>1. /\ Has(EntryMeta(extra), "name")
              /\ NameOfLabel(v.label, extra) = EntryMeta(extra)["name"]
          BY <4>2 DEF EntryMeta, NameOfLabel, Has
        <5>2. QED
          BY <3>2, <5>1 DEF Said
      <4>3. QED
        BY <4>1, <4>2
    <3>4. QED
      BY <3>1, <3>3 DEF OwnName
  <2>9. k \in DOMAIN loaded'.materials => OwnMaterial(M, loaded'.materials[k])
    <3> SUFFICES ASSUME k \in DOMAIN loaded'.materials PROVE OwnMaterial(M, loaded'.materials[k])
      OBVIOUS
    <3>1. PICK v \in Visits(doc) : /\ k = HashCode(v.label.part)
                                   /\ Has(v.label.meta, "material") \/ ~IsNull(extra)
                                   /\ loaded'.materials[k] = MaterialOfLabel(v.label, extra)
      BY <1>12, <1>14, <2>1 DEF LabelsTold
    <3>2. EntryMeta(extra) \in M /\ v.label.meta \in M
      BY <2>7, <3>1
    <3>3. MaterialOfLabel(v.label, extra) \in Said(M, "material")
      <4>1. CASE Has(v.label.meta, "material")
        BY <3>2, <4>1 DEF MaterialOfLabel, Said
      <4>2. CASE ~Has(v.label.meta, "material")
        <5>1. /\ Has(EntryMeta(extra), "material")
              /\ MaterialOfLabel(v.label, extra) = EntryMeta(extra)["material"]
          BY <3>1, <4>2 DEF EntryMeta, MaterialOfLabel, Has
        <5>2. QED
          BY <3>2, <5>1 DEF Said
      <4>3. QED
        BY <4>1, <4>2
    <3>4. QED
      BY <3>1, <3>3 DEF OwnMaterial
  <2>10. \A part, file : OwnMetas(k[1], part, file)' = OwnMetas(k[1], part, file)
    BY <1>1, SameEntry
  <2>11. \A metas, name : OwnName(k, metas, name)' = OwnName(k, metas, name)
    BY <1>1, SameEntry
  <2>12. Own(k)'
    BY <1>24, <2>8, <2>9, <2>10, <2>11 DEF Own, M
  <2>13. QED
    BY <2>5, <2>12
<1>25. unreadable' \in {unreadable, unreadable \cup {at}}
  BY <1>2
<1>26. QED
  BY <1>1, <1>14, <1>17, <1>18, <1>19, <1>20, <1>21, <1>23, <1>24, <1>25, LoadedStep

\* What an invariant of the maps says stays while they, the input and the place in it do.
LEMMA SameLoaded ==
  ASSUME LoadedInv, UNCHANGED <<input, collision, at, unreadable, loaded>>
  PROVE  LoadedInv'
<1>1. readable' = readable /\ \A e : Arrived(e, Wanted(e))' = Arrived(e, Wanted(e))
  BY SameEntry DEF readable, Arrived
<1>2. \A k : Expected(k)' = Expected(k)
  BY <1>1, SameEntry DEF Expected
<1>3. \A k : Own(k)' = Own(k)
  BY SameEntry DEF Own
<1>4. QED
  BY <1>1, <1>2, <1>3 DEF LoadedInv

\* A file that is left out.
LEMMA SkipStep ==
  ASSUME InputInv, LoadedInv, SkipFile
  PROVE  LoadedInv'
<1>1. /\ at <= Len(input.entries) /\ entry.format = "missing"
      /\ UNCHANGED <<input, collision, loaded, unreadable>> /\ at' = at + 1
  BY DEF SkipFile, NextFile, Loaded
<1>2. /\ Grown(loaded'.solids, loaded.solids) /\ Grown(loaded'.names, loaded.names)
      /\ Grown(loaded'.materials, loaded.materials)
  BY <1>1 DEF Grown
<1>3. at \notin readable'
  BY <1>1 DEF readable, entry
<1>4. at \in Nat
  BY ListedFacts DEF InputInv
<1>5. \A k \in DOMAIN loaded'.solids \ collision : k[1] # at
  BY <1>1, <1>4 DEF LoadedInv
<1>6. /\ DOMAIN loaded' = {"solids", "names", "materials", "colours"}
      /\ IsFiniteSet(DOMAIN loaded'.solids)
      /\ \A k \in DOMAIN loaded'.solids : loaded'.solids[k].geometry \in Geometries
  BY <1>1 DEF LoadedInv
<1>7. QED
  BY <1>1, <1>2, <1>3, <1>5, <1>6, LoadedStep

-----------------------------------------------------------------------------
(* The brep file that comes back *)

\* A solid whose identifier is that of a row is given the metadata of this row.
LEMMA BackStep ==
  ASSUME IInv, session = 2, config.format = "brep", readBrep,
         UNCHANGED <<session, config, original>>
  PROVE  /\ \A k \in DOMAIN loaded'.solids \ collision' : k[2] \in KeptItems
         /\ \A i \in KeptItems : <<1, i>> \in DOMAIN loaded'.solids \cup collision'
         /\ input.metadata.exists =>
              \A k \in DOMAIN loaded'.solids \ collision' : Recognised(k)'
<1> DEFINE rows == IF input.metadata.exists THEN input.metadata.rows ELSE <<>>
           gpMap == gpMapOf(rows)
           content == entry.content
           of(s) == {i \in DOMAIN rows : rows[i]["uniqueId"] = geometryUniqueId(s.geometry)}
           p(s) == RecordOf(s, gpMap)
<1>1. /\ at <= Len(input.entries) /\ input' = input /\ collision' = collision
      /\ loaded' = loadBrepShapes(loaded, entry.file, content, gpMap)
  BY DEF readBrep, NextFile, Loaded
<1>2. at = 1 /\ loaded = Empty /\ entry = input.entries[1]
  BY <1>1 DEF IInv, BackInv, InputInv, entry
<1>3. DOMAIN content = KeptItems /\ \A i \in KeptItems : content[i].part = i
  BY <1>2 DEF IInv, BackInv
<1>4. Numbered(content)
  <2>1. 1 \in DOMAIN input.entries
    BY <1>1, <1>2, ListedFacts DEF IInv, InputInv
  <2>2. entry \in ToSet(input.entries) /\ entry.format = "brep"
    BY <1>2, <2>1, ListedFacts DEF IInv, BackInv, InputInv
  <2>3. QED
    BY <2>2 DEF IInv, InputInv, Readable
<1>5. KeptRows(rows)
  <2>1. Numbered(<<>>) /\ ToSet(<<>>) = {}
    BY DEF Numbered, ToSet
  <2>2. QED
    BY <2>1 DEF IInv, BackInv, KeptRows
<1> HIDE DEF rows, content
<1>6. \A s : \/ \E i \in of(s) : p(s) = rows[i] /\ \A j \in of(s) : j <= i
             \/ of(s) = {} /\ DOMAIN rows # {} /\ p(s) = Null
             \/ of(s) = {} /\ DOMAIN rows = {}
                  /\ p(s) = [name |-> <<"geometry">>, material |-> "unknown"]
  <2> TAKE s
  <2>1. of(s) # {} <=> \E i \in of(s) : TRUE
    OBVIOUS
  <2>2. QED
    BY <1>5, <2>1, RecordOfSolid DEF KeptRows
<1>7. \A s : ~IsSuppressed(p(s))
  <2>1. \A i \in DOMAIN rows : ~IsSuppressed(rows[i])
    BY <1>5 DEF KeptRows, ToSet, IsSuppressed
  <2>2. /\ ~IsSuppressed(Null)
        /\ ~IsSuppressed([name |-> <<"geometry">>, material |-> "unknown"])
    BY DEF IsSuppressed, Has, Null
  <2>3. QED
    BY <1>6, <2>1, <2>2
<1>8. PICK calls : /\ BrepCalls(calls, entry.file, content, gpMap)
                   /\ loaded' = registerShape(loaded, calls)
  BY <1>1, <1>4, BrepIsCalls
<1> HIDE DEF p
<1>9. Ordered(calls) /\ \A c \in calls : \E i \in KeptItems : /\ c.solid = content[i]
                                                              /\ c.p = p(content[i])
  BY <1>3, <1>8 DEF BrepCalls, p
<1>10. \A i \in KeptItems : \E c \in calls : c.solid = content[i]
  BY <1>3, <1>7, <1>8 DEF BrepCalls, p
<1>11. DOMAIN loaded.solids = {} /\ DOMAIN loaded.names = {} /\ DOMAIN loaded.materials = {}
  BY <1>2 DEF Empty, NoMap
<1>12. /\ DOMAIN loaded'.solids = {HashCode(c.solid.part) : c \in calls}
       /\ \A k \in DOMAIN loaded'.solids : \E c \in calls :
             k = HashCode(c.solid.part) /\ loaded'.solids[k] = SolidOf(c.file, c.solid)
  BY <1>8, <1>9, <1>11, RegisterFacts
<1>13. /\ DOMAIN loaded'.names = {HashCode(c.solid.part) : c \in calls}
       /\ \A k \in DOMAIN loaded'.names : \E c \in calls :
             k = HashCode(c.solid.part) /\ loaded'.names[k] = NameOf(c.p, k)
  BY <1>8, <1>9, <1>11, RegisterFacts
<1>14. /\ DOMAIN loaded'.materials =
             {HashCode(c.solid.part) : c \in {d \in calls : HasMaterial(d.p)}}
       /\ \A k \in DOMAIN loaded'.materials : \E c \in calls :
             /\ k = HashCode(c.solid.part) /\ HasMaterial(c.p)
             /\ loaded'.materials[k] = MaterialOf(c.p)
  BY <1>8, <1>9, <1>11, RegisterFacts
\* A call with the key of an item is the one of its solid.
<1>15. ASSUME NEW k \in DOMAIN loaded'.solids \ collision, NEW c \in calls,
              k = HashCode(c.solid.part)
       PROVE  k[2] \in KeptItems /\ c.solid = content[k[2]] /\ c.p = p(content[k[2]])
  <2>1. PICK i \in KeptItems : c.solid = content[i] /\ c.p = p(content[i])
    BY <1>9
  <2>2. k[2] = i
    BY <1>3, <1>15, <2>1, KeyOfCall
  <2>3. QED
    BY <2>1, <2>2
<1>16. \A k \in DOMAIN loaded'.solids \ collision : k[2] \in KeptItems
  BY <1>12, <1>15
<1>17. ASSUME NEW i \in KeptItems PROVE <<1, i>> \in DOMAIN loaded'.solids \cup collision
  <2>1. PICK c \in calls : c.solid = content[i]
    BY <1>10
  <2>2. c.solid.part = i /\ HashCode(i) \in DOMAIN loaded'.solids
    BY <1>3, <1>12, <2>1
  <2>3. QED
    BY <1>2, <2>2, CodeFacts
<1>18. ASSUME input.metadata.exists, NEW k \in DOMAIN loaded'.solids \ collision
       PROVE  Recognised(k)'
  <2> DEFINE s == content[k[2]]
             gid == geometryUniqueId(s.geometry)
  <2>1. PICK c \in calls : k = HashCode(c.solid.part) /\ loaded'.solids[k] = SolidOf(c.file, c.solid)
    BY <1>12
  <2>2. c.solid = s /\ loaded'.solids[k].geometry = s.geometry
    BY <1>15, <2>1 DEF SolidOf
  <2>3. k \in DOMAIN loaded'.names /\ loaded'.names[k] = NameOf(p(s), k)
    BY <1>13, <1>15, <2>1
  <2>4. k \in DOMAIN loaded'.materials => /\ HasMaterial(p(s))
                                          /\ loaded'.materials[k] = MaterialOf(p(s))
    BY <1>14, <1>15
  <2>5. HasMaterial(p(s)) => k \in DOMAIN loaded'.materials
    BY <1>14, <1>15, <2>1
  <2>6. /\ rows = input.metadata.rows /\ KeptItems \subseteq DOMAIN rows
        /\ \A i \in DOMAIN rows : Describes(rows[i], original[i].name,
                                            original[i].material, input.metadata.measured[i])
    BY <1>18 DEF rows, IInv, BackInv, GivenInv
  <2>7. \A j : HasMetadataOf(k, j)' <=>
             /\ k \in DOMAIN loaded'.names /\ loaded'.names[k] = original[j].name
             /\ k \in DOMAIN loaded'.materials /\ loaded'.materials[k] = original[j].material
    BY DEF HasMetadataOf
  <2>8. /\ \/ \E j \in DOMAIN rows : rows[j]["uniqueId"] = gid /\ HasMetadataOf(k, j)'
           \/ /\ \A j \in DOMAIN rows : rows[j]["uniqueId"] # gid
              /\ loaded'.names[k] = <<"shape", k>> /\ k \notin DOMAIN loaded'.materials
        => Recognised(k)'
    BY <1>1, <2>2, <2>6 DEF Recognised
  <2>9. CASE \E i \in of(s) : p(s) = rows[i]
    <3>1. PICK i \in of(s) : p(s) = rows[i]
      BY <2>9
    <3>2. Describes(rows[i], original[i].name, original[i].material, input.metadata.measured[i])
      BY <2>6
    <3>3. /\ NameOf(p(s), k) = original[i].name
          /\ HasMaterial(p(s)) /\ MaterialOf(p(s)) = original[i].material
      BY <3>1, <3>2 DEF Describes, NameOf, HasMaterial, MaterialOf
    <3>4. HasMetadataOf(k, i)'
      BY <2>3, <2>4, <2>5, <2>7, <3>3
    <3>5. QED
      BY <2>8, <3>4
  <2>10. CASE of(s) = {} /\ p(s) = Null
    <3>1. \A j \in DOMAIN rows : rows[j]["uniqueId"] # gid
      BY <2>10
    <3>2. NameOf(Null, k) = <<"shape", k>> /\ ~HasMaterial(Null)
      BY DEF NameOf, HasMaterial, Has, Null
    <3>3. QED
      BY <2>3, <2>4, <2>8, <2>10, <3>1, <3>2
  <2>11. DOMAIN rows # {}
    BY <1>16, <1>18, <2>6
  <2>12. QED
    BY <1>6, <2>9, <2>10, <2>11
<1>19. QED
  BY <1>1, <1>16, <1>17, <1>18

-----------------------------------------------------------------------------
(* The steps of the reader *)

sameSession == <<session, config, original, stage, myGeometryUniqueIds, metadata>>

\* The reader goes on to the next file, or fails.
LEMMA FileRead ==
  ASSUME IInv, reading = "files", at <= Len(input.entries),
         UNCHANGED <<input, collision, mySolidIDs, myShapeErrors>>, UNCHANGED sameSession,
         todo' = (IF session = 1 THEN Tasks(1, Len(mySolidIDs')) ELSE {}),
         \/ at' = at + 1 /\ reading' = reading /\ unreadable' \in {unreadable, unreadable \cup {at}}
         \/ at' = at /\ reading' = "failed" /\ unreadable' = unreadable,
         WellFormedObjects(tempDir'.objects),
         session = 1 => ToSet(tempDir'.objects) \subseteq AllObjects
  PROVE  ItemsInv' /\ InputInv' /\ MeasuredInv'
<1> USE DEF sameSession
<1>1. mySolidIDs = <<>> /\ DOMAIN myShapeErrors = {} /\ session \in {1, 2}
  BY DEF IInv, ItemsInv
<1>2. todo' = {}
  <2>1. Len(mySolidIDs') = 0 /\ 1 .. 0 = {}
    BY <1>1
  <2>2. QED
    BY <2>1 DEF Tasks
<1>3. ItemsInv'
  BY <1>1, <1>2 DEF IInv, ItemsInv, itemCount
<1>4. InputInv'
  <2>1. at \in 1 .. Len(input.entries) + 1 /\ Len(input.entries) \in Nat
        /\ unreadable \subseteq 1 .. at - 1
    BY ListedFacts DEF IInv, InputInv
  <2>2. at' \in 1 .. Len(input.entries) + 1 /\ unreadable' \subseteq 1 .. at' - 1
    <3>1. CASE at' = at + 1 /\ unreadable' \in {unreadable, unreadable \cup {at}}
      <4>1. at' \in 1 .. Len(input.entries) + 1
        BY <2>1, <3>1
      <4>2. unreadable \cup {at} \subseteq 1 .. at
        BY <2>1
      <4>3. at' - 1 = at
        BY <2>1, <3>1
      <4>4. QED
        BY <3>1, <4>1, <4>2, <4>3
    <3>2. CASE at' = at /\ unreadable' = unreadable
      BY <2>1, <3>2
    <3>3. QED
      BY <3>1, <3>2
  <2>3. AllObjects' = AllObjects /\ reading' # "published"
    BY SameEntry
  <2>4. \A f : Readable(f)' <=> Readable(f)
    OBVIOUS
  <2>5. QED
    BY <2>2, <2>3, <2>4 DEF IInv, InputInv
<1>5. MeasuredInv'
  BY DEF IInv, MeasuredInv
<1>6. QED
  BY <1>3, <1>4, <1>5

\* What session two is told of session one stays.
LEMMA SameBack ==
  ASSUME IInv, UNCHANGED input, UNCHANGED sameSession,
         session = 2 => \/ at' = at /\ UNCHANGED <<loaded, collision>>
                        \/ at' = 2 /\ config.format # "brep"
  PROVE  BackInv'
<1> USE DEF sameSession
<1>1. KeptItems' = KeptItems
  BY DEF KeptItems
<1>2. session = 2 => \/ at' = at /\ \A k : Recognised(k)' <=> Recognised(k)
                     \/ at' = 2 /\ config.format # "brep"
  BY DEF Recognised, HasMetadataOf
<1>3. GivenInv' <=> GivenInv
  BY <1>1 DEF GivenInv
<1>4. QED
  BY <1>1, <1>2, <1>3 DEF IInv, BackInv

\* Every step of the reader keeps the invariant.
LEMMA ReadKeeps ==
  ASSUME IInv, ReadInput
  PROVE  IInv'
<1>1. /\ Read /\ UNCHANGED sameSession
      /\ todo' = IF session = 1 THEN Tasks(1, Len(mySolidIDs')) ELSE {}
  BY DEF ReadInput, sessionVars, sameSession
<1>2. UNCHANGED <<session, config, original, stage, myGeometryUniqueIds, metadata>>
  BY <1>1 DEF sameSession
<1>3. /\ InputInv /\ LoadedInv /\ session \in {1, 2} /\ ItemsInv
      /\ at \in 1 .. Len(input.entries) + 1 /\ Len(input.entries) \in Nat
      /\ WellFormedObjects(tempDir.objects)
      /\ session = 1 => ToSet(tempDir.objects) \subseteq AllObjects
  BY ListedFacts DEF IInv, InputInv, ItemsInv
<1>4. session = 2 /\ at <= Len(input.entries) => at = 1 /\ entry.format = config.format
  <2> SUFFICES ASSUME session = 2, at <= Len(input.entries)
               PROVE  at = 1 /\ entry.format = config.format
    OBVIOUS
  <2>1. Len(input.entries) = 1 /\ input.entries[1].format = config.format
    BY DEF IInv, BackInv
  <2>2. at = 1
    BY <1>3, <2>1
  <2>3. QED
    BY <2>1, <2>2 DEF entry
<1>5. at <= Len(input.entries) /\ entry.format = "freecad" => session = 1
  <2> SUFFICES ASSUME at <= Len(input.entries), session = 2 PROVE entry.format # "freecad"
    BY <1>3
  <2>1. entry \in ToSet(input.entries)
    BY <1>3, ListedFacts DEF InputInv, entry
  <2>2. QED
    BY <2>1 DEF IInv, InputInv
<1>6. ASSUME SkipFile PROVE IInv'
  <2>1. /\ reading = "files" /\ at <= Len(input.entries) /\ entry.format = "missing"
        /\ UNCHANGED <<input, collision, mySolidIDs, myShapeErrors, tempDir, unreadable>>
        /\ at' = at + 1 /\ reading' = reading
    BY <1>6 DEF SkipFile, NextFile, Loaded
  <2>2. ItemsInv' /\ InputInv' /\ MeasuredInv'
    BY <1>1, <1>3, <2>1, FileRead
  <2>3. BackInv'
    BY <1>1, <1>3, <1>4, <2>1, SameBack
  <2>4. LoadedInv'
    BY <1>3, <1>6, SkipStep
  <2>5. QED
    BY <2>2, <2>3, <2>4 DEF IInv
<1>7. ASSUME ReadXCAF PROVE IInv'
  <2>1. /\ reading = "files" /\ at <= Len(input.entries) /\ entry.format = "step"
        /\ UNCHANGED <<input, collision, mySolidIDs, myShapeErrors, tempDir>>
        /\ unreadable' \in {unreadable, unreadable \cup {at}}
        /\ at' = at + 1 /\ reading' = reading
    BY <1>7 DEF ReadXCAF, NextFile, Loaded
  <2>2. ItemsInv' /\ InputInv' /\ MeasuredInv'
    BY <1>1, <1>3, <2>1, FileRead
  <2>3. BackInv'
    BY <1>1, <1>3, <1>4, <2>1, SameBack
  <2>4. LoadedInv'
    BY <1>3, <1>7, XCAFStep
  <2>5. QED
    BY <2>2, <2>3, <2>4 DEF IInv
<1>8. ASSUME readBrep PROVE IInv'
  <2>1. /\ reading = "files" /\ at <= Len(input.entries) /\ entry.format = "brep"
        /\ UNCHANGED <<input, collision, mySolidIDs, myShapeErrors, tempDir, unreadable>>
        /\ at' = at + 1 /\ reading' = reading
    BY <1>8 DEF readBrep, NextFile, Loaded
  <2>2. ItemsInv' /\ InputInv' /\ MeasuredInv'
    BY <1>1, <1>3, <2>1, FileRead
  <2>3. BackInv'
    <3>1. CASE session = 2
      <4>1. config.format = "brep" /\ at' = 2
        BY <1>4, <2>1, <3>1
      <4>2. /\ \A k \in DOMAIN loaded'.solids \ collision' : k[2] \in KeptItems
            /\ \A i \in KeptItems : <<1, i>> \in DOMAIN loaded'.solids \cup collision'
            /\ input.metadata.exists =>
                 \A k \in DOMAIN loaded'.solids \ collision' : Recognised(k)'
        BY <1>2, <1>8, <3>1, <4>1, BackStep
      <4>3. KeptItems' = KeptItems /\ (GivenInv' <=> GivenInv)
        BY <1>2, <2>1 DEF KeptItems, GivenInv
      <4>4. QED
        BY <1>2, <2>1, <3>1, <4>1, <4>2, <4>3 DEF IInv, BackInv
    <3>2. CASE session = 1
      BY <1>2, <3>2 DEF BackInv
    <3>3. QED
      BY <1>3, <3>1, <3>2
  <2>4. LoadedInv'
    BY <1>3, <1>8, BrepStep
  <2>5. QED
    BY <2>2, <2>3, <2>4 DEF IInv
<1>9. ASSUME readFreeCADFile, tempDir'.exists PROVE IInv'
  <2>1. /\ reading = "files" /\ at <= Len(input.entries) /\ entry.format = "freecad"
        /\ UNCHANGED <<input, collision, mySolidIDs, myShapeErrors>>
        /\ unreadable' \in {unreadable, unreadable \cup {at}}
        /\ tempDir' \in {tempDir, [exists |-> TRUE, objects |-> entry.content]}
        /\ at' = at + 1 /\ reading' = reading
    BY <1>9 DEF readFreeCADFile, NextFile, Loaded
  <2>2. session = 1
    BY <1>5, <2>1
  <2>3. WellFormedObjects(tempDir'.objects) /\ ToSet(tempDir'.objects) \subseteq AllObjects
    BY <1>3, <2>1, <2>2, FolderFacts
  <2>4. ItemsInv' /\ InputInv' /\ MeasuredInv'
    BY <1>1, <2>1, <2>3, FileRead
  <2>5. BackInv'
    BY <1>2, <2>2 DEF BackInv
  <2>6. LoadedInv'
    BY <1>3, <1>9, <2>2, FreeCADStep
  <2>7. QED
    BY <2>4, <2>5, <2>6 DEF IInv
<1>10. ASSUME \/ readFreeCADFile /\ ~tempDir'.exists
              \/ readFreeCADThrows \/ loadShapeThrows \/ readBrepThrows \/ NoFileName
       PROVE  IInv'
  <2>1. /\ reading = "files" /\ at <= Len(input.entries)
        /\ UNCHANGED <<input, collision, mySolidIDs, myShapeErrors>>
        /\ reading' = "failed" /\ UNCHANGED <<at, loaded, unreadable>>
        /\ \/ tempDir' = tempDir
           \/ /\ entry.format = "freecad"
              /\ tempDir' \in {tempDir, [exists |-> TRUE, objects |-> entry.content]}
    BY <1>10 DEF readFreeCADFile, readFreeCADThrows, loadShapeThrows, readBrepThrows, NoFileName,
                 NextFile, Throw
  <2>2. WellFormedObjects(tempDir'.objects) /\ (session = 1 => ToSet(tempDir'.objects) \subseteq AllObjects)
    BY <1>3, <1>5, <2>1, FolderFacts
  <2>3. ItemsInv' /\ InputInv' /\ MeasuredInv'
    BY <1>1, <2>1, <2>2, FileRead
  <2>4. BackInv'
    BY <1>1, <2>1, SameBack
  <2>5. LoadedInv'
    BY <1>3, <2>1, SameLoaded
  <2>6. QED
    BY <2>3, <2>4, <2>5 DEF IInv
<1>11. ASSUME moveShapeIntoPropertyContainer PROVE IInv'
  <2>1. /\ reading = "files" /\ at > Len(input.entries) /\ reading' = "published"
        /\ mySolidIDs' \in SetToSeqs(DOMAIN loaded.solids)
        /\ DOMAIN myShapeErrors' = DOMAIN loaded.solids
        /\ UNCHANGED <<input, at, tempDir, collision, loaded, unreadable>>
    BY <1>11 DEF moveShapeIntoPropertyContainer, RegisteredErrors
  <2>2. at = Len(input.entries) + 1
    BY <1>3, <2>1
  <2>3. mySolidIDs' \in Seq(DOMAIN loaded.solids)
    <3> DEFINE S == DOMAIN loaded.solids
    <3>1. Cardinality(S) \in Nat
      BY <1>3, FS_CardinalityType DEF LoadedInv
    <3>2. mySolidIDs' \in [1 .. Cardinality(S) -> S]
      BY <2>1 DEF SetToSeqs
    <3> HIDE DEF S
    <3>3. mySolidIDs' \in Seq(S)
      BY <3>1, <3>2
    <3>4. QED
      BY <3>3 DEF S
  <2>4. Len(mySolidIDs') \in Nat
    BY <2>3
  <2>5. /\ todo' \subseteq 1 .. Len(mySolidIDs')
        /\ todo' # {} => session = 1 /\ 1 <= Len(Processors) /\ Processors[1] # "CollisionDetector"
    BY <1>1 DEF Tasks
  <2>6. session = 1 => stage = 1 /\ stage' = 1
    BY <1>2, <1>3, <2>1 DEF ItemsInv
  <2>7. ItemsInv'
    BY <1>2, <1>3, <2>1, <2>3, <2>5, <2>6 DEF ItemsInv, itemCount
  <2>8. InputInv'
    <3>1. AllObjects' = AllObjects /\ \A f : Readable(f)' <=> Readable(f)
      BY <2>1, SameEntry
    <3>2. QED
      BY <1>2, <1>3, <2>1, <2>2, <3>1 DEF InputInv
  <2>9. MeasuredInv'
    <3>1. Listed(metadata') /\ \A f \in ToSet(metadata') : FileOfRows(f)
      BY <1>2 DEF IInv, MeasuredInv
    <3>2. ASSUME session = 1, stage' <= Len(Processors),
                 Processors[stage'] = "GeometryPropertyBuilder"
          PROVE  1 .. Len(mySolidIDs') \ todo' = {}
      BY <1>1, <2>6, <3>2 DEF Tasks
    <3>3. session = 1 => ToSet(metadata') = {}
      BY <1>2, <2>1 DEF IInv, MeasuredInv, ToSet
    <3>4. QED
      BY <1>2, <2>1, <2>6, <3>1, <3>2, <3>3 DEF MeasuredInv, itemCount
  <2>10. BackInv'
    BY <1>1, <2>1, SameBack
  <2>11. LoadedInv'
    BY <1>3, <2>1, SameLoaded
  <2>12. QED
    BY <2>7, <2>8, <2>9, <2>10, <2>11 DEF IInv
<1>12. QED
  BY <1>1, <1>6, <1>7, <1>8, <1>9, <1>10, <1>11 DEF Read

-----------------------------------------------------------------------------
(* The steps of the processors and the writer *)

\* Moved or scaled, a shape still has patterns for its size and centre.
LEMMA MovedFacts ==
  ASSUME NEW g \in Geometries, NEW d \in Nat
  PROVE  Drifted(g, d) \in Geometries /\ scaleShape(g, d) \in Geometries
<1>1. DOMAIN g = 1 .. ID_ITEM_COUNT /\ \A c \in 1 .. ID_ITEM_COUNT : g[c] \in Patterns
  BY DEF Geometries
<1>2. INFINITY \in Nat
  BY UniqueIdAssumption
<1>3. ASSUME NEW c \in 1 .. ID_ITEM_COUNT
      PROVE  LET room == INFINITY - Magnitude(g[c])
             IN  g[c] + (IF d < room THEN d ELSE room) \in Patterns
  <2> DEFINE room == INFINITY - Magnitude(g[c])
             move == IF d < room THEN d ELSE room
  <2>1. Magnitude(g[c]) \in 0 .. INFINITY
        /\ \A e \in Nat : e <= INFINITY - Magnitude(g[c]) => g[c] + e \in Patterns
    BY <1>1, PatternFacts
  <2>2. move \in Nat /\ move <= INFINITY - Magnitude(g[c])
    BY <1>2, <2>1
  <2>3. QED
    BY <2>1, <2>2
<1>4. ASSUME NEW c \in 1 .. ID_ITEM_COUNT
      PROVE  LET m == Magnitude(g[c]) IN g[c] - (IF m < d THEN m ELSE d) \in Patterns
  <2> DEFINE move == IF Magnitude(g[c]) < d THEN Magnitude(g[c]) ELSE d
  <2>1. Magnitude(g[c]) \in 0 .. INFINITY
        /\ \A e \in Nat : e <= Magnitude(g[c]) => g[c] - e \in Patterns
    BY <1>1, PatternFacts
  <2>2. move \in Nat /\ move <= Magnitude(g[c])
    BY <1>2, <2>1
  <2>3. QED
    BY <2>1, <2>2
<1>5. Drifted(g, d) \in Geometries
  BY <1>1, <1>3 DEF Drifted, Geometries
<1>6. scaleShape(g, d) \in Geometries
  BY <1>1, <1>4 DEF scaleShape, Geometries
<1>7. QED
  BY <1>5, <1>6

\* The input and what was loaded stay.
LEMMA SameInput ==
  ASSUME IInv, UNCHANGED <<input, at, reading, tempDir, collision, loaded, unreadable>>,
         UNCHANGED <<session, config, original>>
  PROVE  InputInv' /\ LoadedInv' /\ BackInv'
<1>1. AllObjects' = AllObjects /\ \A f : Readable(f)' <=> Readable(f)
  BY SameEntry
<1>2. InputInv'
  BY <1>1 DEF IInv, InputInv
<1>3. LoadedInv'
  BY SameLoaded DEF IInv
<1>4. /\ KeptItems' = KeptItems /\ (GivenInv' <=> GivenInv)
      /\ \A k : Recognised(k)' <=> Recognised(k)
  BY DEF KeptItems, GivenInv, Recognised, HasMetadataOf
<1>5. BackInv'
  BY <1>4 DEF IInv, BackInv
<1>6. QED
  BY <1>2, <1>3, <1>5

\* An item of a worker is in the map of the errors, and keeps an error that it has.
LEMMA ProcessFacts ==
  ASSUME ItemsInv, NEW i \in todo, CheckShape(i) \/ BuildProperty(i)
  PROVE  /\ session = 1 /\ reading = "published" /\ stage <= Len(Processors)
         /\ i \in 1 .. itemCount /\ todo' = todo \ {i}
         /\ UNCHANGED <<inputVars, sessionVars, loaded, stage, metadata>>
         /\ DOMAIN myShapeErrors' = DOMAIN myShapeErrors
         /\ \A k \in DOMAIN myShapeErrors :
              myShapeErrors[k] # "NoError" => myShapeErrors'[k] = myShapeErrors[k]
<1>1. /\ session = 1 /\ reading = "published" /\ stage <= Len(Processors)
      /\ todo' = todo \ {i} /\ UNCHANGED <<inputVars, sessionVars, loaded, stage, metadata>>
  BY DEF CheckShape, BuildProperty, Processing
<1>2. i \in 1 .. itemCount /\ mySolidIDs[i] \in DOMAIN myShapeErrors
  BY <1>1 DEF ItemsInv, itemCount
<1>3. \/ UNCHANGED myShapeErrors
      \/ ~itemSuppressed(i) /\ \E error : suppressItem(i, error)
  BY Zenon DEF CheckShape, CheckItem, BuildProperty, itemPropertyCheck
<1>4. CASE UNCHANGED myShapeErrors
  BY <1>1, <1>2, <1>4
<1>5. ASSUME ~itemSuppressed(i), NEW error, suppressItem(i, error)
      PROVE  /\ DOMAIN myShapeErrors' = DOMAIN myShapeErrors
             /\ \A k \in DOMAIN myShapeErrors :
                  myShapeErrors[k] # "NoError" => myShapeErrors'[k] = myShapeErrors[k]
  <2>1. myShapeErrors' = [k \in DOMAIN myShapeErrors \cup {mySolidIDs[i]} |->
                            IF k = mySolidIDs[i] THEN error ELSE myShapeErrors[k]]
    BY <1>5 DEF suppressItem, assignOne
  <2>2. myShapeErrors[mySolidIDs[i]] = "NoError"
    BY <1>2, <1>5 DEF itemSuppressed
  <2>3. QED
    BY <1>2, <2>1, <2>2
<1>6. QED
  BY <1>1, <1>2, <1>3, <1>4, <1>5

\* While names and materials stay and no suppressed item comes back, the rows tell of the items.
LEMMA StillTold ==
  ASSUME ItemsInv, MeasuredInv, session = 1, reading = "published",
         UNCHANGED <<mySolidIDs, loaded.names, loaded.materials>>,
         DOMAIN myShapeErrors' = DOMAIN myShapeErrors,
         \A k \in DOMAIN myShapeErrors :
           myShapeErrors[k] # "NoError" => myShapeErrors'[k] = myShapeErrors[k]
  PROVE  \A f \in ToSet(metadata) : TellsOfItems(f)'
<1>1. itemCount' = itemCount
  BY DEF itemCount
<1>2. keptItems' \subseteq keptItems
  BY <1>1 DEF keptItems, itemSuppressed
<1>3. \A i : itemName(i)' = itemName(i) /\ itemMaterial(i)' = itemMaterial(i)
  BY DEF itemName, itemMaterial
<1>4. \A f \in ToSet(metadata) : TellsOfItems(f)
  BY DEF MeasuredInv
<1>5. QED
  BY <1>1, <1>2, <1>3, <1>4 DEF TellsOfItems

LEMMA ProcessKeeps ==
  ASSUME IInv, NEW i \in todo, CheckShape(i) \/ BuildProperty(i)
  PROVE  IInv'
<1>1. /\ session = 1 /\ reading = "published" /\ stage <= Len(Processors)
      /\ i \in 1 .. itemCount /\ todo' = todo \ {i}
      /\ UNCHANGED <<inputVars, sessionVars, loaded, stage, metadata>>
      /\ DOMAIN myShapeErrors' = DOMAIN myShapeErrors
      /\ \A k \in DOMAIN myShapeErrors :
           myShapeErrors[k] # "NoError" => myShapeErrors'[k] = myShapeErrors[k]
  BY ProcessFacts DEF IInv
<1>2. /\ UNCHANGED <<input, at, reading, tempDir, collision, loaded, unreadable>>
      /\ UNCHANGED <<session, config, original, mySolidIDs, stage, metadata>>
  BY <1>1 DEF inputVars, sessionVars
<1>3. ItemsInv'
  BY <1>1, <1>2 DEF IInv, ItemsInv, itemCount
<1>4. ASSUME Processors[stage] = "GeometryPropertyBuilder", NEW j \in 1 .. itemCount \ todo'
      PROVE  /\ j \in DOMAIN myGeometryUniqueIds'
             /\ myGeometryUniqueIds'[j] = geometryUniqueId(item(j).geometry)
  <2>1. myGeometryUniqueIds' = assignOne(myGeometryUniqueIds, i, geometryUniqueId(item(i).geometry))
    BY <1>4 DEF CheckShape, BuildProperty, Processing, geometryProperty
  <2>2. j # i => /\ j \in DOMAIN myGeometryUniqueIds
                 /\ myGeometryUniqueIds[j] = geometryUniqueId(item(j).geometry)
    BY <1>1, <1>4 DEF IInv, MeasuredInv
  <2>3. QED
    BY <2>1, <2>2 DEF assignOne
<1>5. MeasuredInv'
  <2>1. itemCount' = itemCount /\ \A j : item(j)' = item(j)
    BY <1>2 DEF itemCount, item
  <2>2. \A f \in ToSet(metadata) : TellsOfItems(f)'
    BY <1>1, <1>2, StillTold DEF IInv
  <2>3. QED
    BY <1>1, <1>2, <1>4, <2>1, <2>2 DEF IInv, MeasuredInv
<1>6. QED
  BY <1>2, <1>3, <1>5, SameInput DEF IInv

LEMMA ProcessorFacts == Len(Processors) \in Nat
BY RoundTripAssumption

\* A stage begins: items of a property builder have still to be measured.
LEMMA StageBegins ==
  ASSUME NEW n \in Nat, NEW count, n <= Len(Processors)
  PROVE  /\ Tasks(n, count) \subseteq 1 .. count
         /\ Processors[n] = "GeometryPropertyBuilder" => 1 .. count \ Tasks(n, count) = {}
         /\ Tasks(n, count) # {} => Processors[n] # "CollisionDetector"
BY DEF Tasks

\* The rows that a property builder writes after it measured all items.
LEMMA RowsFacts ==
  ASSUME itemCount \in Nat,
         \A i \in keptItems : /\ item(i).geometry \in Geometries
                              /\ myGeometryUniqueIds[i] = geometryUniqueId(item(i).geometry)
  PROVE  FileOfRows(writeMetaData) /\ TellsOfItems(writeMetaData)
<1> DEFINE coloured(i) == {j \in keptItems : j <= i /\ mySolidIDs[j] \in DOMAIN loaded.colours}
           colour(i)   == loaded.colours[mySolidIDs[Max(coloured(i))]]
           row(i) == [uniqueId |-> myGeometryUniqueIds[i], sequenceId |-> i, name |-> itemName(i),
                      material |-> RowMaterial(i), suppressed |-> FALSE]
           rows == [i \in keptItems |-> IF coloured(i) = {} THEN row(i)
                                        ELSE assignOne(row(i), "color", colour(i))]
<1>1. /\ writeMetaData.exists /\ writeMetaData.rows = rows
      /\ writeMetaData.measured = [i \in keptItems |-> item(i).geometry]
  BY Zenon DEF writeMetaData
<1> HIDE DEF coloured, colour
<1>2. ASSUME NEW i \in keptItems
      PROVE  /\ Has(rows[i], "suppressed") /\ rows[i]["suppressed"] = FALSE
             /\ ~Has(rows[i], "groups")
             /\ Has(rows[i], "name") /\ rows[i]["name"] = itemName(i)
             /\ Has(rows[i], "material") /\ rows[i]["material"] = itemMaterial(i)
             /\ rows[i]["uniqueId"] = myGeometryUniqueIds[i]
  <2> DEFINE r == row(i)
  <2>1. /\ DOMAIN r = {"uniqueId", "sequenceId", "name", "material", "suppressed"}
        /\ r["suppressed"] = FALSE /\ r["name"] = itemName(i) /\ r["material"] = itemMaterial(i)
        /\ r["uniqueId"] = myGeometryUniqueIds[i]
    BY DEF RowMaterial
  <2>2. rows[i] = r \/ rows[i] = assignOne(r, "color", colour(i))
    OBVIOUS
  <2> HIDE DEF r, rows
  <2>3. CASE rows[i] = r
    BY <2>1, <2>3 DEF Has
  <2>4. CASE rows[i] = assignOne(r, "color", colour(i))
    BY <2>1, <2>4 DEF Has, assignOne
  <2>5. QED
    BY <2>2, <2>3, <2>4
<1>3. DOMAIN rows = keptItems
  OBVIOUS
<1> HIDE DEF rows
<1>4. keptItems \subseteq 1 .. itemCount
  BY DEF keptItems
<1>5. Numbered(rows)
  BY <1>3, <1>4 DEF Numbered
<1>6. \A p \in ToSet(rows) : Has(p, "suppressed") /\ p["suppressed"] = FALSE /\ ~Has(p, "groups")
  BY <1>2, <1>3 DEF ToSet
<1>7. FileOfRows(writeMetaData)
  BY <1>1, <1>3, <1>5, <1>6 DEF FileOfRows, KeptRows
<1>8. TellsOfItems(writeMetaData)
  BY <1>1, <1>2, <1>3, <1>4 DEF TellsOfItems, Describes
<1>9. QED
  BY <1>7, <1>8

\* A list and one more.
LEMMA AppendListed ==
  ASSUME NEW s, Listed(s), NEW x
  PROVE  Listed(Append(s, x)) /\ ToSet(Append(s, x)) = ToSet(s) \cup {x}
<1> DEFINE S == ToSet(s) \cup {x}
           t == Append(s, x)
<1>1. s \in Seq(S) /\ x \in S
  BY DEF Listed
<1>2. /\ t \in Seq(S) /\ Len(s) \in Nat /\ DOMAIN s = 1 .. Len(s) /\ DOMAIN t = 1 .. Len(s) + 1
      /\ \A i \in 1 .. Len(s) : t[i] = s[i]
      /\ t[Len(s) + 1] = x
  <2> HIDE DEF S
  <2>1. QED
    BY <1>1, AppendProperties
<1> HIDE DEF t
<1>3. ToSet(t) = S
  <2>1. \A i \in DOMAIN t : i \in 1 .. Len(s) \/ i = Len(s) + 1
    BY <1>2
  <2>2. ToSet(t) \subseteq S
    BY <1>2, <2>1 DEF ToSet
  <2>3. \A i \in 1 .. Len(s) : i \in DOMAIN t
    BY <1>2
  <2>4. S \subseteq ToSet(t)
    BY <1>2, <2>3 DEF ToSet
  <2>5. QED
    BY <2>2, <2>4
<1>4. QED
  BY <1>2, <1>3 DEF Listed, t

LEMMA PrepareKeeps ==
  ASSUME IInv, prepareOutput
  PROVE  IInv'
<1>1. /\ session = 1 /\ reading = "published" /\ stage <= Len(Processors) /\ todo = {}
      /\ metadata' = IF Processors[stage] = "GeometryPropertyBuilder"
                       THEN Append(metadata, writeMetaData) ELSE metadata
      /\ stage' = stage + 1 /\ todo' = Tasks(stage + 1, itemCount)
      /\ UNCHANGED <<inputVars, sessionVars, loaded, myShapeErrors>>
  BY DEF prepareOutput
<1>2. UNCHANGED <<input, at, reading, tempDir, collision, mySolidIDs, unreadable,
                  session, config, original>>
  BY <1>1 DEF inputVars, sessionVars
<1>3. stage \in Nat /\ stage' \in 1 .. Len(Processors) + 1 /\ Len(Processors) \in Nat
  BY <1>1, ProcessorFacts DEF IInv, ItemsInv
<1>4. itemCount \in Nat
  BY <1>1 DEF IInv, ItemsInv, itemCount
<1>5. /\ todo' \subseteq 1 .. itemCount
      /\ todo' # {} => stage' <= Len(Processors) /\ Processors[stage'] # "CollisionDetector"
  BY <1>1, <1>3 DEF Tasks
<1>6. ItemsInv'
  BY <1>1, <1>2, <1>3, <1>5 DEF IInv, ItemsInv, itemCount
<1>7. /\ itemCount' = itemCount /\ keptItems' = keptItems
      /\ \A i : /\ item(i)' = item(i) /\ itemName(i)' = itemName(i)
                /\ itemMaterial(i)' = itemMaterial(i)
  BY <1>1, <1>2 DEF itemCount, keptItems, itemSuppressed, item, itemName, itemMaterial
<1>8. Processors[stage] = "GeometryPropertyBuilder" =>
        FileOfRows(writeMetaData) /\ TellsOfItems(writeMetaData)
  <2>1. keptItems \subseteq 1 .. itemCount
    BY DEF keptItems
  <2>2. \A i \in 1 .. itemCount : item(i).geometry \in Geometries
    BY <1>1 DEF IInv, ItemsInv, LoadedInv, itemCount, item
  <2>3. Processors[stage] = "GeometryPropertyBuilder" =>
          \A i \in 1 .. itemCount : myGeometryUniqueIds[i] = geometryUniqueId(item(i).geometry)
    BY <1>1 DEF IInv, MeasuredInv
  <2>4. QED
    BY <1>4, <2>1, <2>2, <2>3, RowsFacts
<1>9. /\ Listed(metadata') /\ \A f \in ToSet(metadata') : FileOfRows(f) /\ TellsOfItems(f)'
  <2>1. Listed(metadata) /\ \A f \in ToSet(metadata) : FileOfRows(f) /\ TellsOfItems(f)
    BY <1>1 DEF IInv, MeasuredInv
  <2>2. \A f : TellsOfItems(f)' <=> TellsOfItems(f)
    BY <1>7 DEF TellsOfItems
  <2>3. CASE Processors[stage] = "GeometryPropertyBuilder"
    <3>1. Listed(metadata') /\ ToSet(metadata') = ToSet(metadata) \cup {writeMetaData}
      BY <1>1, <2>1, <2>3, AppendListed
    <3>2. QED
      BY <1>8, <2>1, <2>2, <2>3, <3>1
  <2>4. CASE Processors[stage] # "GeometryPropertyBuilder"
    BY <1>1, <2>1, <2>2, <2>4
  <2>5. QED
    BY <2>3, <2>4
<1>10. ASSUME stage' <= Len(Processors), Processors[stage'] = "GeometryPropertyBuilder"
       PROVE  1 .. itemCount \ todo' = {}
  BY <1>1, <1>10 DEF Tasks
<1>11. MeasuredInv'
  BY <1>1, <1>2, <1>7, <1>9, <1>10 DEF MeasuredInv
<1>12. QED
  BY <1>1, <1>2, <1>6, <1>11, SameInput DEF IInv

\* A collision is the reason for items without one.
LEMMA ResolveFacts ==
  ASSUME ItemsInv, ResolveCollisions
  PROVE  /\ DOMAIN myShapeErrors' = DOMAIN myShapeErrors
         /\ \A k \in DOMAIN myShapeErrors :
              myShapeErrors[k] # "NoError" => myShapeErrors'[k] = myShapeErrors[k]
<1>1. PICK collided \in SUBSET keptItems :
         myShapeErrors' = [k \in DOMAIN myShapeErrors |->
                             IF k \in {mySolidIDs[i] : i \in collided} THEN "Collision"
                             ELSE myShapeErrors[k]]
  BY Zenon DEF ResolveCollisions
<1>2. \A i \in collided : mySolidIDs[i] \in DOMAIN myShapeErrors =>
                            myShapeErrors[mySolidIDs[i]] = "NoError"
  BY DEF keptItems, itemSuppressed
<1>3. QED
  BY <1>1, <1>2

LEMMA ResolveKeeps ==
  ASSUME IInv, ResolveCollisions
  PROVE  IInv'
<1>1. /\ session = 1 /\ reading = "published" /\ stage <= Len(Processors)
      /\ Processors[stage] = "CollisionDetector"
      /\ stage' = stage + 1 /\ todo' = Tasks(stage + 1, itemCount)
      /\ UNCHANGED <<inputVars, sessionVars, myGeometryUniqueIds, metadata>>
  BY DEF ResolveCollisions
<1>2. UNCHANGED <<input, at, reading, tempDir, collision, mySolidIDs, unreadable,
                  session, config, original>>
  BY <1>1 DEF inputVars, sessionVars
<1>3. PICK d \in [DOMAIN loaded.solids -> Drifts] :
         loaded' = [loaded EXCEPT !.solids = Moved(loaded.solids, d)]
  BY Zenon DEF ResolveCollisions
<1>4. /\ DOMAIN loaded = {"solids", "names", "materials", "colours"}
      /\ \A k \in DOMAIN loaded.solids : loaded.solids[k].geometry \in Geometries
  BY DEF IInv, LoadedInv
<1>5. /\ DOMAIN loaded' = {"solids", "names", "materials", "colours"}
      /\ loaded'.names = loaded.names /\ loaded'.materials = loaded.materials
      /\ loaded'.solids = Moved(loaded.solids, d)
  BY <1>3, <1>4
<1>6. /\ DOMAIN loaded'.solids = DOMAIN loaded.solids
      /\ \A k \in DOMAIN loaded.solids :
           /\ loaded'.solids[k].file = loaded.solids[k].file
           /\ loaded'.solids[k].geometry \in Geometries
  <2>1. \A k \in DOMAIN loaded.solids : d[k] \in Nat
    BY RoundTripAssumption
  <2>2. \A k \in DOMAIN loaded.solids : Drifted(loaded.solids[k].geometry, d[k]) \in Geometries
    BY <1>4, <2>1, MovedFacts
  <2>3. QED
    BY <1>5, <2>2 DEF Moved
<1>7. LoadedInv'
  <2>1. readable' = readable
    BY <1>2 DEF readable
  <2>2. \A e : Arrived(e, Wanted(e)) => Arrived(e, Wanted(e))'
    <3>1. ASSUME NEW e, Arrived(e, Wanted(e)), NEW s \in Wanted(e)
          PROVE  IF <<e, s.part>> \in collision
                   THEN (CHOOSE c \in collision : TRUE) \in DOMAIN loaded'.solids
                   ELSE /\ <<e, s.part>> \in DOMAIN loaded'.solids
                        /\ loaded'.solids[<<e, s.part>>].file = input.entries[e].file
      BY <1>6, <3>1 DEF Arrived
    <3>2. QED
      BY <1>2, <3>1, SameEntry DEF Arrived
  <2>3. \A k : Expected(k)' <=> Expected(k)
    BY <1>2, <2>1, SameEntry DEF Expected
  <2>4. ASSUME NEW k \in DOMAIN loaded.solids, Own(k) PROVE Own(k)'
    <3> DEFINE M == OwnMetas(k[1], k[2], loaded.solids[k].file)
    <3>1. /\ k \in DOMAIN loaded.materials => OwnMaterial(M, loaded.materials[k])
          /\ k \in DOMAIN loaded.names => OwnName(k, M, loaded.names[k])
      BY <2>4 DEF Own
    <3>2. \A from : OwnMetas(k[1], k[2], from)' = OwnMetas(k[1], k[2], from)
      BY <1>2, SameEntry
    <3>3. \A metas, name : OwnName(k, metas, name)' = OwnName(k, metas, name)
      BY <1>2, SameEntry
    <3>4. QED
      BY <1>5, <1>6, <3>1, <3>2, <3>3 DEF Own
  <2>5. /\ IsFiniteSet(DOMAIN loaded'.solids)
        /\ \A k \in DOMAIN loaded'.solids : loaded'.solids[k].geometry \in Geometries
        /\ \A k \in DOMAIN loaded'.solids \ collision' : k[1] \in 1 .. at' - 1
        /\ \A k \in DOMAIN loaded'.names \ collision' : k[1] \in 1 .. at' - 1
        /\ \A k \in DOMAIN loaded'.materials \ collision' : k[1] \in 1 .. at' - 1
    BY <1>2, <1>5, <1>6 DEF IInv, LoadedInv
  <2>6. \A e \in readable' : e < at' => Arrived(e, Wanted(e))'
    BY <1>2, <2>1, <2>2 DEF IInv, LoadedInv
  <2>7. \A k \in DOMAIN loaded'.solids : Expected(k)'
    BY <1>6, <2>3 DEF IInv, LoadedInv
  <2>8. \A k \in DOMAIN loaded'.solids \ collision' : Own(k)'
    BY <1>2, <1>6, <2>4 DEF IInv, LoadedInv
  <2>9. QED
    BY <1>5, <2>5, <2>6, <2>7, <2>8 DEF LoadedInv
<1>8. /\ InputInv' /\ BackInv'
  <2>1. AllObjects' = AllObjects /\ \A f : Readable(f)' <=> Readable(f)
    BY <1>2, SameEntry
  <2>2. InputInv'
    BY <1>2, <2>1 DEF IInv, InputInv
  <2>3. QED
    BY <1>1, <1>2, <2>2 DEF BackInv
<1>9. stage \in Nat /\ stage' \in 1 .. Len(Processors) + 1 /\ Len(Processors) \in Nat
  BY <1>1, ProcessorFacts DEF IInv, ItemsInv
<1>10. /\ todo' \subseteq 1 .. itemCount
       /\ todo' # {} => stage' <= Len(Processors) /\ Processors[stage'] # "CollisionDetector"
  BY <1>1, <1>9 DEF Tasks
<1>11. /\ DOMAIN myShapeErrors' = DOMAIN myShapeErrors
       /\ \A k \in DOMAIN myShapeErrors :
            myShapeErrors[k] # "NoError" => myShapeErrors'[k] = myShapeErrors[k]
  BY ResolveFacts DEF IInv
<1>12. ItemsInv'
  BY <1>1, <1>2, <1>6, <1>9, <1>10, <1>11 DEF IInv, ItemsInv, itemCount
<1>13. MeasuredInv'
  <2>1. itemCount' = itemCount
    BY <1>2 DEF itemCount
  <2>2. \A f \in ToSet(metadata) : TellsOfItems(f)'
    BY <1>1, <1>2, <1>5, <1>11, StillTold DEF IInv
  <2>3. ASSUME stage' <= Len(Processors), Processors[stage'] = "GeometryPropertyBuilder"
        PROVE  1 .. itemCount \ todo' = {}
    BY <1>1, <2>3 DEF Tasks
  <2>4. QED
    BY <1>1, <1>2, <2>1, <2>2, <2>3 DEF IInv, MeasuredInv
<1>14. QED
  BY <1>7, <1>8, <1>12, <1>13 DEF IInv

\* A map of the first numbers is a list.
LEMMA NumbersListed ==
  ASSUME NEW n \in Nat, NEW s, s = [i \in 1 .. n |-> s[i]]
  PROVE  Listed(s)
<1> DEFINE S == ToSet(s)
<1>1. DOMAIN s = 1 .. n
  OBVIOUS
<1>2. \A i \in 1 .. n : s[i] \in S
  BY <1>1 DEF ToSet
<1> HIDE DEF S
<1>3. s \in [1 .. n -> S]
  BY <1>1, <1>2
<1>4. s \in Seq(S)
  BY <1>3
<1>5. QED
  BY <1>4 DEF Listed, S

LEMMA OneListed ==
  ASSUME NEW x
  PROVE  Listed(<<x>>) /\ ToSet(<<x>>) = {x}
<1>1. ToSet(<<x>>) = {x}
  BY DEF ToSet
<1>2. QED
  BY <1>1 DEF Listed

\* Read back from a document of any unit, it has as well.
LEMMA ReadBackFacts ==
  ASSUME NEW g \in Geometries, NEW unit \in DOMAIN UNIT_SHIFT
  PROVE  ReadBack(g, unit) \in Geometries
<1> DEFINE shift == UNIT_SHIFT[unit] - calcOutputScale(unit)
<1>1. UNIT_SHIFT[unit] \in Nat
  BY RoundTripAssumption
<1>2. shift \in Nat
  BY <1>1 DEF calcOutputScale
<1> HIDE DEF shift
<1>3. Drifted(g, shift) \in Geometries
  BY <1>2, MovedFacts
<1>4. ReadBack(g, unit) = [c \in DOMAIN g |-> IF Magnitude(g[c]) = 0 THEN g[c]
                                             ELSE Drifted(g, shift)[c]]
  BY DEF ReadBack, shift
<1> DEFINE h == Drifted(g, shift)
<1>5. h \in Geometries
  BY <1>3
<1>6. ReadBack(g, unit) = [c \in DOMAIN g |-> IF Magnitude(g[c]) = 0 THEN g[c] ELSE h[c]]
  BY <1>4
<1> HIDE DEF h
<1>7. QED
  BY <1>5, <1>6 DEF Geometries

\* What is written can be read.
LEMMA WrittenFacts ==
  ASSUME LoadedInv, mySolidIDs \in Seq(DOMAIN loaded.solids), NEW d \in [keptItems -> Drifts],
         NEW unit \in DOMAIN UNIT_SHIFT
  PROVE  /\ Readable(Written("brep", exportCompound(calcOutputScale(unit), d)))
         /\ Readable(Written("step", createDocument(unit)))
<1> DEFINE shift == calcOutputScale(unit)
           content == exportCompound(shift, d)
           doc == createDocument(unit)
<1>1. itemCount \in Nat /\ \A i \in 1 .. itemCount : item(i).geometry \in Geometries
  BY DEF LoadedInv, itemCount, item
<1>2. keptItems \subseteq 1 .. itemCount
  BY DEF keptItems
<1>3. (\A i \in keptItems : d[i] \in Nat) /\ shift \in Nat
  BY RoundTripAssumption DEF calcOutputScale
<1> HIDE DEF shift
<1>4. /\ DOMAIN content = keptItems
      /\ \A i \in keptItems :
           content[i].geometry = Drifted(scaleShape(item(i).geometry, shift), d[i])
  BY DEF exportCompound, createCompound
<1> HIDE DEF content
<1>5. \A i \in keptItems : content[i].geometry \in Geometries
  BY <1>1, <1>2, <1>3, <1>4, MovedFacts
<1>6. Numbered(content) /\ \A s \in ToSet(content) : s.geometry \in Geometries
  BY <1>1, <1>2, <1>4, <1>5 DEF Numbered, ToSet
<1>7. Readable(Written("brep", content))
  BY <1>6 DEF Readable, Written
<1>8. doc = [i \in 1 .. itemCount |-> doc[i]]
  BY DEF createDocument
<1>9. \A i \in 1 .. itemCount :
         /\ doc[i].file = "result" /\ doc[i].components = <<>> /\ doc[i].children = <<>>
         /\ doc[i].solids = <<[part |-> i, geometry |-> ReadBack(item(i).geometry, unit)]>>
  BY DEF createDocument
<1> HIDE DEF doc
<1>10. Listed(doc)
  BY <1>1, <1>8, NumbersListed
<1>11. Listed(<<>>)
  BY DEF Listed, ToSet
<1>12. ASSUME NEW l \in ToSet(doc)
       PROVE  Measured(l.solids) /\ l.file = "result" /\ Listed(l.components) /\ Listed(l.children)
  <2>1. DOMAIN doc = 1 .. itemCount
    BY <1>8
  <2>2. PICK i \in 1 .. itemCount : l = doc[i]
    BY <2>1 DEF ToSet
  <2> DEFINE s == [part |-> i, geometry |-> ReadBack(item(i).geometry, unit)]
  <2>3. s.geometry \in Geometries /\ l.solids = <<s>>
    BY <1>1, <1>9, <2>2, ReadBackFacts
  <2> HIDE DEF s
  <2>4. Listed(<<s>>) /\ ToSet(<<s>>) = {s}
    BY OneListed
  <2>5. Measured(l.solids)
    BY <2>3, <2>4 DEF Measured
  <2>6. QED
    BY <1>9, <1>11, <2>2, <2>5
<1>13. Readable(Written("step", doc))
  <2> DEFINE f == Written("step", doc)
  <2>1. f.format = "step" /\ f.file = "result" /\ f.content = doc /\ f.default = Null
    BY DEF Written
  <2>2. IsNull(Null)
    BY DEF IsNull, Null
  <2> HIDE DEF f
  <2>3. WellFormed(f)
    BY <1>10, <1>12, <2>1, <2>2 DEF WellFormed
  <2>4. QED
    BY <2>1, <2>3 DEF Readable, f
<1>14. QED
  BY <1>7, <1>13 DEF content, doc, shift

LEMMA ExportKeeps ==
  ASSUME IInv, exportGeometry
  PROVE  IInv'
<1>1. /\ session = 1 /\ reading = "published" /\ stage > Len(Processors)
      /\ original' = Remembered /\ session' = 2 /\ at' = 1 /\ reading' = "files"
      /\ loaded' = Empty /\ mySolidIDs' = <<>> /\ myShapeErrors' = <<>> /\ unreadable' = {}
      /\ todo' = {} /\ UNCHANGED <<tempDir, config, stage, metadata>>
  BY DEF exportGeometry
<1> DEFINE unit == config.outputUnit
<1>2. PICK d \in [keptItems -> Drifts] :
         input' = [entries  |-> <<IF config.format = "brep"
                                    THEN Written("brep", exportCompound(calcOutputScale(unit), d))
                                    ELSE Written("step", createDocument(unit))>>,
                   metadata |-> MetadataFile(config.given)]
  BY DEF exportGeometry, createCompound
<1> DEFINE brep == Written("brep", exportCompound(calcOutputScale(unit), d))
           step == Written("step", createDocument(unit))
           f == IF config.format = "brep" THEN brep ELSE step
<1>3. input'.entries = <<f>> /\ input'.metadata = MetadataFile(config.given)
  BY <1>2
<1>4. config.format \in {"brep", "step"} /\ unit \in DOMAIN UNIT_SHIFT
  BY RoundTripAssumption DEF IInv, ItemsInv
<1>5. mySolidIDs \in Seq(DOMAIN loaded.solids)
  BY <1>1 DEF IInv, ItemsInv
<1>6. Readable(f)
  BY <1>4, <1>5, WrittenFacts DEF IInv
<1>7. f.format = config.format
  BY <1>4 DEF Written
<1>8. config.format = "brep" =>
        /\ DOMAIN f.content = keptItems /\ \A i \in keptItems : f.content[i].part = i
  <2> SUFFICES ASSUME config.format = "brep"
               PROVE  DOMAIN f.content = keptItems /\ \A i \in keptItems : f.content[i].part = i
    OBVIOUS
  <2>1. f.content = exportCompound(calcOutputScale(unit), d)
    BY DEF Written
  <2>2. QED
    BY <2>1 DEF exportCompound, createCompound
<1> HIDE DEF f
<1>9. /\ Listed(input'.entries) /\ ToSet(input'.entries) = {f}
      /\ Len(input'.entries) = 1 /\ input'.entries[1] = f /\ DOMAIN input'.entries = 1 .. 1
  BY <1>3, OneListed
<1>10. ASSUME input'.metadata.exists
       PROVE  FileOfRows(input'.metadata) /\ TellsOfItems(input'.metadata)
  <2>1. input'.metadata \in ToSet(metadata)
    <3>1. config.given \in {"none", "named", "newest"}
      BY RoundTripAssumption DEF IInv, ItemsInv
    <3>2. ~NoFile.exists
      BY DEF NoFile
    <3>3. metadata # <<>> /\ input'.metadata \in {metadata[1], metadata[Len(metadata)]}
      BY <1>3, <1>10, <3>1, <3>2 DEF MetadataFile
    <3>4. Len(metadata) # 0 /\ Listed(metadata)
      BY <3>3, EmptySeq DEF IInv, MeasuredInv, Listed
    <3>5. 1 \in DOMAIN metadata /\ Len(metadata) \in DOMAIN metadata
      BY <3>4, ListedFacts
    <3>6. QED
      BY <3>3, <3>4, <3>5, ListedFacts
  <2>2. QED
    BY <1>1, <2>1 DEF IInv, MeasuredInv
<1>11. KeptRows(input'.metadata.rows)
  <2>1. KeptRows(<<>>)
    BY DEF KeptRows, Numbered, ToSet
  <2>2. input'.metadata = NoFile \/ input'.metadata.exists
    <3>1. config.given \in {"none", "named", "newest"}
      BY RoundTripAssumption DEF IInv, ItemsInv
    <3>2. CASE config.given = "none" \/ metadata = <<>>
      BY <1>3, <3>2, <3>1 DEF MetadataFile
    <3>3. CASE ~(config.given = "none" \/ metadata = <<>>)
      <4>1. input'.metadata \in {metadata[1], metadata[Len(metadata)]}
        BY <1>3, <3>1, <3>3 DEF MetadataFile
      <4>2. Len(metadata) # 0 /\ Listed(metadata)
        BY <3>3, EmptySeq DEF IInv, MeasuredInv, Listed
      <4>3. 1 \in DOMAIN metadata /\ Len(metadata) \in DOMAIN metadata
        BY <4>2, ListedFacts
      <4>4. input'.metadata \in ToSet(metadata)
        BY <4>1, <4>2, <4>3, ListedFacts
      <4>5. QED
        BY <4>4 DEF IInv, MeasuredInv, FileOfRows
    <3>4. QED
      BY <3>2, <3>3
  <2>3. QED
    BY <1>10, <2>1, <2>2 DEF FileOfRows, NoFile
<1>12. /\ DOMAIN original' = 1 .. itemCount /\ itemCount \in Nat
       /\ \A i \in 1 .. itemCount :
            /\ original'[i].suppressed = itemSuppressed(i)
            /\ original'[i].name = itemName(i) /\ original'[i].material = itemMaterial(i)
            /\ original'[i].geometry = item(i).geometry
            /\ item(i).geometry \in Geometries
  BY <1>1, <1>5 DEF Remembered, itemCount, item, IInv, LoadedInv
<1>13. KeptItems' = keptItems /\ keptItems \subseteq 1 .. itemCount
  BY <1>12 DEF KeptItems, keptItems
<1>14. ItemsInv'
  BY <1>1 DEF IInv, ItemsInv, itemCount
<1>15. InputInv'
  <2>1. /\ at' \in 1 .. Len(input'.entries) + 1 /\ unreadable' \subseteq 1 .. at' - 1
        /\ reading' # "published"
    BY <1>1, <1>9
  <2>2. Numbered(input'.metadata.rows)
    BY <1>11 DEF KeptRows
  <2>3. WellFormedObjects(tempDir'.objects)
    BY <1>1 DEF IInv, InputInv
  <2>4. \A g \in ToSet(input'.entries) : Readable(g)' /\ g.format # "freecad"
    BY <1>4, <1>6, <1>7, <1>9
  <2>5. QED
    BY <1>1, <1>9, <2>1, <2>2, <2>3, <2>4 DEF InputInv
<1>16. LoadedInv'
  <2>1. /\ DOMAIN loaded' = {"solids", "names", "materials", "colours"}
        /\ DOMAIN loaded'.solids = {} /\ DOMAIN loaded'.names = {} /\ DOMAIN loaded'.materials = {}
    BY <1>1 DEF Empty, NoMap
  <2>2. \A e \in readable' : ~(e < at')
    BY <1>1, <1>9 DEF readable
  <2>3. IsFiniteSet({})
    BY FS_EmptySet
  <2>4. QED
    BY <2>1, <2>2, <2>3 DEF LoadedInv
<1>17. MeasuredInv'
  BY <1>1 DEF IInv, MeasuredInv
<1>18. BackInv'
  <2>2. ASSUME input'.metadata.exists PROVE GivenInv'
    <3> DEFINE file == input'.metadata
    <3>1. FileOfRows(file) /\ TellsOfItems(file)
      BY <1>10, <2>2
    <3>2. KeptItems' \subseteq DOMAIN file.rows
      BY <1>13, <3>1 DEF TellsOfItems
    <3>3. \A i \in DOMAIN file.rows : Describes(file.rows[i], original'[i].name,
                                                original'[i].material, file.measured[i])
      BY <1>12, <3>1 DEF TellsOfItems
    <3>4. QED
      BY <3>1, <3>2, <3>3 DEF GivenInv
  <2>3. /\ config'.format = "brep" =>
             /\ DOMAIN input'.entries[1].content = KeptItems'
             /\ \A i \in KeptItems' : input'.entries[1].content[i].part = i
        /\ input'.entries[1].format = config'.format
    BY <1>1, <1>7, <1>8, <1>9, <1>13
  <2>4. QED
    BY <1>1, <1>9, <1>11, <2>2, <2>3 DEF BackInv
<1>19. QED
  BY <1>14, <1>15, <1>16, <1>17, <1>18 DEF IInv

LEMMA GlueKeeps ==
  ASSUME IInv, glueFacesThrows
  PROVE  IInv'
<1>1. /\ session = 1 /\ stage > Len(Processors) /\ reading' = "failed"
      /\ UNCHANGED <<input, at, tempDir, collision, loaded, mySolidIDs, unreadable>>
      /\ UNCHANGED <<session, config, original, stage, todo, metadata>>
  BY DEF glueFacesThrows, sessionVars
<1>2. todo = {}
  BY <1>1, ProcessorFacts DEF IInv, ItemsInv
<1>3. ItemsInv'
  BY <1>1, <1>2 DEF IInv, ItemsInv, itemCount
<1>4. InputInv'
  <2>1. AllObjects' = AllObjects /\ \A f : Readable(f)' <=> Readable(f)
    BY <1>1, SameEntry
  <2>2. QED
    BY <1>1, <2>1 DEF IInv, InputInv
<1>5. LoadedInv'
  BY <1>1, SameLoaded DEF IInv
<1>6. MeasuredInv' /\ BackInv'
  BY <1>1 DEF IInv, MeasuredInv, BackInv
<1>7. QED
  BY <1>3, <1>4, <1>5, <1>6 DEF IInv

-----------------------------------------------------------------------------
(* The theorems *)

LEMMA InitIInv == SessionInit => IInv
<1> SUFFICES ASSUME SessionInit PROVE IInv
  OBVIOUS
<1>1. /\ input \in Inputs /\ tempDir \in TempDirs /\ at = 1 /\ reading = "files"
      /\ loaded = Empty /\ mySolidIDs = <<>> /\ myShapeErrors = <<>> /\ unreadable = {}
      /\ session = 1 /\ config \in Configs /\ stage = 1 /\ todo = {} /\ metadata = <<>>
  BY DEF SessionInit, Init
<1>2. /\ Listed(input.entries) /\ \A f \in ToSet(input.entries) : WellFormed(f)
      /\ Listed(input.metadata.rows)
      /\ WellFormedObjects(tempDir.objects)
  BY <1>1, ReaderAssumption
<1>3. ItemsInv
  BY <1>1, ProcessorFacts DEF ItemsInv, itemCount
<1>4. InputInv
  <2>1. ASSUME NEW f \in ToSet(input.entries) PROVE Readable(f)
    <3>1. CASE f.format = "brep"
      <4>1. Measured(f.content)
        BY <1>2, <3>1 DEF WellFormed
      <4>2. QED
        BY <3>1, <4>1, ListedFacts DEF Measured, Readable
    <3>2. CASE f.format # "brep"
      BY <1>2, <3>2 DEF Readable
    <3>3. QED
      BY <3>1, <3>2
  <2>2. Len(input.entries) \in Nat /\ Numbered(input.metadata.rows)
    BY <1>2, ListedFacts
  <2>3. ToSet(tempDir.objects) \subseteq AllObjects
    <3> DEFINE earlier == {ToSet(dir.objects) : dir \in TempDirs}
               contents == {ToSet(f.content) :
                              f \in {e \in ToSet(input.entries) : e.format = "freecad"}}
    <3>1. ToSet(tempDir.objects) \in earlier
      BY <1>1
    <3>2. AllObjects = UNION (earlier \cup contents)
      BY Zenon DEF AllObjects
    <3> HIDE DEF earlier, contents
    <3>3. QED
      BY <3>1, <3>2
  <2>4. QED
    BY <1>1, <1>2, <2>1, <2>2, <2>3 DEF InputInv
<1>5. LoadedInv
  <2>1. /\ DOMAIN loaded = {"solids", "names", "materials", "colours"}
        /\ DOMAIN loaded.solids = {} /\ DOMAIN loaded.names = {} /\ DOMAIN loaded.materials = {}
    BY <1>1 DEF Empty, NoMap
  <2>2. \A e \in readable : ~(e < at)
    BY <1>1, <1>2, ListedFacts DEF readable
  <2>3. IsFiniteSet({})
    BY FS_EmptySet
  <2>4. QED
    BY <2>1, <2>2, <2>3 DEF LoadedInv
<1>6. MeasuredInv /\ BackInv
  <2>1. Listed(<<>>) /\ ToSet(<<>>) = {}
    BY DEF Listed, ToSet
  <2>2. QED
    BY <1>1, <2>1 DEF MeasuredInv, BackInv
<1>7. QED
  BY <1>3, <1>4, <1>5, <1>6 DEF IInv

LEMMA StepIInv ==
  ASSUME IInv, [Next]_vars
  PROVE  IInv'
<1>1. ASSUME UNCHANGED vars PROVE IInv'
  <2>1. /\ UNCHANGED <<input, at, reading, tempDir, collision, loaded, unreadable>>
        /\ UNCHANGED <<session, config, original>>
        /\ UNCHANGED <<mySolidIDs, myShapeErrors, stage, todo, myGeometryUniqueIds, metadata>>
    BY <1>1 DEF vars, readerVars
  <2>2. ItemsInv'
    BY <2>1 DEF IInv, ItemsInv, itemCount
  <2>3. /\ itemCount' = itemCount /\ keptItems' = keptItems
        /\ \A i : /\ item(i)' = item(i) /\ itemName(i)' = itemName(i)
                  /\ itemMaterial(i)' = itemMaterial(i)
    BY <2>1 DEF itemCount, keptItems, itemSuppressed, item, itemName, itemMaterial
  <2>4. MeasuredInv'
    <3>1. \A f : TellsOfItems(f)' <=> TellsOfItems(f)
      BY <2>3 DEF TellsOfItems
    <3>2. QED
      BY <2>1, <2>3, <3>1 DEF IInv, MeasuredInv
  <2>5. QED
    BY <2>1, <2>2, <2>4, SameInput DEF IInv
<1>2. QED
  BY <1>1, ReadKeeps, ProcessKeeps, PrepareKeeps, ResolveKeeps, ExportKeeps, GlueKeeps
     DEF Next, Finished

\* The invariant of both sessions: the list of items and the errors belong together, what
\* was read is of the files before the next one, a property builder has measured the
\* items that no worker has any more, and session two reads what session one wrote.
THEOREM Invariance == Spec => []IInv
<1>1. QED
  BY InitIInv, StepIInv, PTL DEF Spec

\* Every solid, and every component of a compound, of each file that the readers of
\* GeometryReader.h could read is an item; every item is of such a file, has a reused hash
\* code, or was loaded once more by the FreeCAD reader.
THEOREM ReadableAreLoaded == Spec => []ReadableLoaded
<1>1. ASSUME IInv, reading = "published"
      PROVE  (\A e \in readable : Arrived(e, Wanted(e))) /\ \A k \in DOMAIN loaded.solids : Expected(k)
  <2>1. Len(input.entries) \in Nat /\ DOMAIN input.entries = 1 .. Len(input.entries)
        /\ at = Len(input.entries) + 1
    BY <1>1, ListedFacts DEF IInv, InputInv
  <2>2. \A e \in readable : e < at
    BY <2>1 DEF readable
  <2>3. QED
    BY <1>1, <2>2 DEF IInv, LoadedInv
<1>2. IInv => ReadableLoaded
  BY <1>1 DEF ReadableLoaded
<1>3. QED
  BY <1>2, Invariance, PTL

\* The name and the material of an item are what its own label, entry, object or record says,
\* and the placeholder only where there is no record: neither registerShape, which keeps what
\* is there, nor extractXCAFMetadata, which replaces it, mixes up two files.
THEOREM MetadataIsOwn == Spec => []OwnMetadata
<1>1. IInv => OwnMetadata
  BY DEF IInv, LoadedInv, OwnMetadata
<1>2. QED
  BY <1>1, Invariance, PTL

\* The first reason for which an item is suppressed stays, whichever worker checks it
\* later (suppressItem is only called for items that are not suppressed).
THEOREM FirstReasonStays == Spec => FirstErrorKept
<1>1. ASSUME IInv, [Next]_vars, session' = session, NEW k \in DOMAIN myShapeErrors,
             myShapeErrors[k] # "NoError"
      PROVE  myShapeErrors'[k] = myShapeErrors[k]
  <2>1. CASE UNCHANGED vars
    BY <2>1 DEF vars, readerVars
  <2>2. CASE ReadInput
    <3>1. reading = "files"
      BY <2>2 DEF ReadInput, Read, SkipFile, NoFileName, ReadXCAF, readFreeCADFile, readFreeCADThrows,
                  loadShapeThrows, readBrep, readBrepThrows, moveShapeIntoPropertyContainer, NextFile
    <3>2. QED
      BY <1>1, <3>1 DEF IInv, ItemsInv
  <2>3. ASSUME NEW i \in todo, CheckShape(i) \/ BuildProperty(i)
        PROVE  myShapeErrors'[k] = myShapeErrors[k]
    BY <1>1, <2>3, ProcessFacts DEF IInv
  <2>4. CASE prepareOutput \/ glueFacesThrows
    BY <2>4 DEF prepareOutput, glueFacesThrows
  <2>5. CASE ResolveCollisions
    BY <1>1, <2>5, ResolveFacts DEF IInv
  <2>6. CASE exportGeometry
    BY <1>1, <2>6 DEF exportGeometry
  <2>7. QED
    BY <1>1, <2>1, <2>2, <2>3, <2>4, <2>5, <2>6 DEF Next, Finished
<1> DEFINE A == session' = session =>
                  \A k \in DOMAIN myShapeErrors :
                    myShapeErrors[k] # "NoError" => myShapeErrors'[k] = myShapeErrors[k]
<1>2. IInv /\ [Next]_vars => [A]_vars
  BY <1>1
<1>3. Spec => [][A]_vars
  BY <1>2, Invariance, PTL DEF Spec
<1>4. QED
  BY <1>3 DEF FirstErrorKept

\* While workers are busy, suppressItem only replaces values of the unordered map, which
\* is the reason why it needs no lock.
THEOREM ErrorsOnlyReplaced == Spec => NoErrorInserted
<1>1. ASSUME IInv, [Next]_vars, todo # {}
      PROVE  DOMAIN myShapeErrors' = DOMAIN myShapeErrors
  <2>1. /\ reading = "published" /\ session = 1 /\ stage <= Len(Processors)
        /\ stage \in Nat /\ Len(Processors) \in Nat
    BY <1>1, ProcessorFacts DEF IInv, ItemsInv
  <2>2. CASE UNCHANGED vars
    BY <2>2 DEF vars, readerVars
  <2>3. ~ReadInput
    BY <2>1 DEF ReadInput, Read, SkipFile, NoFileName, ReadXCAF, readFreeCADFile, readFreeCADThrows,
                loadShapeThrows, readBrep, readBrepThrows, moveShapeIntoPropertyContainer, NextFile
  <2>4. ASSUME NEW i \in todo, CheckShape(i) \/ BuildProperty(i)
        PROVE  DOMAIN myShapeErrors' = DOMAIN myShapeErrors
    BY <1>1, <2>4, ProcessFacts DEF IInv
  <2>5. CASE prepareOutput \/ glueFacesThrows
    BY <2>5 DEF prepareOutput, glueFacesThrows
  <2>6. CASE ResolveCollisions
    BY <1>1, <2>6, ResolveFacts DEF IInv
  <2>7. ~exportGeometry
    BY <2>1 DEF exportGeometry
  <2>8. QED
    BY <1>1, <2>2, <2>3, <2>4, <2>5, <2>6, <2>7 DEF Next, Finished
<1> DEFINE A == todo # {} => DOMAIN myShapeErrors' = DOMAIN myShapeErrors
<1>2. IInv /\ [Next]_vars => [A]_vars
  BY <1>1
<1>3. Spec => [][A]_vars
  BY <1>2, Invariance, PTL DEF Spec
<1>4. QED
  BY <1>3 DEF NoErrorInserted

\* What was read back of session one.
LEMMA BackFacts ==
  ASSUME IInv, BrepBack
  PROVE  /\ \A k \in DOMAIN loaded.solids \ collision : k[2] \in KeptItems
         /\ \A i \in KeptItems : <<1, i>> \in DOMAIN loaded.solids \cup collision
         /\ input.metadata.exists =>
              /\ GivenInv
              /\ \A k \in DOMAIN loaded.solids \ collision : Recognised(k)
<1>1. session = 2 /\ reading = "published" /\ config.format = "brep"
  BY DEF BrepBack
<1>2. Len(input.entries) = 1 /\ at = Len(input.entries) + 1
  BY <1>1 DEF IInv, BackInv, InputInv
<1>3. at = 2
  BY <1>2
<1>4. QED
  BY <1>1, <1>3 DEF IInv, BackInv

\* The solids of the brep file that GeometryWriter.h writes are those that no processor
\* suppressed, and all of them are items again when it is read.
THEOREM KeptReturn == Spec => []KeptComeBack
<1>1. IInv => KeptComeBack
  BY BackFacts DEF KeptComeBack
<1>2. QED
  BY <1>1, Invariance, PTL

\* Whichever metadata file of session one the reader is given, a solid whose identifier is
\* that of its own row and of no other has the name and the material of this row: what the
\* property builder wrote before imprinting is as good as long as the identifier is the same.
THEOREM RecognisedReturn == Spec => []RecognisedByIdentifier
<1>1. ASSUME IInv, MetadataUsed, NEW k \in DOMAIN loaded.solids \ collision
      PROVE  k[2] \in DOMAIN input.metadata.rows /\ Recognised(k)
  BY <1>1, BackFacts DEF MetadataUsed, GivenInv
<1>2. ASSUME IInv, MetadataUsed, NEW k \in DOMAIN loaded.solids \ collision,
             input.metadata.rows[k[2]].uniqueId = geometryUniqueId(loaded.solids[k].geometry),
             \A j \in DOMAIN input.metadata.rows \ {k[2]} :
               input.metadata.rows[j].uniqueId # input.metadata.rows[k[2]].uniqueId
      PROVE  HasMetadataOf(k, k[2])
  BY <1>1, <1>2 DEF Recognised
<1>3. IInv => RecognisedByIdentifier
  BY <1>1, <1>2 DEF RecognisedByIdentifier
<1>4. QED
  BY <1>3, Invariance, PTL

\* A solid is given metadata of another one only if it has nearly the size and centre that were
\* measured of that one; if there is none, a name made from its hash code and no material.
THEOREM ForeignIsNear == Spec => []ForeignOnlyIfNear
<1>1. ASSUME IInv, MetadataUsed, NEW k \in DOMAIN loaded.solids \ collision
      PROVE  \/ \E j \in DOMAIN input.metadata.rows :
                   /\ Near(input.metadata.measured[j], loaded.solids[k].geometry)
                   /\ HasMetadataOf(k, j)
             \/ loaded.names[k] = <<"shape", k>> /\ k \notin DOMAIN loaded.materials
  <2>1. GivenInv /\ Recognised(k)
    BY <1>1, BackFacts DEF MetadataUsed
  <2> DEFINE gid == geometryUniqueId(loaded.solids[k].geometry)
  <2>2. CASE \E j \in DOMAIN input.metadata.rows :
               input.metadata.rows[j]["uniqueId"] = gid /\ HasMetadataOf(k, j)
    <3>1. PICK j \in DOMAIN input.metadata.rows :
             input.metadata.rows[j]["uniqueId"] = gid /\ HasMetadataOf(k, j)
      BY <2>2
    <3> DEFINE g == input.metadata.measured[j]
    <3>2. g \in Geometries /\ geometryUniqueId(g) = gid
      BY <2>1, <3>1 DEF GivenInv, FileOfRows, Describes
    <3>3. loaded.solids[k].geometry \in Geometries
      BY <1>1 DEF IInv, LoadedInv
    <3>4. Near(g, loaded.solids[k].geometry)
      BY <3>2, <3>3, NearlySame
    <3>5. QED
      BY <3>1, <3>4
  <2>3. QED
    BY <2>1, <2>2 DEF Recognised
<1>2. IInv => ForeignOnlyIfNear
  BY <1>1 DEF ForeignOnlyIfNear
<1>3. QED
  BY <1>2, Invariance, PTL

=============================================================================
