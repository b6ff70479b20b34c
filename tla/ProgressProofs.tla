--------------------------- MODULE ProgressProofs ---------------------------
(***************************************************************************)
(* Machine-checked proofs about the progress reports and their monitors,   *)
(* for every workload, every size of the batches and every frequency.      *)
(***************************************************************************)
EXTENDS Progress, SequenceTheorems, FiniteSetTheorems, TLAPS

USE ProgressAssumption

\* A round counts down, and what it reported last is not less than what is left.
CountInv ==
  phase = "working" =>
     /\ round \in DOMAIN Totals
     /\ remained <= myRemainedSteps
     /\ myRemainedSteps <= Totals[round]

\* Of the rounds to come there are no lines; of a round at work the lines are as many
\* as intervals were done, and none says more than was done.
LinesInv ==
  \A r \in DOMAIN Totals :
     /\ r > round => LinesOf(r) = {}
     /\ \A i, j \in LinesOf(r) : i < j => log[i].percent <= log[j].percent
     /\ IF r = round /\ phase = "working"
          THEN /\ Cardinality(LinesOf(r)) * (myReportInterval + 1) <= Totals[r] - myRemainedSteps
               /\ \A i \in LinesOf(r) : log[i].percent <= percent(Totals[r], myRemainedSteps)
          ELSE Cardinality(LinesOf(r)) <= myReportFrequency(Totals[r])

\* What the first monitor has shown was in the lines of the first round, and these
\* are complete only when almost nothing remains.
FirstInv ==
  MaxRounds > 0 =>
     /\ round = 0 => log = <<>> /\ monitor[1] = "none" /\ progress[1] = 0
     /\ monitor[1] = "closed" => progress[1] >= Full
     /\ round = 1 /\ phase = "working" =>
           /\ \A i \in DOMAIN log : log[i].percent >= Full => 2 * Full * remained <= Totals[1]
           /\ progress[1] >= Full => 2 * Full * remained <= Totals[1]

\* The inductive invariant.
IInv == TypeOK /\ CountInv /\ LinesInv /\ FirstInv
-----------------------------------------------------------------------------
(* Arithmetic *)

LEMMA DivFacts ==
  ASSUME NEW a \in Nat, NEW b \in Nat \ {0}
  PROVE  a \div b \in Nat /\ b * (a \div b) <= a /\ a < b * (a \div b) + b
BY SMT

LEMMA DivBound ==
  ASSUME NEW b \in Nat \ {0}, NEW q \in Nat, NEW p \in Nat, NEW a \in Nat,
         b * q <= a, a < b * p + b
  PROVE  q <= p
<1>1. ASSUME p + 1 <= q PROVE FALSE
  <2>1. b * (p + 1) <= b * q
    BY <1>1
  <2>2. b * (p + 1) = b * p + b
    OBVIOUS
  <2>3. b * q \in Nat /\ b * p \in Nat
    OBVIOUS
  <2>4. QED
    BY <2>1, <2>2, <2>3
<1>2. QED
  BY <1>1

\* A percentage is one, falls with what remains, and is complete only when what remains
\* is less than half of its last digit.
LEMMA PercentFacts ==
  ASSUME NEW t \in Nat \ {0}, NEW s \in Nat, s <= t
  PROVE  /\ percent(t, s) \in 0 .. Full
         /\ percent(t, s) >= Full => 2 * Full * s <= t
<1> DEFINE a == 2 * Full * (t - s) + t
           x == Full * t
           y == Full * s
           q == a \div (2 * t)
<1>1. x \in Nat /\ y \in Nat /\ y <= x
  <2>1. Full \in Nat /\ t - s \in Nat
    OBVIOUS
  <2>2. Full * (t - s) \in Nat /\ Full * (t - s) = x - y
    BY <2>1
  <2>3. QED
    BY <2>1, <2>2
<1>2. a = 2 * x - 2 * y + t /\ 2 * Full * s = 2 * y /\ 2 * t * Full = 2 * x
  OBVIOUS
<1>3. 2 * t \in Nat \ {0}
  OBVIOUS
<1>4. percent(t, s) = q
  BY DEF percent
<1> DEFINE b == 2 * t
<1>5. b \in Nat \ {0} /\ b * Full = 2 * x /\ q = a \div b /\ t \in Nat /\ b = t + t
  BY <1>2, <1>3
<1>6. 2 * Full * s <= t <=> 2 * y <= t
  BY <1>2
<1> HIDE DEF a, b, x, y, q
<1>7. a \in Nat
  BY <1>1, <1>2
<1>8. q \in Nat /\ b * q <= a
  BY <1>5, <1>7, DivFacts
<1>9. q <= Full
  <2>1. a < b * Full + b
    BY <1>1, <1>2, <1>5
  <2>2. QED
    BY <1>5, <1>7, <1>8, <2>1, DivBound
<1>10. ASSUME q >= Full PROVE 2 * y <= t
  <2>1. q = Full
    BY <1>8, <1>9, <1>10
  <2>2. 2 * x <= a
    BY <1>5, <1>8, <2>1
  <2>3. QED
    BY <1>1, <1>2, <1>5, <2>2
<1>11. QED
  BY <1>4, <1>6, <1>8, <1>9, <1>10

LEMMA PercentFalls ==
  ASSUME NEW t \in Nat \ {0}, NEW s \in Nat, NEW r \in Nat, s <= r, r <= t
  PROVE  percent(t, r) <= percent(t, s)
<1> DEFINE a(u) == 2 * Full * (t - u) + t
<1>1. a(r) \in Nat /\ a(s) \in Nat /\ a(r) <= a(s)
  <2>1. /\ t - r \in Nat /\ t - s \in Nat /\ r - s \in Nat
        /\ t - s = (t - r) + (r - s)
    OBVIOUS
  <2>2. 2 * Full * (t - r) \in Nat /\ 2 * Full * (r - s) \in Nat
    BY <2>1
  <2>3. 2 * Full * (t - s) = 2 * Full * (t - r) + 2 * Full * (r - s)
    BY <2>1
  <2> DEFINE x == 2 * Full * (t - r)
             y == 2 * Full * (r - s)
  <2>4. a(r) = x + t /\ a(s) = x + y + t
    BY <2>3
  <2>5. x \in Nat /\ y \in Nat
    BY <2>2
  <2> HIDE DEF x, y, a
  <2>6. QED
    BY <2>4, <2>5
<1> DEFINE b == 2 * t
           p == a(r) \div b
           q == a(s) \div b
<1>2. b \in Nat \ {0}
  OBVIOUS
<1> HIDE DEF a, b
<1>3. p \in Nat /\ b * p <= a(r) /\ q \in Nat /\ a(s) < b * q + b
  BY <1>1, <1>2, DivFacts
<1> HIDE DEF p, q
<1>4. b * p <= a(s)
  <2>1. b * p \in Nat
    BY <1>2, <1>3
  <2>2. QED
    BY <1>1, <1>3, <2>1
<1>5. p <= q
  BY <1>1, <1>2, <1>3, <1>4, DivBound
<1>6. QED
  BY <1>5 DEF percent, a, b, p, q

\* Less remains, so less is left of the last digit.
LEMMA ScaledDown ==
  ASSUME NEW s \in Nat, NEW r \in Nat, NEW t \in Nat, s <= r, 2 * Full * r <= t
  PROVE  2 * Full * s <= t
<1>1. r - s \in Nat /\ r = s + (r - s)
  OBVIOUS
<1>2. 2 * Full * (r - s) \in Nat /\ 2 * Full * s \in Nat
  BY <1>1
<1>3. 2 * Full * r = 2 * Full * s + 2 * Full * (r - s)
  BY <1>1
<1> DEFINE x == 2 * Full * s
           y == 2 * Full * (r - s)
<1>4. x + y <= t /\ x \in Nat /\ y \in Nat
  BY <1>2, <1>3
<1> HIDE DEF x, y
<1>5. x <= t
  BY <1>4
<1>6. QED
  BY <1>5 DEF x

\* As many intervals as there are lines make a line more than the interval of each.
LEMMA OneMoreLine ==
  ASSUME NEW n \in Nat, NEW k \in Nat, NEW t \in Nat, NEW r \in Nat, NEW s \in Nat,
         n * k <= t - r, r - s >= k
  PROVE  (n + 1) * k <= t - s
<1>1. (n + 1) * k = n * k + k /\ n * k \in Nat
  OBVIOUS
<1>2. QED
  BY <1>1

\* So many lines and the last one are within the frequency.
LEMMA LinesWithinFrequency ==
  ASSUME NEW n \in Nat, NEW t \in Nat \ {0}, NEW f \in Nat \ {0}, NEW r \in Nat,
         n * (t \div f + 1) <= t - r
  PROVE  n + 1 <= f
<1> DEFINE k == t \div f + 1
<1>1. t \div f \in Nat /\ t < f * (t \div f) + f
  BY DivFacts
<1>2. k \in Nat /\ f * k = f * (t \div f) + f
  BY <1>1
<1> HIDE DEF k
<1>3. n * k < f * k
  <2>1. n * k \in Nat /\ f * k \in Nat /\ t < f * k
    BY <1>1, <1>2
  <2>2. n * k <= t - r
    BY DEF k
  <2>3. QED
    BY <2>1, <2>2
<1>4. ASSUME f <= n PROVE FALSE
  <2>1. f * k <= n * k /\ n * k \in Nat /\ f * k \in Nat
    BY <1>2, <1>4
  <2>2. QED
    BY <1>3, <2>1
<1>5. QED
  BY <1>4
-----------------------------------------------------------------------------
(* Lines *)

\* A set of indices that is not empty has a last one, and Max is that.
LEMMA LastIndex ==
  ASSUME NEW n \in Nat, NEW S \in SUBSET (1 .. n), S # {}
  PROVE  Max(S) \in S /\ \A j \in S : j <= Max(S)
<1> DEFINE T == {k \in Nat : n - k \in S}
           R == OpToRel(<, Nat)
<1>1. PICK x \in S : TRUE
  OBVIOUS
<1>2. x \in 1 .. n
  OBVIOUS
<1>3. n - (n - x) = x /\ n - x \in Nat
  BY <1>2
<1>4. T # {} /\ T \subseteq Nat
  BY <1>3
<1>5. IsWellFoundedOn(R, Nat)
  BY NatLessThanWellFounded
<1> HIDE DEF R
<1>6. PICK l \in T : \A k \in T : ~(<<k, l>> \in R)
  BY <1>4, <1>5, WFMin
<1>7. \A j, k \in Nat : <<j, k>> \in R <=> j < k
  BY DEF R, OpToRel
<1>8. ASSUME NEW k \in T PROVE l <= k
  <2>1. k \in Nat /\ l \in Nat
    BY <1>4
  <2>2. ~(<<k, l>> \in R)
    BY <1>6
  <2>3. ~(k < l)
    BY <1>7, <2>1, <2>2
  <2>4. QED
    BY <2>1, <2>3
<1>9. ASSUME NEW j \in S PROVE j <= n - l
  <2>1. j \in 1 .. n
    OBVIOUS
  <2>2. n - (n - j) = j /\ n - j \in Nat
    BY <2>1
  <2>3. n - j \in T
    BY <2>2
  <2>4. l <= n - j
    BY <1>8, <2>3
  <2>5. j \in Nat /\ l \in Nat
    BY <1>4, <2>1
  <2>6. QED
    BY <2>4, <2>5
<1>10. n - l \in S
  OBVIOUS
<1>11. \E m \in S : \A j \in S : m >= j
  <2>1. \A j \in S : n - l >= j
    <3> TAKE j \in S
    <3>1. j <= n - l /\ j \in 1 .. n /\ l \in Nat
      BY <1>4, <1>9
    <3>2. QED
      BY <3>1
  <2>2. QED
    BY <1>10, <2>1
<1>12. Max(S) \in S /\ \A j \in S : Max(S) >= j
  BY <1>11 DEF Max
<1>13. Max(S) \in 1 .. n
  BY <1>12
<1>14. QED
  BY <1>12, <1>13

\* What another line makes of the log.
LEMMA AnotherLine ==
  ASSUME log \in Seq(Lines), NEW e \in Lines, log' = Append(log, e)
  PROVE  /\ log' \in Seq(Lines)
         /\ Len(log) \in Nat /\ DOMAIN log = 1 .. Len(log)
         /\ DOMAIN log' = 1 .. Len(log) + 1
         /\ \A i \in DOMAIN log : log'[i] = log[i]
         /\ log'[Len(log) + 1] = e
         /\ \A r : LinesOf(r)' = IF r = e.round THEN LinesOf(r) \cup {Len(log) + 1}
                                               ELSE LinesOf(r)
<1> DEFINE n == Len(log)
<1>1. /\ n \in Nat /\ DOMAIN log = 1 .. n
      /\ log' \in Seq(Lines) /\ DOMAIN log' = 1 .. n + 1
      /\ \A i \in 1 .. n : log'[i] = log[i]
      /\ log'[n + 1] = e
  BY AppendProperties, LenProperties
<1> HIDE DEF n
<1>2. \A m : m \in 1 .. n + 1 <=> m \in 1 .. n \/ m = n + 1
  BY <1>1
<1>3. n + 1 \notin 1 .. n
  BY <1>1
<1>4. ASSUME NEW r
      PROVE  LinesOf(r)' = IF r = e.round THEN LinesOf(r) \cup {n + 1} ELSE LinesOf(r)
  <2>1. LinesOf(r)' = {i \in DOMAIN log' : log'[i].round = r}
    BY DEF LinesOf
  <2>2. LinesOf(r) = {i \in 1 .. n : log[i].round = r}
    BY <1>1 DEF LinesOf
  <2>3. \A i : i \in LinesOf(r)' <=> i \in LinesOf(r) \/ (i = n + 1 /\ e.round = r)
    BY <1>1, <1>2, <2>1, <2>2
  <2>4. QED
    BY <2>3
<1>5. QED
  BY <1>1, <1>4 DEF n

LEMMA LinesFinite ==
  ASSUME log \in Seq(Lines), NEW r
  PROVE  /\ LinesOf(r) \subseteq 1 .. Len(log) /\ DOMAIN log = 1 .. Len(log)
         /\ Len(log) \in Nat
         /\ IsFiniteSet(LinesOf(r))
         /\ Cardinality(LinesOf(r)) \in Nat
         /\ \A i \in LinesOf(r) : i \in Nat /\ log[i] \in Lines /\ log[i].percent \in 0 .. Full
<1>1. DOMAIN log = 1 .. Len(log) /\ Len(log) \in Nat
      /\ \A i \in 1 .. Len(log) : log[i] \in Lines
  BY LenProperties, ElementOfSeq
<1>2. LinesOf(r) \subseteq 1 .. Len(log)
  BY <1>1 DEF LinesOf
<1>3. IsFiniteSet(1 .. Len(log))
  BY <1>1, FS_Interval
<1>4. IsFiniteSet(LinesOf(r))
  BY <1>2, <1>3, FS_Subset
<1>5. \A i \in LinesOf(r) : i \in Nat /\ log[i] \in Lines /\ log[i].percent \in 0 .. Full
  BY <1>1, <1>2 DEF Lines
<1>6. QED
  BY <1>1, <1>2, <1>4, <1>5, FS_CardinalityType

\* A line of a round is one more, and the last of them.
LEMMA CountedLine ==
  ASSUME log \in Seq(Lines), NEW e \in Lines, log' = Append(log, e)
  PROVE  /\ Cardinality(LinesOf(e.round))' = Cardinality(LinesOf(e.round)) + 1
         /\ \A r : r # e.round => Cardinality(LinesOf(r))' = Cardinality(LinesOf(r))
<1>1. \A r : LinesOf(r)' = IF r = e.round THEN LinesOf(r) \cup {Len(log) + 1} ELSE LinesOf(r)
  BY AnotherLine
<1>2. IsFiniteSet(LinesOf(e.round)) /\ Len(log) + 1 \notin LinesOf(e.round)
  BY LinesFinite
<1>3. LinesOf(e.round)' = LinesOf(e.round) \cup {Len(log) + 1}
  BY <1>1
<1>4. Cardinality(LinesOf(e.round) \cup {Len(log) + 1}) = Cardinality(LinesOf(e.round)) + 1
  BY <1>2, FS_AddElement
<1>5. QED
  BY <1>1, <1>3, <1>4

InOrder(r) == \A i, j \in LinesOf(r) : i < j => log[i].percent <= log[j].percent

\* A line that says no less than the others of its round keeps them in order.
LEMMA LineInOrder ==
  ASSUME log \in Seq(Lines), NEW e \in Lines, log' = Append(log, e), NEW r, InOrder(r),
         r = e.round => \A i \in LinesOf(r) : log[i].percent <= e.percent
  PROVE  InOrder(r)'
<1>1. /\ LinesOf(r)' = IF r = e.round THEN LinesOf(r) \cup {Len(log) + 1} ELSE LinesOf(r)
      /\ Len(log) \in Nat /\ DOMAIN log = 1 .. Len(log)
      /\ \A i \in 1 .. Len(log) : log'[i] = log[i]
      /\ log'[Len(log) + 1] = e
  BY AnotherLine
<1>2. LinesOf(r) \subseteq 1 .. Len(log)
  BY LinesFinite
<1>3. ASSUME NEW i \in LinesOf(r)', NEW j \in LinesOf(r)', i < j
      PROVE  log'[i].percent <= log'[j].percent
  <2>1. (i \in LinesOf(r) \/ i = Len(log) + 1) /\ (j \in LinesOf(r) \/ j = Len(log) + 1)
    BY <1>1
  <2>2. i \in LinesOf(r)
    BY <1>1, <1>2, <1>3, <2>1
  <2>3. CASE j \in LinesOf(r)
    BY <1>1, <1>2, <1>3, <2>2, <2>3 DEF InOrder
  <2>4. CASE j = Len(log) + 1 /\ j \notin LinesOf(r)
    BY <1>1, <1>2, <2>2, <2>4
  <2>5. QED
    BY <2>1, <2>3, <2>4
<1>4. QED
  BY <1>3 DEF InOrder
-----------------------------------------------------------------------------
(* Every step preserves the invariant *)

LEMMA TotalsFacts ==
  ASSUME TypeOK
  PROVE  /\ Len(Totals) \in Nat /\ Len(Totals) <= MaxRounds
         /\ DOMAIN Totals = 1 .. Len(Totals)
         /\ \A r \in DOMAIN Totals : /\ r \in Nat \ {0}
                                     /\ Totals[r] \in Nat \ {0}
                                     /\ myReportFrequency(Totals[r]) \in Nat \ {0}
<1>1. Totals \in Seq(Nat \ {0}) /\ Len(Totals) <= MaxRounds
  BY DEF TypeOK
<1>2. DOMAIN Totals = 1 .. Len(Totals) /\ Len(Totals) \in Nat
      /\ \A r \in 1 .. Len(Totals) : Totals[r] \in Nat \ {0}
  BY <1>1, LenProperties, ElementOfSeq
<1>3. \A t : myReportFrequency(t) \in Nat \ {0}
  BY DEF myReportFrequency
<1>4. QED
  BY <1>1, <1>2, <1>3

\* What holds of a round at work.
LEMMA AtWork ==
  ASSUME IInv, phase = "working"
  PROVE  /\ round \in DOMAIN Totals /\ round \in Nat /\ round \in 1 .. Len(Totals)
         /\ Totals[round] \in Nat \ {0}
         /\ remained \in Nat /\ myRemainedSteps \in Nat
         /\ remained <= myRemainedSteps /\ myRemainedSteps <= Totals[round]
         /\ myReportInterval \in Nat
         /\ myReportInterval = Totals[round] \div myReportFrequency(Totals[round])
         /\ log \in Seq(Lines)
         /\ Cardinality(LinesOf(round)) \in Nat
         /\ Cardinality(LinesOf(round)) * (myReportInterval + 1)
               <= Totals[round] - myRemainedSteps
         /\ \A i \in LinesOf(round) : log[i].percent <= percent(Totals[round], myRemainedSteps)
<1>1. round \in DOMAIN Totals /\ remained <= myRemainedSteps
      /\ myRemainedSteps <= Totals[round]
  BY DEF IInv, CountInv
<1>2. /\ round \in Nat /\ round \in 1 .. Len(Totals) /\ Totals[round] \in Nat \ {0}
      /\ myReportFrequency(Totals[round]) \in Nat \ {0}
  BY <1>1, TotalsFacts DEF IInv
<1>3. myReportInterval = Totals[round] \div myReportFrequency(Totals[round])
  BY DEF myReportInterval, myTotalSteps
<1>4. myReportInterval \in Nat
  BY <1>2, <1>3, DivFacts
<1>5. log \in Seq(Lines) /\ remained \in Nat /\ myRemainedSteps \in Nat
  BY DEF IInv, TypeOK
<1>6. Cardinality(LinesOf(round)) \in Nat
  BY <1>5, LinesFinite
<1>7. /\ Cardinality(LinesOf(round)) * (myReportInterval + 1) <= Totals[round] - myRemainedSteps
      /\ \A i \in LinesOf(round) : log[i].percent <= percent(Totals[round], myRemainedSteps)
  BY <1>1 DEF IInv, LinesInv
<1>8. QED
  BY <1>1, <1>2, <1>3, <1>4, <1>5, <1>6, <1>7

\* What the report does.
LEMMA RemainOutcome ==
  ASSUME IInv, phase = "working", NEW s \in Nat, s <= remained, remain(s)
  PROVE  LET e == [round |-> round, percent |-> percent(Totals[round], s)]
         IN  /\ e \in Lines
             /\ \/ UNCHANGED <<myRemainedSteps, log>>
                \/ /\ myRemainedSteps - s >= myReportInterval + 1
                   /\ myRemainedSteps' = s
                   /\ log' = log \/ log' = Append(log, e)
<1>1. /\ round \in Nat /\ Totals[round] \in Nat \ {0} /\ remained \in Nat
      /\ myRemainedSteps \in Nat /\ s <= Totals[round] /\ myReportInterval \in Nat
  BY AtWork
<1>2. percent(Totals[round], s) \in 0 .. Full
  BY <1>1, PercentFacts
<1>3. [round |-> round, percent |-> percent(Totals[round], s)] \in Lines
  BY <1>1, <1>2 DEF Lines
<1>4. CASE myRemainedSteps - s > myReportInterval
  <2>1. myRemainedSteps - s >= myReportInterval + 1
    BY <1>1, <1>4
  <2>2. /\ myRemainedSteps' = s
        /\ log' = IF myTotalSteps < MinSteps THEN log
             ELSE Append(log, [round |-> round, percent |-> percent(myTotalSteps, s)])
    BY <1>4 DEF remain, Remembered
  <2>3. log' = log
        \/ log' = Append(log, [round |-> round, percent |-> percent(Totals[round], s)])
    BY <2>2 DEF myTotalSteps
  <2>4. QED
    BY <1>3, <2>1, <2>2, <2>3
<1>5. CASE ~(myRemainedSteps - s > myReportInterval)
  BY <1>3, <1>5 DEF remain
<1>6. QED
  BY <1>4, <1>5

\* A report leaves the lines of its round as many as intervals were done.
LEMMA HandBackKeeps ==
  ASSUME IInv, HandBack
  PROVE  IInv'
<1>1. /\ phase = "working"
      /\ UNCHANGED <<Totals, round, phase, monitor, progress, last_line_number>>
  BY DEF HandBack, monitorVars
<1>2. PICK batch \in 1 .. BatchSize :
        /\ batch <= remained
        /\ remained' = remained - batch
        /\ remain(remained - batch)
  BY DEF HandBack
<1> DEFINE s == remained - batch
           t == Totals[round]
           e == [round |-> round, percent |-> percent(t, s)]
<1>3. /\ round \in DOMAIN Totals /\ round \in Nat /\ t \in Nat \ {0}
      /\ remained \in Nat /\ myRemainedSteps \in Nat
      /\ remained <= myRemainedSteps /\ myRemainedSteps <= t
      /\ myReportInterval \in Nat
      /\ log \in Seq(Lines)
      /\ Cardinality(LinesOf(round)) \in Nat
      /\ Cardinality(LinesOf(round)) * (myReportInterval + 1) <= t - myRemainedSteps
      /\ \A i \in LinesOf(round) : log[i].percent <= percent(t, myRemainedSteps)
  BY <1>1, AtWork
<1>4. s \in Nat /\ s <= remained /\ s <= myRemainedSteps /\ s <= t /\ remained' = s
  BY <1>2, <1>3
<1>5. /\ e \in Lines
      /\ \/ UNCHANGED <<myRemainedSteps, log>>
         \/ /\ myRemainedSteps - s >= myReportInterval + 1
            /\ myRemainedSteps' = s
            /\ log' = log \/ log' = Append(log, e)
  BY <1>1, <1>2, <1>4, RemainOutcome
<1>6. t' = t /\ myReportInterval' = myReportInterval
  BY <1>1 DEF myReportInterval, myTotalSteps
<1>7. e.round = round /\ e.percent = percent(t, s)
  OBVIOUS
<1>8. /\ percent(t, s) \in 0 .. Full /\ percent(t, myRemainedSteps) \in 0 .. Full
      /\ percent(t, myRemainedSteps) <= percent(t, s)
      /\ percent(t, s) >= Full => 2 * Full * s <= t
  BY <1>3, <1>4, PercentFacts, PercentFalls
<1> HIDE DEF s, t, e
<1>9. TypeOK'
  <2>1. log' \in Seq(Lines)
    BY <1>3, <1>5, AnotherLine
  <2>2. myRemainedSteps' \in Nat /\ remained' \in Nat
    BY <1>3, <1>4, <1>5
  <2>3. QED
    BY <1>1, <2>1, <2>2 DEF IInv, TypeOK
<1>10. CountInv'
  <2>1. remained' <= myRemainedSteps' /\ myRemainedSteps' <= t
    BY <1>3, <1>4, <1>5
  <2>2. QED
    BY <1>1, <1>3, <2>1 DEF CountInv, t
<1>11. ASSUME NEW i \in LinesOf(round) PROVE log[i].percent <= percent(t, s)
  <2>1. log[i].percent \in 0 .. Full
    BY <1>3, LinesFinite
  <2>2. log[i].percent <= percent(t, myRemainedSteps)
    BY <1>3
  <2>3. QED
    BY <1>8, <2>1, <2>2
<1>12. ASSUME NEW r \in DOMAIN Totals
       PROVE  /\ r > round => LinesOf(r)' = {}
              /\ InOrder(r)'
              /\ IF r = round
                   THEN /\ Cardinality(LinesOf(r))' * (myReportInterval + 1)
                              <= t - myRemainedSteps'
                        /\ \A i \in LinesOf(r)' : log'[i].percent <= percent(t, myRemainedSteps')
                   ELSE Cardinality(LinesOf(r))' <= myReportFrequency(Totals[r])
  <2>1. /\ r > round => LinesOf(r) = {}
        /\ InOrder(r)
        /\ r # round => Cardinality(LinesOf(r)) <= myReportFrequency(Totals[r])
    BY <1>1 DEF IInv, LinesInv, InOrder
  <2>2. ASSUME log' = log
        PROVE  LinesOf(r)' = LinesOf(r) /\ InOrder(r)' = InOrder(r)
    BY <2>2 DEF LinesOf, InOrder
  <2>3. CASE log' = log /\ myRemainedSteps' = myRemainedSteps
    BY <1>3, <2>1, <2>2, <2>3
  <2>4. CASE log' = log /\ myRemainedSteps' = s
    <3>1. Cardinality(LinesOf(round)) * (myReportInterval + 1) \in Nat
      BY <1>3
    <3>2. Cardinality(LinesOf(round)) * (myReportInterval + 1) <= t - s
      BY <1>3, <1>4, <3>1
    <3>3. \A i \in LinesOf(round) : log[i].percent <= percent(t, s)
      BY <1>11
    <3>4. QED
      BY <2>1, <2>2, <2>4, <3>2, <3>3
  <2>5. CASE /\ log' = Append(log, e) /\ myRemainedSteps' = s
             /\ myRemainedSteps - s >= myReportInterval + 1
    <3>1. \A i \in LinesOf(round) : log[i].percent <= e.percent
      BY <1>7, <1>11
    <3>2. InOrder(r)'
      BY <1>3, <1>5, <1>7, <2>1, <2>5, <3>1, LineInOrder
    <3>3. /\ LinesOf(r)' = IF r = round THEN LinesOf(r) \cup {Len(log) + 1} ELSE LinesOf(r)
          /\ Len(log) \in Nat /\ DOMAIN log = 1 .. Len(log)
          /\ \A i \in DOMAIN log : log'[i] = log[i]
          /\ log'[Len(log) + 1] = e
      BY <1>3, <1>5, <1>7, <2>5, AnotherLine
    <3>4. r > round => LinesOf(r)' = {}
      BY <1>3, <2>1, <3>3
    <3>5. CASE r = round
      <4>1. Cardinality(LinesOf(r))' = Cardinality(LinesOf(r)) + 1
        BY <1>3, <1>5, <1>7, <2>5, <3>5, CountedLine
      <4>2. (Cardinality(LinesOf(r)) + 1) * (myReportInterval + 1) <= t - s
        BY <1>3, <1>4, <2>5, <3>5, OneMoreLine
      <4>3. \A i \in LinesOf(r)' : log'[i].percent <= percent(t, s)
        <5>1. LinesOf(r) \subseteq DOMAIN log
          BY DEF LinesOf
        <5>2. percent(t, s) <= percent(t, s)
          BY <1>8
        <5>3. QED
          BY <1>7, <3>1, <3>3, <3>5, <5>1, <5>2
      <4>4. QED
        BY <2>5, <3>2, <3>4, <3>5, <4>1, <4>2, <4>3
    <3>6. CASE r # round
      <4>1. Cardinality(LinesOf(r))' = Cardinality(LinesOf(r))
        BY <3>3, <3>6
      <4>2. QED
        BY <2>1, <3>2, <3>4, <3>6, <4>1
    <3>7. QED
      BY <3>5, <3>6
  <2>6. QED
    BY <1>5, <2>3, <2>4, <2>5
<1>13. LinesInv'
  BY <1>1, <1>6, <1>12 DEF LinesInv, InOrder, t
<1>14. FirstInv'
  <2> SUFFICES ASSUME MaxRounds > 0
               PROVE  /\ monitor[1] = "closed" => progress[1] >= Full
                      /\ round = 1 =>
                           /\ \A i \in DOMAIN log' : log'[i].percent >= Full => 2 * Full * s <= Totals[1]
                           /\ progress[1] >= Full => 2 * Full * s <= Totals[1]
    <3>1. round # 0
      BY <1>3, TotalsFacts DEF IInv
    <3>2. QED
      BY <1>1, <1>4, <3>1 DEF FirstInv
  <2>1. monitor[1] = "closed" => progress[1] >= Full
    BY DEF IInv, FirstInv
  <2>2. ASSUME round = 1
        PROVE  /\ \A i \in DOMAIN log' : log'[i].percent >= Full => 2 * Full * s <= t
               /\ progress[1] >= Full => 2 * Full * s <= t
    <3>1. /\ \A i \in DOMAIN log : log[i].percent >= Full => 2 * Full * remained <= t
          /\ progress[1] >= Full => 2 * Full * remained <= t
      BY <1>1, <2>2 DEF IInv, FirstInv, t
    <3>2. 2 * Full * remained <= t => 2 * Full * s <= t
      BY <1>3, <1>4, ScaledDown
    <3>3. \A i \in DOMAIN log' : log'[i].percent >= Full => 2 * Full * s <= t
      <4>1. CASE log' = log
        BY <3>1, <3>2, <4>1
      <4>2. CASE log' = Append(log, e)
        <5>1. /\ Len(log) \in Nat /\ DOMAIN log = 1 .. Len(log)
              /\ DOMAIN log' = 1 .. Len(log) + 1
              /\ \A i \in DOMAIN log : log'[i] = log[i]
              /\ log'[Len(log) + 1] = e
          BY <1>3, <1>5, <4>2, AnotherLine
        <5>2. \A i \in DOMAIN log' : i \in DOMAIN log \/ i = Len(log) + 1
          BY <5>1
        <5>3. QED
          BY <1>7, <1>8, <3>1, <3>2, <5>1, <5>2
      <4>3. QED
        BY <1>5, <4>1, <4>2
    <3>4. QED
      BY <3>1, <3>2, <3>3
  <2>3. QED
    BY <2>1, <2>2 DEF t
<1>15. QED
  BY <1>9, <1>10, <1>13, <1>14 DEF IInv

\* However a round ends, the lines that were written leave room for one more.
LEMMA RoundOver ==
  ASSUME IInv, phase = "working", phase' \in {"ready", "caught", "failed"},
         UNCHANGED <<Totals, round, remained, myRemainedSteps, monitorVars>>,
         log' = log \/ log' = finish
  PROVE  IInv'
<1> DEFINE e == [round |-> round, percent |-> Full]
           t == Totals[round]
<1>1. UNCHANGED <<Totals, round, remained, myRemainedSteps, monitor, progress,
                  last_line_number>>
  BY DEF monitorVars
<1>2. /\ round \in DOMAIN Totals /\ round \in Nat /\ t \in Nat \ {0}
      /\ myRemainedSteps \in Nat /\ log \in Seq(Lines)
      /\ Cardinality(LinesOf(round)) \in Nat
      /\ Cardinality(LinesOf(round)) * (myReportInterval + 1) <= t - myRemainedSteps
      /\ myReportInterval = t \div myReportFrequency(t)
      /\ myReportFrequency(t) \in Nat \ {0}
  BY AtWork, TotalsFacts DEF IInv
<1>3. e \in Lines /\ e.round = round /\ e.percent = Full /\ (log' = log \/ log' = Append(log, e))
  BY <1>2 DEF Lines, finish
<1>4. Cardinality(LinesOf(round)) + 1 <= myReportFrequency(t)
  BY <1>2, LinesWithinFrequency
<1> HIDE DEF e, t
<1>5. TypeOK'
  <2>1. log' \in Seq(Lines)
    BY <1>2, <1>3, AnotherLine
  <2>2. QED
    BY <1>1, <2>1 DEF IInv, TypeOK
<1>6. CountInv'
  BY DEF CountInv
<1>7. ASSUME NEW r \in DOMAIN Totals
      PROVE  /\ r > round => LinesOf(r)' = {}
             /\ InOrder(r)'
             /\ Cardinality(LinesOf(r))' <= myReportFrequency(Totals[r])
  <2>1. /\ r > round => LinesOf(r) = {}
        /\ InOrder(r)
        /\ r # round => Cardinality(LinesOf(r)) <= myReportFrequency(Totals[r])
    BY DEF IInv, LinesInv, InOrder
  <2>2. Cardinality(LinesOf(r)) <= myReportFrequency(Totals[r])
    BY <1>2, <1>4, <2>1 DEF t
  <2>3. CASE log' = log
    <3>1. LinesOf(r)' = LinesOf(r) /\ InOrder(r)' = InOrder(r)
      BY <2>3 DEF LinesOf, InOrder
    <3>2. QED
      BY <2>1, <2>2, <3>1
  <2>4. CASE log' = Append(log, e)
    <3>1. \A i \in LinesOf(round) : log[i].percent <= e.percent
      BY <1>2, <1>3, LinesFinite
    <3>2. InOrder(r)'
      BY <1>2, <1>3, <2>1, <2>4, <3>1, LineInOrder
    <3>3. LinesOf(r)' = IF r = round THEN LinesOf(r) \cup {Len(log) + 1} ELSE LinesOf(r)
      BY <1>2, <1>3, <2>4, AnotherLine
    <3>4. r > round => LinesOf(r)' = {}
      BY <1>2, <2>1, <3>3
    <3>5. Cardinality(LinesOf(r))' = IF r = round THEN Cardinality(LinesOf(r)) + 1
                                                  ELSE Cardinality(LinesOf(r))
      BY <1>2, <1>3, <2>4, CountedLine
    <3>6. QED
      BY <1>4, <2>2, <3>2, <3>4, <3>5 DEF t
  <2>5. QED
    BY <1>3, <2>3, <2>4
<1>8. LinesInv'
  BY <1>1, <1>7 DEF LinesInv, InOrder
<1>9. FirstInv'
  <2>1. round # 0
    BY <1>2, TotalsFacts DEF IInv
  <2>2. QED
    BY <1>1, <2>1 DEF IInv, FirstInv
<1>10. QED
  BY <1>5, <1>6, <1>8, <1>9 DEF IInv

\* A round begins without lines.
LEMMA StartRoundKeeps ==
  ASSUME IInv, StartRound
  PROVE  IInv'
<1>1. /\ phase = "ready" /\ round < Len(Totals) /\ round' = round + 1
      /\ phase' = "working"
      /\ remained' = Totals[round + 1] /\ myRemainedSteps' = Totals[round + 1]
      /\ UNCHANGED <<Totals, log, progress, last_line_number>>
  BY DEF StartRound
<1>2. PICK m \in {"none", "polling"} : monitor' = [monitor EXCEPT ![round + 1] = m]
  BY DEF StartRound
<1>3. /\ round \in Nat /\ round + 1 \in DOMAIN Totals /\ round + 1 \in 0 .. Len(Totals)
      /\ Totals[round + 1] \in Nat \ {0}
      /\ log \in Seq(Lines)
      /\ round + 1 \in Monitors
  <2>1. /\ round \in 0 .. Len(Totals) /\ log \in Seq(Lines)
        /\ Len(Totals) \in Nat /\ Len(Totals) <= MaxRounds /\ MaxRounds \in Nat
        /\ DOMAIN Totals = 1 .. Len(Totals)
        /\ \A r \in DOMAIN Totals : Totals[r] \in Nat \ {0}
    BY TotalsFacts DEF IInv, TypeOK
  <2>2. round \in Nat /\ round + 1 \in 1 .. Len(Totals)
    BY <1>1, <2>1
  <2>3. round + 1 \in Monitors /\ round + 1 \in 0 .. Len(Totals)
    BY <2>1, <2>2 DEF Monitors
  <2>4. QED
    BY <2>1, <2>2, <2>3
<1>4. TypeOK'
  <2>1. monitor' \in [Monitors -> {"none", "polling", "closed", "quit"}]
    BY <1>2, <1>3 DEF IInv, TypeOK
  <2>2. QED
    BY <1>1, <1>3, <2>1 DEF IInv, TypeOK
<1>5. CountInv'
  BY <1>1, <1>3 DEF CountInv
<1>6. \A r : LinesOf(r)' = LinesOf(r)
  BY <1>1 DEF LinesOf
<1>7. ASSUME NEW r \in DOMAIN Totals
      PROVE  /\ r > round + 1 => LinesOf(r) = {}
             /\ InOrder(r)
             /\ IF r = round + 1
                  THEN LinesOf(r) = {}
                  ELSE Cardinality(LinesOf(r)) <= myReportFrequency(Totals[r])
  <2>1. r \in Nat
    BY TotalsFacts DEF IInv
  <2>2. /\ r > round => LinesOf(r) = {}
        /\ InOrder(r)
        /\ Cardinality(LinesOf(r)) <= myReportFrequency(Totals[r])
    BY <1>1 DEF IInv, LinesInv, InOrder
  <2>3. QED
    BY <1>3, <2>1, <2>2
<1>8. LinesInv'
  <2>1. Cardinality({}) = 0
    BY FS_EmptySet
  <2>2. myReportInterval' \in Nat
    BY <1>1, <1>3, DivFacts, TotalsFacts DEF IInv, myReportInterval, myTotalSteps
  <2> DEFINE t == Totals[round + 1]
             k == myReportInterval' + 1
  <2>3. 0 * k <= t - t
    BY <1>3, <2>2
  <2>4. ASSUME NEW r \in DOMAIN Totals, r = round + 1
        PROVE  /\ Cardinality(LinesOf(r)) * k <= Totals[r] - t
               /\ \A i \in LinesOf(r) : log[i].percent <= percent(Totals[r], t)
    <3>1. Cardinality(LinesOf(r)) = 0 /\ Totals[r] = t
      BY <1>7, <2>1, <2>4
    <3>2. QED
      BY <1>7, <2>3, <2>4, <3>1
  <2>5. \A r \in DOMAIN Totals :
          /\ r > round + 1 => LinesOf(r) = {}
          /\ \A i, j \in LinesOf(r) : i < j => log[i].percent <= log[j].percent
          /\ IF r = round + 1
               THEN /\ Cardinality(LinesOf(r)) * k <= Totals[r] - t
                    /\ \A i \in LinesOf(r) : log[i].percent <= percent(Totals[r], t)
               ELSE Cardinality(LinesOf(r)) <= myReportFrequency(Totals[r])
    BY <1>7, <2>4 DEF InOrder
  <2>6. QED
    BY <1>1, <1>6, <2>5 DEF LinesInv
<1>9. FirstInv'
  <2> SUFFICES ASSUME MaxRounds > 0
               PROVE  /\ round' = 0 => log' = <<>> /\ monitor'[1] = "none" /\ progress'[1] = 0
                      /\ monitor'[1] = "closed" => progress'[1] >= Full
                      /\ round' = 1 /\ phase' = "working" =>
                           /\ \A i \in DOMAIN log' : log'[i].percent >= Full =>
                                 2 * Full * remained' <= Totals'[1]
                           /\ progress'[1] >= Full => 2 * Full * remained' <= Totals'[1]
    BY DEF FirstInv
  <2>1. round' # 0
    BY <1>1, <1>3
  <2>2. monitor'[1] = "closed" => monitor[1] = "closed"
    BY <1>2, <1>3 DEF IInv, TypeOK, Monitors
  <2>3. monitor'[1] = "closed" => progress'[1] >= Full
    BY <1>1, <2>2 DEF IInv, FirstInv
  <2>4. ASSUME round' = 1 PROVE DOMAIN log' = {} /\ ~(progress'[1] >= Full)
    <3>1. log = <<>> /\ progress[1] = 0
      BY <1>1, <1>3, <2>4 DEF IInv, FirstInv
    <3>2. QED
      BY <1>1, <3>1
  <2>5. QED
    BY <2>1, <2>3, <2>4
<1>10. QED
  BY <1>4, <1>5, <1>8, <1>9 DEF IInv

\* The log is removed after the last round, the lines were what they were.
LEMMA FinalizeKeeps ==
  ASSUME IInv, Finalize
  PROVE  IInv'
<1>1. /\ phase = "ready" /\ phase' = "removed"
      /\ UNCHANGED <<Totals, round, remained, myRemainedSteps, log, monitor, progress,
                     last_line_number>>
  BY DEF Finalize, monitorVars
<1>2. TypeOK' /\ CountInv'
  BY <1>1 DEF IInv, TypeOK, CountInv
<1>3. \A r : LinesOf(r)' = LinesOf(r)
  BY <1>1 DEF LinesOf
<1>4. LinesInv'
  BY <1>1, <1>3 DEF IInv, LinesInv
<1>5. FirstInv'
  BY <1>1 DEF IInv, FirstInv
<1>6. QED
  BY <1>2, <1>4, <1>5 DEF IInv

\* What a monitor shows after new lines is what it showed, or one of the lines that
\* does not go back.
LEMMA Parsed ==
  ASSUME NEW new \in Seq(Lines), NEW shown \in 0 .. Full
  PROVE  LET p == parse(new, shown)
         IN  /\ p \in 0 .. Full /\ p >= shown
             /\ p = shown \/ \E i \in DOMAIN new : p = new[i].percent
<1> DEFINE forward == {i \in DOMAIN new : new[i].percent >= shown}
<1>1. DOMAIN new = 1 .. Len(new) /\ Len(new) \in Nat
      /\ \A i \in 1 .. Len(new) : new[i] \in Lines
  BY LenProperties, ElementOfSeq
<1>2. CASE forward = {}
  BY <1>2 DEF parse
<1>3. CASE forward # {}
  <2>1. Max(forward) \in forward
    BY <1>1, <1>3, LastIndex
  <2>2. parse(new, shown) = new[Max(forward)].percent
    BY <1>3 DEF parse
  <2>3. Max(forward) \in DOMAIN new /\ new[Max(forward)].percent >= shown
    BY <2>1
  <2>4. new[Max(forward)].percent \in 0 .. Full
    BY <1>1, <2>3 DEF Lines
  <2>5. QED
    BY <2>2, <2>3, <2>4
<1>4. QED
  BY <1>2, <1>3

\* The new lines are lines of the log.
LEMMA NewLines ==
  ASSUME TypeOK, NEW m \in Monitors
  PROVE  LET new == SubSeq(log, last_line_number[m] + 1, Len(log))
         IN  /\ new \in Seq(Lines)
             /\ \A i \in DOMAIN new : \E k \in DOMAIN log : new[i] = log[k]
<1> DEFINE a == last_line_number[m] + 1
           n == Len(log)
           new == SubSeq(log, a, n)
<1>1. /\ a \in Nat \ {0} /\ n \in Nat /\ log \in Seq(Lines) /\ DOMAIN log = 1 .. n
      /\ \A k \in 1 .. n : log[k] \in Lines
  BY LenProperties, ElementOfSeq DEF TypeOK
<1>2. \A k \in a .. n : log[k] \in Lines
  BY <1>1
<1> HIDE DEF a, n
<1>3. /\ SubSeq(log, a, n) \in Seq(Lines)
      /\ Len(SubSeq(log, a, n)) = IF a <= n THEN n - a + 1 ELSE 0
      /\ \A i \in 1 .. n - a + 1 : SubSeq(log, a, n)[i] = log[a + i - 1]
  BY <1>1, <1>2, SubSeqProperties
<1>4. ASSUME NEW i \in DOMAIN new
      PROVE  \E k \in DOMAIN log : new[i] = log[k]
  <2>1. DOMAIN new = 1 .. Len(new)
    BY <1>3, LenProperties
  <2>2. a <= n /\ i \in 1 .. n - a + 1
    BY <1>1, <1>3, <2>1
  <2>3. new[i] = log[a + i - 1] /\ a + i - 1 \in 1 .. n
    BY <1>1, <1>3, <2>2
  <2>4. QED
    BY <1>1, <2>3
<1>5. QED
  BY <1>3, <1>4 DEF a, n

LEMMA PollOutcome ==
  ASSUME TypeOK, NEW m \in Monitors, Poll(m)
  PROVE  \E p \in 0 .. Full :
           /\ p >= progress[m]
           /\ p = progress[m] \/ \E k \in DOMAIN log : p = log[k].percent
           /\ progress' = [progress EXCEPT ![m] = p]
           /\ monitor' = [monitor EXCEPT ![m] = IF p >= Full THEN "closed" ELSE monitor[m]]
<1> DEFINE new == SubSeq(log, last_line_number[m] + 1, Len(log))
           p == parse(new, progress[m])
<1>1. new \in Seq(Lines) /\ \A i \in DOMAIN new : \E k \in DOMAIN log : new[i] = log[k]
  BY NewLines
<1>2. /\ progress' = [progress EXCEPT ![m] = p]
      /\ monitor' = [monitor EXCEPT ![m] = IF p >= Full THEN "closed" ELSE monitor[m]]
  BY DEF Poll
<1>3. progress[m] \in 0 .. Full
  BY DEF TypeOK
<1> HIDE DEF new
<1>4. p \in 0 .. Full /\ p >= progress[m]
      /\ (p = progress[m] \/ \E i \in DOMAIN new : p = new[i].percent)
  BY <1>1, <1>3, Parsed
<1> HIDE DEF p
<1>5. p = progress[m] \/ \E k \in DOMAIN log : p = log[k].percent
  BY <1>1, <1>4
<1>6. QED
  BY <1>2, <1>4, <1>5

\* A monitor shows what the lines say.
LEMMA MonitorKeeps ==
  ASSUME IInv, NEW m \in Monitors, Poll(m) \/ PollRemoved(m) \/ close_application(m)
  PROVE  IInv'
<1>1. UNCHANGED <<Totals, round, phase, remained, myRemainedSteps, log>>
  BY DEF Poll, PollRemoved, close_application, programVars
<1>2. monitor[m] = "polling"
  BY DEF Poll, PollRemoved, close_application
<1>3. log \in Seq(Lines) /\ Len(log) \in Nat
  BY LenProperties DEF IInv, TypeOK
<1>4. last_line_number' \in [Monitors -> Nat]
  BY <1>3 DEF Poll, PollRemoved, close_application, IInv, TypeOK
<1>5. PICK p \in 0 .. Full, s \in {"polling", "closed", "quit"} :
        /\ p = progress[m] \/ \E k \in DOMAIN log : p = log[k].percent
        /\ progress' = [progress EXCEPT ![m] = p]
        /\ monitor' = [monitor EXCEPT ![m] = s]
        /\ s = "closed" => p >= Full
  <2>1. CASE Poll(m)
    <3>1. PICK p \in 0 .. Full :
            /\ p >= progress[m]
            /\ p = progress[m] \/ \E k \in DOMAIN log : p = log[k].percent
            /\ progress' = [progress EXCEPT ![m] = p]
            /\ monitor' = [monitor EXCEPT ![m] = IF p >= Full THEN "closed" ELSE monitor[m]]
      BY <2>1, PollOutcome DEF IInv
    <3>2. QED
      BY <1>2, <3>1
  <2>2. CASE PollRemoved(m) \/ close_application(m)
    <3>1. progress' = progress /\ progress[m] \in 0 .. Full
          /\ progress' = [progress EXCEPT ![m] = progress[m]]
      BY <2>2 DEF PollRemoved, close_application, IInv, TypeOK
    <3>2. \E s \in {"polling", "quit"} : monitor' = [monitor EXCEPT ![m] = s]
      BY <2>2 DEF PollRemoved, close_application
    <3>3. QED
      BY <3>1, <3>2
  <2>3. QED
    BY <2>1, <2>2
<1>6. TypeOK'
  BY <1>1, <1>4, <1>5 DEF IInv, TypeOK
<1>7. CountInv'
  BY <1>1 DEF IInv, CountInv
<1>8. LinesInv'
  <2>1. /\ \A r : LinesOf(r)' = LinesOf(r)
        /\ myReportInterval' = myReportInterval
    BY <1>1 DEF LinesOf, myReportInterval, myTotalSteps
  <2>2. QED
    BY <1>1, <2>1 DEF IInv, LinesInv
<1>9. FirstInv'
  <2>1. CASE m = 1
    <3>1. monitor'[1] = s /\ progress'[1] = p
      BY <1>5, <2>1 DEF IInv, TypeOK
    <3>2. round # 0 \/ ~(MaxRounds > 0)
      BY <1>2, <2>1 DEF IInv, FirstInv
    <3>3. MaxRounds > 0 /\ round = 1 /\ phase = "working" /\ p >= Full =>
             2 * Full * remained <= Totals[1]
      BY <1>5, <2>1 DEF IInv, FirstInv
    <3>4. QED
      BY <1>1, <1>5, <3>1, <3>2, <3>3 DEF IInv, FirstInv
  <2>2. CASE m # 1
    <3>1. MaxRounds > 0 => monitor'[1] = monitor[1] /\ progress'[1] = progress[1]
      BY <1>5, <2>2 DEF IInv, TypeOK, Monitors
    <3>2. QED
      BY <1>1, <3>1 DEF IInv, FirstInv
  <2>3. QED
    BY <2>1, <2>2
<1>10. QED
  BY <1>6, <1>7, <1>8, <1>9 DEF IInv

LEMMA InitIInv == Init => IInv
<1> SUFFICES ASSUME Init PROVE IInv
  OBVIOUS
<1>1. /\ Totals \in Workloads
      /\ round = 0 /\ phase = "ready" /\ remained = 0 /\ myRemainedSteps = 0
      /\ log = <<>>
      /\ monitor = [r \in Monitors |-> "none"]
      /\ progress = [r \in Monitors |-> 0]
      /\ last_line_number = [r \in Monitors |-> 0]
  BY DEF Init
<1>2. TypeOK
  <2>1. Len(Totals) \in Nat
    BY <1>1, LenProperties
  <2>2. log \in Seq(Lines)
    BY <1>1
  <2>3. QED
    BY <1>1, <2>1, <2>2 DEF TypeOK
<1>3. CountInv
  BY <1>1 DEF CountInv
<1>4. ASSUME NEW r PROVE LinesOf(r) = {} /\ Cardinality(LinesOf(r)) = 0
  <2>1. LinesOf(r) = {}
    BY <1>1 DEF LinesOf
  <2>2. Cardinality({}) = 0
    BY FS_EmptySet
  <2>3. QED
    BY <2>1, <2>2
<1>5. LinesInv
  BY <1>1, <1>2, <1>4, TotalsFacts DEF LinesInv
<1>6. FirstInv
  BY <1>1 DEF FirstInv, Monitors
<1>7. QED
  BY <1>2, <1>3, <1>5, <1>6 DEF IInv

LEMMA StutterKeeps ==
  ASSUME IInv, UNCHANGED vars
  PROVE  IInv'
<1>1. UNCHANGED <<Totals, round, phase, remained, myRemainedSteps, log, monitor, progress,
                  last_line_number>>
  BY DEF vars, programVars, monitorVars
<1>2. TypeOK' /\ CountInv' /\ FirstInv'
  BY <1>1 DEF IInv, TypeOK, CountInv, FirstInv
<1>3. /\ \A r : LinesOf(r)' = LinesOf(r)
      /\ myReportInterval' = myReportInterval
  BY <1>1 DEF LinesOf, myReportInterval, myTotalSteps
<1>4. LinesInv'
  BY <1>1, <1>3 DEF IInv, LinesInv
<1>5. QED
  BY <1>2, <1>4 DEF IInv

LEMMA StepIInv ==
  ASSUME IInv, [Next]_vars
  PROVE  IInv'
<1>1. ASSUME EndRound PROVE IInv'
  BY <1>1, RoundOver DEF EndRound
<1>2. ASSUME Fail PROVE IInv'
  BY <1>2, RoundOver DEF Fail
<1>3. QED
  BY <1>1, <1>2, HandBackKeeps, StartRoundKeeps, FinalizeKeeps, MonitorKeeps, StutterKeeps
  DEF Next, Program
-----------------------------------------------------------------------------
(* The theorems *)

\* The inductive invariant holds of every state.
THEOREM Invariance == Spec => []IInv
<1>1. QED
  BY InitIInv, StepIInv, PTL DEF Spec

\* Every variable keeps its type: a line and a bar show 0 to 100 percent.
THEOREM TypeCorrect == Spec => []TypeOK
<1>1. IInv => TypeOK
  BY DEF IInv
<1>2. QED
  BY <1>1, Invariance, PTL

\* However the pairs are handed back, a round writes no more lines than the frequency
\* says, in order.
THEOREM FewLines == Spec => []LinesAreFew
<1>1. ASSUME IInv, NEW r \in DOMAIN Totals
      PROVE  /\ Cardinality(LinesOf(r)) <= myReportFrequency(Totals[r])
             /\ \A i, j \in LinesOf(r) : i < j => log[i].percent <= log[j].percent
  <2>1. \A i, j \in LinesOf(r) : i < j => log[i].percent <= log[j].percent
    BY <1>1 DEF IInv, LinesInv
  <2>2. CASE r = round /\ phase = "working"
    <3>1. /\ Totals[r] \in Nat \ {0} /\ myRemainedSteps \in Nat
          /\ Cardinality(LinesOf(r)) \in Nat
          /\ Cardinality(LinesOf(r)) * (myReportInterval + 1) <= Totals[r] - myRemainedSteps
          /\ myReportInterval = Totals[r] \div myReportFrequency(Totals[r])
          /\ myReportFrequency(Totals[r]) \in Nat \ {0}
      BY <1>1, <2>2, AtWork, TotalsFacts DEF IInv
    <3>2. Cardinality(LinesOf(r)) + 1 <= myReportFrequency(Totals[r])
      BY <3>1, LinesWithinFrequency
    <3>3. QED
      BY <2>1, <3>1, <3>2
  <2>3. CASE ~(r = round /\ phase = "working")
    BY <1>1, <2>1, <2>3 DEF IInv, LinesInv
  <2>4. QED
    BY <2>2, <2>3
<1>2. IInv => LinesAreFew
  BY <1>1 DEF LinesAreFew
<1>3. QED
  BY <1>2, Invariance, PTL

\* The first monitor closes by itself only when less remains than a line can tell.
THEOREM ClosesWhenComplete == Spec => []ClosedWhenComplete
<1>1. ASSUME IInv, MaxRounds > 0, monitor[1] = "closed", ~(round > 1), phase = "working"
      PROVE  2 * Full * remained <= Totals[1]
  <2>1. round = 1
    BY <1>1, AtWork, TotalsFacts DEF IInv
  <2>2. progress[1] >= Full
    BY <1>1 DEF IInv, FirstInv
  <2>3. QED
    BY <1>1, <2>1, <2>2 DEF IInv, FirstInv
<1>2. IInv => ClosedWhenComplete
  BY <1>1 DEF ClosedWhenComplete
<1>3. QED
  BY <1>2, Invariance, PTL
=============================================================================
