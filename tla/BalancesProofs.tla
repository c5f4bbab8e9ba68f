--------------------------- MODULE BalancesProofs ---------------------------
(***************************************************************************)
(* Proofs about the computations over a person's days: the leave account,  *)
(* the contract, the flextime account and the payroll reports of absences, *)
(* for every length of weeks, months and years and any number of bookings, *)
(* forms, adjustments and reports.                                         *)
(***************************************************************************)
EXTENDS MCBalances, Sequences, FiniteSetTheorems, WellFoundedInduction, TLAPS

-----------------------------------------------------------------------------
(* Sums over finite sets. *)

First(s) == CHOOSE x \in s : TRUE
SumRule(g, s, f) == IF s = {} THEN 0 ELSE g[First(s)] + f[s \ {First(s)}]

\* f is the sums of g over the subsets of S.
Sums(g, S, f) == f = [s \in SUBSET S |-> SumRule(g, s, f)]
Sum(g, S) == (CHOOSE f : Sums(g, S, f))[S]

\* A set of naturals that is not empty has a least member.
LEMMA LeastNumber ==
  ASSUME NEW S \in SUBSET Nat, S # {}
  PROVE  \E m \in S : \A n \in S : m <= n
<1> DEFINE Less == {p \in Nat \X Nat : p[1] < p[2]}
<1>1. IsWellFoundedOn(Less, Nat)
  BY NatLessThanWellFounded DEF OpToRel
<1>2. PICK m \in S : \A y \in S : ~(<<y, m>> \in Less)
  BY <1>1, WFMin
<1>3. ASSUME NEW y \in S
      PROVE  m <= y
  <2>1. ~(y < m)
    BY <1>2
  <2>2. QED
    BY <2>1
<1>4. QED
  BY <1>3

LEMMA FewerLeft ==
  ASSUME NEW s, IsFiniteSet(s), NEW x \in s
  PROVE  /\ IsFiniteSet(s \ {x})
         /\ Cardinality(s) \in Nat \ {0}
         /\ Cardinality(s \ {x}) = Cardinality(s) - 1
<1>1. Cardinality(s) \in Nat /\ Cardinality(s) # 0
  BY FS_CardinalityType, FS_EmptySet
<1>2. QED
  BY <1>1, FS_RemoveElement

LEMMA FirstIsMember == \A s : s # {} => First(s) \in s
  BY DEF First

LEMMA SumExists ==
  ASSUME NEW S, IsFiniteSet(S), NEW g
  PROVE  \E f : Sums(g, S, f)
<1> DEFINE Small(n) == {s \in SUBSET S : Cardinality(s) <= n}
           Summed(n) == \E f : f = [s \in Small(n) |-> SumRule(g, s, f)]
           Never == {n \in Nat : ~Summed(n)}
<1>1. ASSUME NEW s \in SUBSET S
      PROVE  IsFiniteSet(s) /\ Cardinality(s) \in Nat
  BY FS_Subset, FS_CardinalityType
<1>2. Summed(0)
  <2>1. \A s \in Small(0) : s = {}
    BY <1>1, FS_EmptySet
  <2>2. [s \in Small(0) |-> 0] = [s \in Small(0) |-> SumRule(g, s, [t \in Small(0) |-> 0])]
    BY <2>1 DEF SumRule
  <2>3. QED
    BY <2>2
<1>3. ASSUME NEW n \in Nat, Summed(n)
      PROVE  Summed(n + 1)
  <2>1. PICK f : f = [s \in Small(n) |-> SumRule(g, s, f)]
    BY <1>3
  <2> DEFINE h == [s \in Small(n + 1) |-> SumRule(g, s, f)]
  <2>2. ASSUME NEW s \in Small(n + 1)
        PROVE  SumRule(g, s, f) = SumRule(g, s, h)
    <3>1. CASE s = {}
      BY <3>1 DEF SumRule
    <3>2. CASE s # {}
      <4> DEFINE t == s \ {First(s)}
      <4>1. t \in Small(n) /\ t \in Small(n + 1)
        BY <1>1, <3>2, FewerLeft, FirstIsMember
      <4>2. f[t] = SumRule(g, t, f)
        BY <2>1, <4>1
      <4>3. h[t] = SumRule(g, t, f)
        BY <4>1
      <4> HIDE DEF h, t
      <4>4. QED
        BY <3>2, <4>2, <4>3 DEF SumRule, t
    <3>3. QED
      BY <3>1, <3>2
  <2>3. h = [s \in Small(n + 1) |-> SumRule(g, s, h)]
    <3> HIDE DEF Small
    <3>1. QED
      BY <2>2
  <2>4. QED
    BY <2>3
<1>4. Never = {}
  <2>1. SUFFICES ASSUME Never # {} PROVE FALSE
    OBVIOUS
  <2> HIDE DEF Summed
  <2>2. PICK m \in Never : \A n \in Never : m <= n
    BY <2>1, LeastNumber
  <2>3. m # 0 /\ m \in Nat
    BY <1>2, <2>2
  <2>4. Summed(m - 1)
    BY <2>2, <2>3
  <2>5. Summed((m - 1) + 1)
    BY <1>3, <2>3, <2>4
  <2>6. QED
    BY <2>2, <2>3, <2>5
<1>5. Summed(Cardinality(S))
  BY <1>1, <1>4
<1>6. Small(Cardinality(S)) = SUBSET S
  BY <1>1, FS_Subset
<1>7. QED
  BY <1>5, <1>6 DEF Sums

\* Two functions that sum alike where they are applied agree on every subset.
LEMMA SumsAgree ==
  ASSUME NEW S, IsFiniteSet(S), NEW T, IsFiniteSet(T), NEW g, NEW h, NEW f, NEW k,
         Sums(g, S, f), Sums(h, T, k)
  PROVE  \A s \in (SUBSET S) \cap (SUBSET T) : (\A x \in s : g[x] = h[x]) => f[s] = k[s]
<1> DEFINE Alike(s) == s \in SUBSET T /\ \A x \in s : g[x] = h[x]
           Bad == {n \in Nat : \E s \in SUBSET S : Cardinality(s) = n /\ Alike(s) /\ f[s] # k[s]}
<1>1. SUFFICES ASSUME Bad # {} PROVE FALSE
  <2>1. SUFFICES ASSUME NEW s \in SUBSET S, Alike(s), f[s] # k[s] PROVE Bad # {}
    BY <1>1
  <2>2. Cardinality(s) \in Nat
    BY FS_Subset, FS_CardinalityType
  <2>3. QED
    BY <2>1, <2>2
<1>2. PICK m \in Bad : \A n \in Bad : m <= n
  <2> HIDE DEF Bad
  <2>1. Bad \in SUBSET Nat
    BY DEF Bad
  <2>2. QED
    BY <1>1, <2>1, LeastNumber
<1>3. PICK s \in SUBSET S : Cardinality(s) = m /\ Alike(s) /\ f[s] # k[s]
  BY <1>2
<1>4. f[s] = SumRule(g, s, f) /\ k[s] = SumRule(h, s, k)
  BY <1>3 DEF Sums
<1>5. s # {}
  BY <1>3, <1>4 DEF SumRule
<1> DEFINE t == s \ {First(s)}
<1>6. First(s) \in s /\ Cardinality(t) = m - 1 /\ m - 1 \in Nat
  <2>1. IsFiniteSet(s)
    BY FS_Subset
  <2>2. QED
    BY <1>2, <1>3, <1>5, <2>1, FewerLeft, FirstIsMember
<1>7. t \in SUBSET S /\ Alike(t)
  BY <1>3
<1>8. f[t] = k[t]
  BY <1>2, <1>6, <1>7
<1>9. g[First(s)] = h[First(s)]
  BY <1>3, <1>6
<1>10. QED
  <2> HIDE DEF t
  <2>1. QED
    BY <1>3, <1>4, <1>5, <1>8, <1>9 DEF SumRule, t

LEMMA SumIs ==
  ASSUME NEW S, IsFiniteSet(S), NEW g, NEW f, Sums(g, S, f)
  PROVE  \A s \in SUBSET S : f[s] = Sum(g, s)
<1> TAKE s \in SUBSET S
<1>1. IsFiniteSet(s)
  BY FS_Subset
<1>2. Sums(g, s, CHOOSE k : Sums(g, s, k))
  BY <1>1, SumExists
<1>3. QED
  BY <1>1, <1>2, SumsAgree DEF Sum

\* A sum is determined by what it adds up.
LEMMA SumSame ==
  ASSUME NEW S, IsFiniteSet(S), NEW g, NEW h, \A x \in S : g[x] = h[x]
  PROVE  Sum(g, S) = Sum(h, S)
<1>1. Sums(g, S, CHOOSE k : Sums(g, S, k)) /\ Sums(h, S, CHOOSE k : Sums(h, S, k))
  BY SumExists
<1>2. QED
  BY <1>1, SumsAgree DEF Sum

LEMMA SumStep ==
  ASSUME NEW S, IsFiniteSet(S), NEW g
  PROVE  Sum(g, S) = IF S = {} THEN 0 ELSE g[First(S)] + Sum(g, S \ {First(S)})
<1>1. PICK f : Sums(g, S, f)
  BY SumExists
<1>2. f[S] = SumRule(g, S, f)
  BY <1>1 DEF Sums
<1>3. f[S] = Sum(g, S) /\ f[S \ {First(S)}] = Sum(g, S \ {First(S)})
  BY <1>1, SumIs
<1>4. QED
  BY <1>2, <1>3 DEF SumRule

LEMMA SumOfNone == \A g : Sum(g, {}) = 0
  BY SumStep, FS_EmptySet

\* Whole figures have whole sums, and each may be taken out first.
LEMMA SumTake ==
  ASSUME NEW S, IsFiniteSet(S), NEW g, \A x \in S : g[x] \in Int
  PROVE  Sum(g, S) \in Int /\ \A x \in S : Sum(g, S) = g[x] + Sum(g, S \ {x})
<1> DEFINE Fine(s) == Sum(g, s) \in Int /\ \A x \in s : Sum(g, s) = g[x] + Sum(g, s \ {x})
           Bad == {n \in Nat : \E s \in SUBSET S : Cardinality(s) = n /\ ~Fine(s)}
<1>1. SUFFICES ASSUME Bad # {} PROVE FALSE
  <2>1. SUFFICES ASSUME ~Fine(S) PROVE Bad # {}
    BY <1>1
  <2>2. Cardinality(S) \in Nat
    BY FS_CardinalityType
  <2>3. QED
    BY <2>1, <2>2
<1>2. PICK m \in Bad : \A n \in Bad : m <= n
  <2> HIDE DEF Bad
  <2>1. Bad \in SUBSET Nat
    BY DEF Bad
  <2>2. QED
    BY <1>1, <2>1, LeastNumber
<1>3. PICK s \in SUBSET S : Cardinality(s) = m /\ ~Fine(s)
  BY <1>2
<1>4. IsFiniteSet(s)
  BY FS_Subset
<1>5. ASSUME NEW t \in SUBSET s, t # s
      PROVE  Fine(t)
  <2>1. Cardinality(t) \in Nat /\ Cardinality(t) < m
    BY <1>2, <1>3, <1>4, <1>5, FS_Subset, FS_CardinalityType
  <2>2. QED
    BY <1>2, <2>1
<1>6. s # {}
  <2>1. Sum(g, {}) = 0
    BY SumOfNone
  <2>2. Fine({})
    BY <2>1
  <2>3. QED
    BY <1>3, <2>2
<1> DEFINE y == First(s)
<1>7. y \in s /\ Sum(g, s) = g[y] + Sum(g, s \ {y})
  BY <1>4, <1>6, FirstIsMember, SumStep
<1> HIDE DEF y, Bad
<1>8. Sum(g, s) \in Int
  BY <1>5, <1>7
<1>9. ASSUME NEW x \in s
      PROVE  Sum(g, s) = g[x] + Sum(g, s \ {x})
  <2>1. CASE x = y
    BY <1>7, <2>1
  <2>2. CASE x # y
    <3>1. Fine(s \ {y}) /\ Fine(s \ {x})
      BY <1>5, <1>7
    <3> DEFINE u == (s \ {y}) \ {x}
    <3>2. x \in s \ {y} /\ y \in s \ {x} /\ u = (s \ {x}) \ {y}
      BY <1>7, <2>2
    <3>3. Sum(g, s \ {y}) = g[x] + Sum(g, u) /\ Sum(g, s \ {x}) = g[y] + Sum(g, u)
      BY <3>1, <3>2
    <3>4. Sum(g, u) \in Int /\ g[x] \in Int /\ g[y] \in Int
      BY <1>5, <1>7
    <3> HIDE DEF u, Fine
    <3>5. QED
      BY <1>7, <3>3, <3>4
  <2>3. QED
    BY <2>1, <2>2
<1>10. QED
  BY <1>3, <1>8, <1>9

LEMMA SumAdd ==
  ASSUME NEW S, IsFiniteSet(S), NEW x, x \notin S, NEW g, \A y \in S \cup {x} : g[y] \in Int
  PROVE  Sum(g, S \cup {x}) = g[x] + Sum(g, S) /\ Sum(g, S) \in Int
<1>1. IsFiniteSet(S \cup {x}) /\ (S \cup {x}) \ {x} = S
  BY FS_AddElement
<1>2. QED
  BY <1>1, SumTake

-----------------------------------------------------------------------------
(* The days of the years up to y, and what these give, as sums. *)

Cost(ranges) == [z \in Years |-> Cardinality(InYear(ranges, z))]
Given == [z \in Years |-> Entitlement(z)]

DrawnBy(ranges, y) == MapThenSumSet(LAMBDA z : Cardinality(InYear(ranges, z)), 1..y)
GivenBy(y) == MapThenSumSet(Entitlement, FirstYear..y)

LEMMA DrawnIsSum ==
  ASSUME NEW ranges, NEW y \in Int, 1..y \subseteq Years
  PROVE  DrawnBy(ranges, y) = Sum(Cost(ranges), 1..y)
<1> DEFINE S == 1..y
           Body(s, f) == IF s = {} THEN 0
                         ELSE Cardinality(InYear(ranges, CHOOSE x \in s : TRUE))
                                + f[s \ {CHOOSE x \in s : TRUE}]
           sum == CHOOSE f : f = [s \in SUBSET S |-> Body(s, f)]
<1>1. DrawnBy(ranges, y) = sum[S]
  BY DEF DrawnBy, MapThenSumSet, MapThenFoldSet
<1>2. IsFiniteSet(S)
  BY FS_Interval
<1>3. ASSUME NEW f, NEW s \in SUBSET S
      PROVE  Body(s, f) = SumRule(Cost(ranges), s, f)
  <2>1. s # {} => Cost(ranges)[First(s)] = Cardinality(InYear(ranges, First(s)))
    BY FirstIsMember DEF Cost
  <2>2. QED
    BY <2>1 DEF SumRule, First
<1>4. ASSUME NEW f
      PROVE  Sums(Cost(ranges), S, f) <=> f = [s \in SUBSET S |-> Body(s, f)]
  <2> HIDE DEF Body, S
  <2>1. QED
    BY <1>3 DEF Sums
<1>5. Sums(Cost(ranges), S, sum)
  <2>1. PICK f : Sums(Cost(ranges), S, f)
    BY <1>2, SumExists
  <2>2. f = [s \in SUBSET S |-> Body(s, f)]
    BY <1>4, <2>1
  <2> HIDE DEF Body, S
  <2>3. sum = [s \in SUBSET S |-> Body(s, sum)]
    BY <2>2
  <2>4. QED
    BY <1>4, <2>3
<1>6. QED
  <2> HIDE DEF sum, S
  <2>1. QED
    BY <1>1, <1>2, <1>5, SumIs DEF S

LEMMA GivenIsSum ==
  ASSUME NEW y \in Int, FirstYear..y \subseteq Years, IsFiniteSet(FirstYear..y)
  PROVE  GivenBy(y) = Sum(Given, FirstYear..y)
<1> DEFINE S == FirstYear..y
           Body(s, f) == IF s = {} THEN 0
                         ELSE Entitlement(CHOOSE x \in s : TRUE)
                                + f[s \ {CHOOSE x \in s : TRUE}]
           sum == CHOOSE f : f = [s \in SUBSET S |-> Body(s, f)]
<1>1. GivenBy(y) = sum[S]
  BY DEF GivenBy, MapThenSumSet, MapThenFoldSet
<1>3. ASSUME NEW f, NEW s \in SUBSET S
      PROVE  Body(s, f) = SumRule(Given, s, f)
  <2>1. s # {} => Given[First(s)] = Entitlement(First(s))
    BY FirstIsMember DEF Given
  <2>2. QED
    BY <2>1 DEF SumRule, First
<1>4. ASSUME NEW f
      PROVE  Sums(Given, S, f) <=> f = [s \in SUBSET S |-> Body(s, f)]
  <2> HIDE DEF Body, S
  <2>1. QED
    BY <1>3 DEF Sums
<1>5. Sums(Given, S, sum)
  <2>1. PICK f : Sums(Given, S, f)
    BY SumExists
  <2>2. f = [s \in SUBSET S |-> Body(s, f)]
    BY <1>4, <2>1
  <2> HIDE DEF Body, S
  <2>3. sum = [s \in SUBSET S |-> Body(s, sum)]
    BY <2>2
  <2>4. QED
    BY <1>4, <2>3
<1>6. QED
  <2> HIDE DEF sum, S
  <2>1. QED
    BY <1>1, <1>5, SumIs DEF S

-----------------------------------------------------------------------------
(* Quotients, years and weeks. *)

LEMMA Quotient ==
  ASSUME NEW n \in Nat \ {0}, NEW a \in Int
  PROVE  /\ a \div n \in Int
         /\ n * (a \div n) <= a
         /\ a < n * (a \div n) + n
  OBVIOUS

LEMMA QuotientLess ==
  ASSUME NEW n \in Nat \ {0}, NEW p \in Int, NEW q \in Int, n * p < n * q + n
  PROVE  p <= q
<1>1. SUFFICES ASSUME p - q >= 1 PROVE FALSE
  OBVIOUS
<1>2. n * (p - q) >= n
  BY <1>1
<1>3. n * (p - q) = n * p - n * q
  OBVIOUS
<1> QED
  BY <1>2, <1>3

\* Quotients grow with what is divided, and are determined by their multiple.
LEMMA QuotientGrows ==
  ASSUME NEW n \in Nat \ {0}, NEW a \in Int, NEW b \in Int, a <= b
  PROVE  a \div n <= b \div n
<1> DEFINE p == a \div n
           q == b \div n
<1>1. p \in Int /\ q \in Int /\ n * p <= a /\ b < n * q + n
  BY Quotient
<1> HIDE DEF p, q
<1>2. n * p < n * q + n
  <2>1. n * p \in Int /\ n * q \in Int
    BY <1>1
  <2> QED
    BY <1>1, <2>1
<1>3. p <= q
  BY <1>1, <1>2, QuotientLess
<1> QED
  BY <1>3 DEF p, q

LEMMA QuotientIs ==
  ASSUME NEW n \in Nat \ {0}, NEW a \in Int, NEW q \in Int, n * q <= a, a < n * q + n
  PROVE  a \div n = q
<1> DEFINE p == a \div n
<1>1. p \in Int /\ n * p <= a /\ a < n * p + n
  BY Quotient
<1> HIDE DEF p
<1>2. n * p \in Int /\ n * q \in Int
  BY <1>1
<1>3. n * p < n * q + n /\ n * q < n * p + n
  BY <1>1, <1>2
<1>4. p <= q /\ q <= p
  BY <1>1, <1>3, QuotientLess
<1> QED
  BY <1>1, <1>4 DEF p

LEMMA YearBounds ==
  ASSUME NEW y \in Int
  PROVE  /\ FirstDay(y) \in Int /\ LastDay(y) \in Int
         /\ LastDay(y) = FirstDay(y) + YearLength - 1
         /\ FirstDay(y) - 1 = YearLength * (y - 1)
  BY LeaveAssumption DEF FirstDay, LastDay

\* A day is in a year just if it is between its first and its last day.
LEMMA YearIs ==
  ASSUME NEW d \in Int, NEW y \in Int
  PROVE  YearOf(d) \in Int /\ (YearOf(d) = y <=> d \in FirstDay(y)..LastDay(y))
<1>1. YearLength \in Nat \ {0}
  BY LeaveAssumption
<1> DEFINE q == (d - 1) \div YearLength
<1>2. q \in Int /\ YearLength * q <= d - 1 /\ d - 1 < YearLength * q + YearLength
  BY <1>1, Quotient
<1>3. YearOf(d) = q + 1
  BY DEF YearOf
<1>4. FirstDay(y) \in Int /\ LastDay(y) = FirstDay(y) + YearLength - 1
      /\ FirstDay(y) - 1 = YearLength * (y - 1)
  BY YearBounds
<1> HIDE DEF q
<1>5. ASSUME q + 1 = y PROVE d \in FirstDay(y)..LastDay(y)
  <2>1. q = y - 1
    BY <1>2, <1>5
  <2> QED
    BY <1>1, <1>2, <1>4, <2>1
<1>6. ASSUME d \in FirstDay(y)..LastDay(y) PROVE q + 1 = y
  <2>1. YearLength * (y - 1) <= d - 1 /\ d - 1 < YearLength * (y - 1) + YearLength
    BY <1>1, <1>4, <1>6
  <2>2. q = y - 1
    BY <1>1, <2>1, QuotientIs DEF q
  <2> QED
    BY <1>2, <2>2
<1> QED
  BY <1>2, <1>3, <1>5, <1>6

LEMMA YearGrows ==
  ASSUME NEW d \in Int, NEW e \in Int, d <= e
  PROVE  YearOf(d) <= YearOf(e)
<1>1. (d - 1) \div YearLength <= (e - 1) \div YearLength
  BY LeaveAssumption, QuotientGrows
<1>2. (d - 1) \div YearLength \in Int /\ (e - 1) \div YearLength \in Int
  BY LeaveAssumption
<1> QED
  BY <1>1, <1>2 DEF YearOf

LEMMA YearOfDay ==
  ASSUME NEW d \in Days
  PROVE  d \in Int /\ YearOf(d) \in Years
<1>1. d \in Int /\ d >= 1 /\ d <= YearLength * LastYear
  BY DEF Days
<1>2. LastYear \in Int /\ 1 \in Int /\ LastDay(LastYear) = YearLength * LastYear
  BY LeaveAssumption DEF LastDay
<1>3. CASE LastYear = 0
  BY <1>1, <1>3, LeaveAssumption
<1>4. CASE LastYear >= 1
  <2>1. YearOf(1) = 1 /\ YearOf(LastDay(LastYear)) = LastYear
    <3>1. FirstDay(1) = 1 /\ YearLength \in Nat \ {0}
      BY LeaveAssumption DEF FirstDay
    <3>2. 1 \in FirstDay(1)..LastDay(1)
      BY <3>1, YearBounds
    <3>3. LastDay(LastYear) \in FirstDay(LastYear)..LastDay(LastYear) /\ LastDay(LastYear) \in Int
      BY <1>2, <3>1, YearBounds
    <3> QED
      BY <1>2, <3>2, <3>3, YearIs
  <2>2. YearOf(1) <= YearOf(d) /\ YearOf(d) <= YearOf(LastDay(LastYear)) /\ YearOf(d) \in Int
    <3>1. LastDay(LastYear) \in Int
      BY <1>2, YearBounds
    <3> QED
      BY <1>1, <1>2, <3>1, YearGrows, YearIs
  <2> QED
    BY <1>1, <1>2, <2>1, <2>2 DEF Years
<1> QED
  BY <1>3, <1>4, LeaveAssumption

LEMMA WeekGrows ==
  ASSUME NEW d \in Int, NEW e \in Int, d <= e
  PROVE  WeekOf(d) \in Int /\ WeekOf(e) \in Int /\ WeekOf(d) <= WeekOf(e)
  BY LeaveAssumption, QuotientGrows, Quotient DEF WeekOf

-----------------------------------------------------------------------------
(* The days a week's quota picks. *)

Asked(ranges, lo, hi) ==
  {d \in lo..hi : d >= StartDay /\ d \in WorkDays /\ \E r \in ranges : Within(d, r)}
UpTo(A, d) == {e \in A : e <= d /\ WeekOf(e) = WeekOf(d)}
Pick(A) == {d \in A : Cardinality(UpTo(A, d)) <= Quota}

LEMMA ChargedIsPicked ==
  ASSUME NEW ranges, NEW lo, NEW hi
  PROVE  Charged(ranges, lo, hi) = Pick(Asked(ranges, lo, hi))
  BY DEF Charged, Pick, Asked, UpTo

LEMMA AskedIsFinite ==
  ASSUME NEW ranges, NEW lo \in Int, NEW hi \in Int
  PROVE  /\ Asked(ranges, lo, hi) \in SUBSET Int
         /\ IsFiniteSet(Asked(ranges, lo, hi))
<1>1. IsFiniteSet(lo..hi) /\ Asked(ranges, lo, hi) \in SUBSET (lo..hi)
  BY FS_Interval DEF Asked
<1> QED
  BY <1>1, FS_Subset

LEMMA PickIsFinite ==
  ASSUME NEW A \in SUBSET Int, IsFiniteSet(A)
  PROVE  /\ Pick(A) \in SUBSET A /\ IsFiniteSet(Pick(A)) /\ Cardinality(Pick(A)) \in Nat
         /\ \A d : IsFiniteSet(UpTo(A, d)) /\ Cardinality(UpTo(A, d)) \in Nat
  BY FS_Subset, FS_CardinalityType DEF Pick, UpTo

\* A larger set has at least as many members, and more if it has another one.
LEMMA MoreMembers ==
  ASSUME NEW A, NEW B, IsFiniteSet(B), A \subseteq B
  PROVE  /\ IsFiniteSet(A) /\ Cardinality(A) \in Nat /\ Cardinality(B) \in Nat
         /\ Cardinality(A) <= Cardinality(B)
         /\ A # B => Cardinality(A) < Cardinality(B)
  BY FS_Subset, FS_CardinalityType

\* Of two days of a week the later has more days up to it.
LEMMA UpToGrows ==
  ASSUME NEW A \in SUBSET Int, IsFiniteSet(A), NEW d \in A, NEW e \in A,
         d < e, WeekOf(d) = WeekOf(e)
  PROVE  Cardinality(UpTo(A, d)) < Cardinality(UpTo(A, e))
<1>1. d \in Int /\ e \in Int
  OBVIOUS
<1>2. UpTo(A, d) \subseteq UpTo(A, e)
  <2>1. ASSUME NEW c \in A, c <= d PROVE c <= e
    <3>1. c \in Int
      OBVIOUS
    <3> QED
      BY <1>1, <2>1, <3>1
  <2> QED
    BY <2>1 DEF UpTo
<1>3. e \in UpTo(A, e) /\ e \notin UpTo(A, d)
  BY <1>1 DEF UpTo
<1>4. IsFiniteSet(UpTo(A, e))
  BY PickIsFinite
<1> QED
  BY <1>2, <1>3, <1>4, MoreMembers

\* A day more counts for the later days of its week.
LEMMA UpToAdd ==
  ASSUME NEW A \in SUBSET Int, IsFiniteSet(A), NEW x \in Int, x \notin A, NEW d \in A
  PROVE  Cardinality(UpTo(A \cup {x}, d)) =
           Cardinality(UpTo(A, d)) + IF x < d /\ WeekOf(x) = WeekOf(d) THEN 1 ELSE 0
<1>1. IsFiniteSet(UpTo(A, d)) /\ Cardinality(UpTo(A, d)) \in Nat
  BY PickIsFinite
<1>2. d \in Int /\ (x <= d <=> x < d)
  OBVIOUS
<1>3. CASE x < d /\ WeekOf(x) = WeekOf(d)
  <2>1. UpTo(A \cup {x}, d) = UpTo(A, d) \cup {x} /\ x \notin UpTo(A, d)
    BY <1>2, <1>3 DEF UpTo
  <2> QED
    BY <1>1, <1>3, <2>1, FS_AddElement
<1>4. CASE ~(x < d /\ WeekOf(x) = WeekOf(d))
  <2>1. UpTo(A \cup {x}, d) = UpTo(A, d)
    BY <1>2, <1>4 DEF UpTo
  <2> QED
    BY <1>1, <1>4, <2>1
<1> QED
  BY <1>3, <1>4

\* One day more to pick from never leaves fewer days picked: it takes the place
\* of one day at most, and is then picked itself.
LEMMA PickAdd ==
  ASSUME NEW A \in SUBSET Int, IsFiniteSet(A), NEW x \in Int, x \notin A
  PROVE  Cardinality(Pick(A)) <= Cardinality(Pick(A \cup {x}))
<1> DEFINE B == A \cup {x}
<1>1. B \in SUBSET Int /\ IsFiniteSet(B) /\ A \subseteq B /\ x \in B
  BY FS_AddElement
<1>2. \A d \in A : Cardinality(UpTo(B, d)) =
        Cardinality(UpTo(A, d)) + IF x < d /\ WeekOf(x) = WeekOf(d) THEN 1 ELSE 0
  BY UpToAdd
<1> HIDE DEF B
<1>3. IsFiniteSet(Pick(B)) /\ IsFiniteSet(Pick(A)) /\ Cardinality(Pick(A)) \in Nat
      /\ Pick(A) \subseteq A
  BY <1>1, PickIsFinite
<1>4. Quota \in Int /\ \A d : Cardinality(UpTo(A, d)) \in Nat /\ Cardinality(UpTo(B, d)) \in Nat
  BY <1>1, PickIsFinite, LeaveAssumption
<1>5. ASSUME NEW d \in Pick(A), d \notin Pick(B)
      PROVE  /\ d \in A /\ x < d /\ WeekOf(x) = WeekOf(d)
             /\ Cardinality(UpTo(A, d)) = Quota /\ Cardinality(UpTo(B, d)) = Quota + 1
  <2>1. d \in A /\ Cardinality(UpTo(A, d)) <= Quota
    BY <1>5 DEF Pick
  <2>2. ~(Cardinality(UpTo(B, d)) <= Quota)
    BY <1>1, <1>5, <2>1 DEF Pick
  <2> QED
    BY <1>2, <1>4, <2>1, <2>2
<1>6. CASE Pick(A) \subseteq Pick(B)
  BY <1>3, <1>6, MoreMembers DEF B
<1>7. CASE ~(Pick(A) \subseteq Pick(B))
  <2>1. PICK d \in Pick(A) : d \notin Pick(B)
    BY <1>7
  <2>2. d \in A /\ x < d /\ WeekOf(x) = WeekOf(d)
        /\ Cardinality(UpTo(A, d)) = Quota /\ Cardinality(UpTo(B, d)) = Quota + 1
    BY <1>5, <2>1
  <2>3. x \in Pick(B)
    <3>1. Cardinality(UpTo(B, x)) < Cardinality(UpTo(B, d))
      BY <1>1, <2>2, UpToGrows
    <3> QED
      BY <1>1, <1>4, <2>2, <3>1 DEF Pick
  <2>4. ASSUME NEW e \in Pick(A), e # d
        PROVE  e \in Pick(B)
    <3>1. SUFFICES ASSUME e \notin Pick(B) PROVE FALSE
      OBVIOUS
    <3>2. e \in A /\ WeekOf(x) = WeekOf(e) /\ Cardinality(UpTo(A, e)) = Quota
      BY <1>5, <3>1
    <3>3. d \in Int /\ e \in Int
      BY <2>2, <3>2
    <3>4. d < e => Cardinality(UpTo(A, d)) < Cardinality(UpTo(A, e))
      BY <2>2, <3>2, UpToGrows
    <3>5. e < d => Cardinality(UpTo(A, e)) < Cardinality(UpTo(A, d))
      BY <2>2, <3>2, UpToGrows
    <3> QED
      BY <1>4, <2>2, <2>4, <3>2, <3>3, <3>4, <3>5
  <2>5. Cardinality((Pick(A) \ {d}) \cup {x}) = Cardinality(Pick(A))
    <3>1. x \notin Pick(A) \ {d} /\ IsFiniteSet(Pick(A) \ {d})
          /\ Cardinality(Pick(A) \ {d}) = Cardinality(Pick(A)) - 1
      BY <1>3, <2>1, FewerLeft
    <3>2. Cardinality((Pick(A) \ {d}) \cup {x}) = Cardinality(Pick(A) \ {d}) + 1
      BY <3>1, FS_AddElement
    <3> QED
      BY <1>3, <3>1, <3>2
  <2>6. (Pick(A) \ {d}) \cup {x} \subseteq Pick(B)
    BY <2>3, <2>4
  <2> QED
    BY <1>3, <2>5, <2>6, MoreMembers DEF B
<1> QED
  BY <1>6, <1>7 DEF B

LEMMA PickFewer ==
  ASSUME NEW B \in SUBSET Int, IsFiniteSet(B), NEW A \in SUBSET B
  PROVE  Cardinality(Pick(A)) <= Cardinality(Pick(B))
<1> DEFINE Worse(T) == ~(Cardinality(Pick(A)) <= Cardinality(Pick(T)))
           Between == {T \in SUBSET B : A \subseteq T}
           Bad == {n \in Nat : \E T \in Between : Cardinality(T) = n /\ Worse(T)}
<1>1. SUFFICES ASSUME Worse(B) PROVE FALSE
  OBVIOUS
<1>2. ASSUME NEW T \in Between
      PROVE  T \in SUBSET Int /\ IsFiniteSet(T) /\ Cardinality(T) \in Nat
             /\ Cardinality(Pick(T)) \in Nat
  BY FS_Subset, FS_CardinalityType, PickIsFinite
<1>3. Bad # {} /\ Bad \in SUBSET Nat
  <2>1. B \in Between /\ Cardinality(B) \in Nat
    BY FS_CardinalityType
  <2> QED
    BY <1>1, <2>1
<1>4. PICK m \in Bad : \A n \in Bad : m <= n
  <2> HIDE DEF Bad
  <2> QED
    BY <1>3, LeastNumber
<1>5. PICK T \in Between : Cardinality(T) = m /\ Worse(T)
  BY <1>4
<1>6. A \in Between
  OBVIOUS
<1>7. A # T
  BY <1>2, <1>5, <1>6
<1>8. PICK x \in T : x \notin A
  BY <1>5, <1>7
<1> DEFINE D == T \ {x}
<1>9. D \in Between /\ Cardinality(D) = m - 1 /\ m \in Nat
  BY <1>2, <1>4, <1>5, <1>8, FewerLeft
<1>10. ~Worse(D)
  <2>1. m - 1 \in Nat
    BY <1>2, <1>9
  <2> QED
    BY <1>4, <1>9, <2>1
<1>11. Cardinality(Pick(D)) <= Cardinality(Pick(T))
  <2>1. D \in SUBSET Int /\ IsFiniteSet(D) /\ x \in Int /\ x \notin D /\ T = D \cup {x}
    BY <1>2, <1>5, <1>8, <1>9
  <2> HIDE DEF D
  <2> QED
    BY <2>1, PickAdd
<1> QED
  <2> HIDE DEF D, Between
  <2> QED
    BY <1>2, <1>5, <1>6, <1>9, <1>10, <1>11

\* A quota that holds all days of a week picks all.
LEMMA PickAll ==
  ASSUME NEW A \in SUBSET Int, IsFiniteSet(A), Quota >= WeekLength
  PROVE  Pick(A) = A
<1> SUFFICES ASSUME NEW d \in A PROVE Cardinality(UpTo(A, d)) <= Quota
  BY DEF Pick
<1> DEFINE q == (d - 1) \div WeekLength
<1>1. WeekLength \in Nat \ {0} /\ Quota \in Nat
  BY LeaveAssumption
<1>2. q \in Int /\ WeekLength * q \in Int
  BY <1>1, Quotient
<1> DEFINE first == WeekLength * q + 1
           last == WeekLength * q + WeekLength
<1>3. first \in Int /\ last \in Int /\ first <= last /\ last - first + 1 = WeekLength
  BY <1>1, <1>2
<1>4. ASSUME NEW e \in UpTo(A, d) PROVE e \in first..last
  <2>1. e \in Int /\ (e - 1) \div WeekLength = q
    BY DEF UpTo, WeekOf
  <2>2. WeekLength * ((e - 1) \div WeekLength) <= e - 1
        /\ e - 1 < WeekLength * ((e - 1) \div WeekLength) + WeekLength
    BY <1>1, <2>1, Quotient
  <2>3. WeekLength * q <= e - 1 /\ e - 1 < WeekLength * q + WeekLength
    BY <2>1, <2>2
  <2> HIDE DEF q
  <2> QED
    BY <1>1, <1>2, <2>1, <2>3
<1> HIDE DEF first, last
<1>5. IsFiniteSet(first..last) /\ Cardinality(first..last) = WeekLength
  BY <1>1, <1>3, FS_Interval
<1>6. UpTo(A, d) \subseteq first..last
  BY <1>4
<1>7. Cardinality(UpTo(A, d)) <= WeekLength /\ Cardinality(UpTo(A, d)) \in Nat
  BY <1>5, <1>6, MoreMembers
<1> QED
  BY <1>1, <1>7

-----------------------------------------------------------------------------
(* What a year's bookings use before and after the expiry. *)

Covered(ranges, d) == \E r \in ranges : Within(d, r)
CostOf(ranges, y) == Cardinality(InYear(ranges, y))
YearAsked(ranges, y) == Asked(ranges, FirstDay(y), LastDay(y))

LEMMA InYearIsPicked ==
  ASSUME NEW ranges, NEW y \in Int
  PROVE  /\ InYear(ranges, y) = Pick(YearAsked(ranges, y))
         /\ YearAsked(ranges, y) \in SUBSET Int /\ IsFiniteSet(YearAsked(ranges, y))
         /\ InYear(ranges, y) \in SUBSET Int /\ IsFiniteSet(InYear(ranges, y))
<1>1. YearAsked(ranges, y) \in SUBSET Int /\ IsFiniteSet(YearAsked(ranges, y))
  BY YearBounds, AskedIsFinite DEF YearAsked
<1>2. InYear(ranges, y) = Pick(YearAsked(ranges, y))
  BY ChargedIsPicked DEF InYear, YearAsked
<1> QED
  BY <1>1, <1>2, PickIsFinite

LEMMA AskedOf ==
  ASSUME NEW ranges, NEW more, NEW y \in Int, NEW d \in YearAsked(ranges, y), Covered(more, d)
  PROVE  d \in YearAsked(more, y)
  BY DEF YearAsked, Asked, Covered

LEMMA AskedIs ==
  ASSUME NEW ranges, NEW y \in Int, NEW d \in YearAsked(ranges, y)
  PROVE  d \in FirstDay(y)..LastDay(y) /\ Covered(ranges, d)
  BY DEF YearAsked, Asked, Covered

LEMMA CostFewer ==
  ASSUME NEW ranges, NEW more, NEW y \in Int,
         \A d \in FirstDay(y)..LastDay(y) : Covered(ranges, d) => Covered(more, d)
  PROVE  /\ CostOf(ranges, y) <= CostOf(more, y)
         /\ CostOf(ranges, y) \in Nat /\ CostOf(more, y) \in Nat
<1>1. YearAsked(ranges, y) \in SUBSET YearAsked(more, y)
  BY AskedOf, AskedIs
<1>2. CostOf(ranges, y) <= CostOf(more, y)
  BY <1>1, InYearIsPicked, PickFewer DEF CostOf
<1> QED
  BY <1>2, InYearIsPicked, FS_CardinalityType DEF CostOf

LEMMA InYearSame ==
  ASSUME NEW ranges, NEW other, NEW y \in Int,
         \A d \in FirstDay(y)..LastDay(y) : Covered(ranges, d) <=> Covered(other, d)
  PROVE  InYear(ranges, y) = InYear(other, y)
<1>1. YearAsked(ranges, y) = YearAsked(other, y)
  BY AskedOf, AskedIs
<1> QED
  BY <1>1, InYearIsPicked

Early(ranges, y) == {d \in InYear(ranges, y) : d <= ExpiryDate(y)}
Late(ranges, y) == {d \in InYear(ranges, y) : d > ExpiryDate(y)}

LEMMA UsageIs ==
  ASSUME expiry \in Int, NEW ranges, NEW y \in Int
  PROVE  /\ ExpiryDate(y) \in Int
         /\ IsFiniteSet(Early(ranges, y)) /\ IsFiniteSet(Late(ranges, y))
         /\ Usage(ranges, y).pre = Cardinality(Early(ranges, y))
         /\ Usage(ranges, y).post = Cardinality(Late(ranges, y))
         /\ Usage(ranges, y).pre \in Nat /\ Usage(ranges, y).post \in Nat
         /\ CostOf(ranges, y) = Usage(ranges, y).pre + Usage(ranges, y).post
<1> DEFINE days == InYear(ranges, y)
           early == Early(ranges, y)
           late == Late(ranges, y)
<1>1. days \in SUBSET Int /\ IsFiniteSet(days) /\ ExpiryDate(y) \in Int
  BY InYearIsPicked, YearBounds DEF ExpiryDate
<1>2. early \cup late = days /\ early \cap late = {} /\ early \subseteq days /\ late \subseteq days
  BY <1>1 DEF Early, Late
<1>3. IsFiniteSet(early) /\ IsFiniteSet(late)
      /\ Cardinality(early) \in Nat /\ Cardinality(late) \in Nat
  BY <1>1, <1>2, FS_Subset, FS_CardinalityType
<1>4. Cardinality(days) = Cardinality(early) + Cardinality(late)
  <2> HIDE DEF early, late, days
  <2>1. Cardinality(early \cup late)
          = Cardinality(early) + Cardinality(late) - Cardinality(early \cap late)
    BY <1>3, FS_Union
  <2>2. Cardinality(early \cap late) = 0
    BY <1>2, FS_EmptySet
  <2>3. Cardinality(early \cup late) = Cardinality(days)
    BY <1>2
  <2> QED
    BY <1>3, <2>1, <2>2, <2>3
<1>5. Usage(ranges, y) = [pre |-> Cardinality(early), post |-> Cardinality(days) - Cardinality(early)]
  BY DEF Usage, Early
<1> QED
  BY <1>1, <1>3, <1>4, <1>5 DEF CostOf

LEMMA UsageSame ==
  ASSUME NEW ranges, NEW other, NEW y \in Int,
         \A d \in FirstDay(y)..LastDay(y) : Covered(ranges, d) <=> Covered(other, d)
  PROVE  Usage(ranges, y) = Usage(other, y)
  BY InYearSame DEF Usage

\* The days up to the expiry are picked whatever is asked for after it.
LEMMA EarlySame ==
  ASSUME expiry \in Int, NEW ranges, NEW other, NEW y \in Int,
         \A d \in FirstDay(y)..LastDay(y) : d <= ExpiryDate(y) =>
           (Covered(ranges, d) <=> Covered(other, d))
  PROVE  Usage(ranges, y).pre = Usage(other, y).pre
<1> DEFINE A == YearAsked(ranges, y)
           B == YearAsked(other, y)
<1>1. ExpiryDate(y) \in Int /\ A \in SUBSET Int /\ B \in SUBSET Int
  BY UsageIs, InYearIsPicked
<1>2. ASSUME NEW d \in Int, d <= ExpiryDate(y) PROVE d \in A <=> d \in B
  BY <1>2, AskedOf, AskedIs
<1> HIDE DEF A, B
<1>3. ASSUME NEW d \in Int, d <= ExpiryDate(y) PROVE UpTo(A, d) = UpTo(B, d)
  <2>1. ASSUME NEW e \in Int, e <= d PROVE e \in A <=> e \in B
    BY <1>1, <1>2, <1>3, <2>1
  <2> QED
    BY <1>1, <2>1 DEF UpTo
<1>4. Early(ranges, y) = Early(other, y)
  <2>1. InYear(ranges, y) = Pick(A) /\ InYear(other, y) = Pick(B)
    BY InYearIsPicked DEF A, B
  <2> QED
    BY <1>1, <1>2, <1>3, <2>1 DEF Early, Pick
<1> QED
  BY <1>4, UsageIs

\* Where the quota does not span the expiry, the days after it are picked
\* whatever is asked for before it.
LEMMA LateIsPicked ==
  ASSUME expiry \in Int, NEW ranges, NEW y \in Int, ~QuotaSpansExpiry(y)
  PROVE  Late(ranges, y) = Pick({d \in YearAsked(ranges, y) : d > ExpiryDate(y)})
<1> DEFINE A == YearAsked(ranges, y)
           B == {d \in A : d > ExpiryDate(y)}
<1>1. ExpiryDate(y) \in Int /\ A \in SUBSET Int /\ IsFiniteSet(A)
      /\ InYear(ranges, y) = Pick(A) /\ Quota \in Nat /\ WeekLength \in Nat
  BY UsageIs, InYearIsPicked, LeaveAssumption
<1>2. B \in SUBSET Int /\ IsFiniteSet(B)
  BY <1>1, FS_Subset
<1>3. CASE Quota >= WeekLength
  BY <1>1, <1>2, <1>3, PickAll DEF Late
<1>4. CASE WeekOf(ExpiryDate(y)) # WeekOf(ExpiryDate(y) + 1)
  <2> HIDE DEF A
  <2>1. ASSUME NEW d \in B PROVE UpTo(A, d) = UpTo(B, d)
    <3>1. ASSUME NEW e \in A, WeekOf(e) = WeekOf(d) PROVE e > ExpiryDate(y)
      <4>1. SUFFICES ASSUME e <= ExpiryDate(y) PROVE FALSE
        BY <1>1
      <4>2. WeekOf(e) \in Int /\ WeekOf(ExpiryDate(y)) \in Int /\ WeekOf(e) <= WeekOf(ExpiryDate(y))
        BY <1>1, <4>1, WeekGrows
      <4>3. WeekOf(ExpiryDate(y)) <= WeekOf(ExpiryDate(y) + 1) /\ WeekOf(ExpiryDate(y) + 1) \in Int
        BY <1>1, WeekGrows
      <4>4. WeekOf(ExpiryDate(y) + 1) <= WeekOf(d)
        BY <1>1, WeekGrows
      <4> QED
        BY <1>4, <3>1, <4>2, <4>3, <4>4
    <3> QED
      BY <3>1 DEF UpTo
  <2>2. B \subseteq A /\ \A d \in A : d \in B <=> d > ExpiryDate(y)
    OBVIOUS
  <2> HIDE DEF B
  <2>3. \A d : d \in Late(ranges, y) <=> d \in Pick(B)
    BY <1>1, <2>1, <2>2 DEF Late, Pick
  <2> QED
    BY <2>3 DEF B, A
<1> QED
  BY <1>1, <1>3, <1>4 DEF QuotaSpansExpiry

LEMMA LateFewer ==
  ASSUME expiry \in Int, NEW ranges, NEW more, NEW y \in Int, ~QuotaSpansExpiry(y),
         \A d \in FirstDay(y)..LastDay(y) : d > ExpiryDate(y) =>
           (Covered(ranges, d) => Covered(more, d))
  PROVE  Usage(ranges, y).post <= Usage(more, y).post
<1> DEFINE A == {d \in YearAsked(ranges, y) : d > ExpiryDate(y)}
           B == {d \in YearAsked(more, y) : d > ExpiryDate(y)}
<1>1. A \in SUBSET B
  BY AskedOf, AskedIs
<1>2. B \in SUBSET Int /\ IsFiniteSet(B)
  BY InYearIsPicked, FS_Subset
<1>3. Late(ranges, y) = Pick(A) /\ Late(more, y) = Pick(B)
  BY LateIsPicked
<1> HIDE DEF A, B
<1>4. Cardinality(Pick(A)) <= Cardinality(Pick(B))
  BY <1>1, <1>2, PickFewer
<1> QED
  BY <1>3, <1>4, UsageIs

-----------------------------------------------------------------------------
(* Entitlement and carryover. *)

LEMMA NotNegativeIs ==
  ASSUME NEW n \in Int
  PROVE  NotNegative(n) = IF n >= 0 THEN n ELSE 0
<1> DEFINE S == {n, 0}
<1>1. Max(S) \in S /\ \A m \in S : Max(S) >= m
  <2>1. \E x \in S : \A m \in S : x >= m
    <3>1. CASE n >= 0
      BY <3>1
    <3>2. CASE n < 0
      BY <3>2
    <3> QED
      BY <3>1, <3>2
  <2> QED
    BY <2>1 DEF Max
<1> QED
  BY <1>1 DEF NotNegative

LEMMA FirstYearIs == FirstYear \in Nat \ {0}
<1> DEFINE S == {YearOf(StartDay), AccountStart}
<1>1. StartDay \in Days /\ AccountStart \in Int
  BY LeaveAssumption DEF Days
<1>2. YearOf(StartDay) \in Int /\ YearOf(StartDay) >= 1
  BY <1>1, YearOfDay, LeaveAssumption DEF Years
<1>3. Max(S) \in S /\ \A m \in S : Max(S) >= m
  <2>1. \E x \in S : \A m \in S : x >= m
    <3>1. CASE YearOf(StartDay) >= AccountStart
      BY <1>1, <1>2, <3>1
    <3>2. CASE YearOf(StartDay) < AccountStart
      BY <1>1, <1>2, <3>2
    <3> QED
      BY <1>1, <1>2, <3>1, <3>2
  <2> QED
    BY <2>1 DEF Max
<1> QED
  BY <1>1, <1>2, <1>3 DEF FirstYear

CarryRule(ranges, f, y) ==
  IF y <= FirstYear \/ y - 1 > YearOf(today) THEN 0 ELSE LeftOver(ranges, y - 1, f[y - 1])

LEMMA CarryIs ==
  ASSUME NEW ranges
  PROVE  \A y \in Years : CarryInto(ranges)[y] = CarryRule(ranges, CarryInto(ranges), y)
<1> DEFINE Filled(n) == \E f : f = [y \in 1..n |-> CarryRule(ranges, f, y)]
           Never == {n \in Nat : ~Filled(n)}
<1>1. Filled(0)
  <2>1. [y \in 1..0 |-> 0] = [y \in 1..0 |-> CarryRule(ranges, [z \in 1..0 |-> 0], y)]
    OBVIOUS
  <2> QED
    BY <2>1
<1>2. ASSUME NEW n \in Nat, Filled(n) PROVE Filled(n + 1)
  <2>1. PICK f : f = [y \in 1..n |-> CarryRule(ranges, f, y)]
    BY <1>2
  <2> DEFINE h == [y \in 1..(n + 1) |-> CarryRule(ranges, f, y)]
  <2>2. ASSUME NEW y \in 1..(n + 1)
        PROVE  CarryRule(ranges, f, y) = CarryRule(ranges, h, y)
    <3>1. CASE y <= FirstYear
      BY <3>1 DEF CarryRule
    <3>2. CASE ~(y <= FirstYear)
      <4>1. y - 1 \in 1..n /\ y - 1 \in 1..(n + 1)
        BY <3>2, FirstYearIs
      <4>2. f[y - 1] = CarryRule(ranges, f, y - 1)
        BY <2>1, <4>1
      <4>3. h[y - 1] = CarryRule(ranges, f, y - 1)
        BY <4>1
      <4> HIDE DEF h
      <4> QED
        BY <4>2, <4>3 DEF CarryRule
    <3> QED
      BY <3>1, <3>2
  <2>3. h = [y \in 1..(n + 1) |-> CarryRule(ranges, h, y)]
    BY <2>2
  <2> QED
    BY <2>3
<1>3. Never = {}
  <2>1. SUFFICES ASSUME Never # {} PROVE FALSE
    OBVIOUS
  <2> HIDE DEF Filled
  <2>2. PICK m \in Never : \A n \in Never : m <= n
    BY <2>1, LeastNumber
  <2>3. m # 0 /\ m \in Nat
    BY <1>1, <2>2
  <2>4. Filled(m - 1)
    BY <2>2, <2>3
  <2>5. Filled((m - 1) + 1)
    BY <1>2, <2>3, <2>4
  <2> QED
    BY <2>2, <2>3, <2>5
<1>4. \E f : f = [y \in Years |-> CarryRule(ranges, f, y)]
  <2>1. Filled(LastYear)
    <3> HIDE DEF Filled
    <3> QED
      BY <1>3, LeaveAssumption
  <2> QED
    BY <2>1 DEF Years
<1> DEFINE into == CHOOSE f : f = [y \in Years |-> CarryRule(ranges, f, y)]
<1>5. CarryInto(ranges) = into
  BY DEF CarryInto, CarryRule
<1>6. into = [y \in Years |-> CarryRule(ranges, into, y)]
  BY <1>4
<1> HIDE DEF into
<1>7. \A y \in Years : into[y] = CarryRule(ranges, into, y)
  BY <1>6
<1> QED
  BY <1>5, <1>7

LeaveTypeOK ==
  /\ today \in Days
  /\ base \in Nat
  /\ override \in [Years -> Nat \cup {NoOverride}]
  /\ access \in BOOLEAN /\ active \in BOOLEAN
  /\ expiry \in ExpiryDays
  /\ booked \subseteq Bookings
  /\ changes \in Nat

LEMMA OneFewer ==
  ASSUME NEW n \in Int, NEW p \in Int
  PROVE  (n - 1) * p = n * p - p /\ n * p \in Int
  OBVIOUS

LEMMA ProRatedIs ==
  ASSUME NEW days \in Nat, NEW y \in Int
  PROVE  ProRated(days, y) \in Nat
<1> DEFINE r == (Anchor - 1) % YearLength
<1>1. YearLength \in Nat \ {0} /\ YearMonths \in Nat \ {0} /\ Anchor \in Int
      /\ YearMonths - 1 \in Nat
  BY LeaveAssumption
<1>2. r \in Nat /\ r <= YearLength - 1
  BY <1>1
<1> HIDE DEF r
<1>3. r * YearMonths \in Nat /\ r * YearMonths <= (YearLength - 1) * YearMonths
  BY <1>1, <1>2
<1> DEFINE t == r * YearMonths
           m == t \div YearLength
<1>4. m \in Int /\ YearLength * m <= t
  <2>1. t \in Int
    BY <1>3
  <2> HIDE DEF t
  <2> QED
    BY <1>1, <2>1, Quotient
<1>5. (YearLength - 1) * YearMonths = YearLength * YearMonths - YearMonths
      /\ YearLength * YearMonths \in Int
  <2>1. YearLength \in Int /\ YearMonths \in Int
    BY <1>1
  <2> QED
    BY <2>1, OneFewer
<1>6. m <= YearMonths - 1
  <2>1. YearLength * (YearMonths - 1) = YearLength * YearMonths - YearLength
    BY <1>1
  <2>2. YearLength * m < YearLength * (YearMonths - 1) + YearLength
    <3> HIDE DEF m
    <3>1. YearLength * m \in Int
      BY <1>1, <1>4
    <3> QED
      BY <1>1, <1>3, <1>4, <1>5, <2>1, <3>1
  <2> HIDE DEF m
  <2> QED
    BY <1>1, <1>4, <2>2, QuotientLess
<1>7. MonthOf(Anchor) = m + 1
  BY DEF MonthOf, r
<1> HIDE DEF m
<1> DEFINE k == YearMonths + 1 - MonthOf(Anchor)
           n == days * k + YearMonths - 1
<1>8. k \in Nat
  BY <1>1, <1>4, <1>6, <1>7
<1> HIDE DEF k
<1>9. days * k \in Nat
  BY <1>8
<1>10. n \in Nat
  BY <1>1, <1>9
<1> HIDE DEF n
<1>11. n \div YearMonths \in Nat
  <2> DEFINE q == n \div YearMonths
  <2>1. q \in Int /\ n < YearMonths * q + YearMonths
    BY <1>1, <1>10, Quotient
  <2> HIDE DEF q
  <2>2. YearMonths * 0 < YearMonths * q + YearMonths
    <3>1. YearMonths * 0 = 0 /\ YearMonths * q \in Int
      BY <1>1, <2>1
    <3> QED
      BY <1>1, <1>10, <2>1, <3>1
  <2>3. 0 <= q
    BY <1>1, <2>1, <2>2, QuotientLess
  <2> QED
    BY <2>1, <2>3 DEF q
<1> QED
  BY <1>11 DEF ProRated, n, k

LEMMA EntitlementIs ==
  ASSUME LeaveTypeOK, NEW y \in Years
  PROVE  Entitlement(y) \in Nat
<1>1. YearDays(y) \in Nat
  BY DEF YearDays, LeaveTypeOK, NoOverride
<1> QED
  BY <1>1, ProRatedIs DEF Entitlement, Years

LEMMA ExpiryIs ==
  ASSUME LeaveTypeOK
  PROVE  expiry \in Int
  BY LeaveAssumption DEF LeaveTypeOK

LEMMA LeftOverIs ==
  ASSUME LeaveTypeOK, NEW ranges, NEW y \in Years, NEW n \in Int
  PROVE  /\ LeftOver(ranges, y, n) \in Nat
         /\ n >= 0 => LeftOver(ranges, y, n) = 0
                      \/ LeftOver(ranges, y, n) <= Entitlement(y) - CostOf(ranges, y) + n
<1> DEFINE used == Usage(ranges, y)
<1>1. Entitlement(y) \in Nat /\ used.pre \in Nat /\ used.post \in Nat
      /\ CostOf(ranges, y) = used.pre + used.post
  BY EntitlementIs, ExpiryIs, UsageIs DEF Years
<1>2. LeftOver(ranges, y, n) = NotNegative(Entitlement(y) - used.post - NotNegative(used.pre - n))
  BY DEF LeftOver
<1> HIDE DEF used
<1>3. NotNegative(used.pre - n) = IF used.pre - n >= 0 THEN used.pre - n ELSE 0
  BY <1>1, NotNegativeIs
<1> DEFINE rest == Entitlement(y) - used.post - NotNegative(used.pre - n)
<1>4. rest \in Int /\ rest <= Entitlement(y) - used.post - (used.pre - n)
  BY <1>1, <1>3
<1> HIDE DEF rest
<1>5. NotNegative(rest) = IF rest >= 0 THEN rest ELSE 0
  BY <1>4, NotNegativeIs
<1> QED
  BY <1>1, <1>2, <1>4, <1>5 DEF rest

\* Of the statements about years, the first false one is not about year 1.
LEMMA CarryType ==
  ASSUME LeaveTypeOK, NEW ranges
  PROVE  \A y \in Years : CarryInto(ranges)[y] \in Nat
<1> DEFINE Bad == {y \in Years : CarryInto(ranges)[y] \notin Nat}
<1>1. SUFFICES ASSUME Bad # {} PROVE FALSE
  OBVIOUS
<1>2. Bad \in SUBSET Nat
  BY DEF Years
<1>3. PICK y \in Bad : \A z \in Bad : y <= z
  <2> HIDE DEF Bad
  <2> QED
    BY <1>1, <1>2, LeastNumber
<1>4. y \in Years /\ y \in Nat /\ CarryInto(ranges)[y] = CarryRule(ranges, CarryInto(ranges), y)
      /\ CarryInto(ranges)[y] # 0
  BY <1>2, <1>3, CarryIs
<1>5. y > FirstYear /\ CarryInto(ranges)[y] = LeftOver(ranges, y - 1, CarryInto(ranges)[y - 1])
  BY <1>4, FirstYearIs DEF CarryRule
<1>6. y - 1 \in Years /\ y - 1 \notin Bad
  BY <1>3, <1>4, <1>5, FirstYearIs, LeaveAssumption DEF Years
<1>7. CarryInto(ranges)[y - 1] \in Int
  BY <1>6
<1> QED
  BY <1>3, <1>5, <1>6, <1>7, LeftOverIs

\* What is carried into a year depends on the years before it only.
LEMMA CarrySame ==
  ASSUME NEW ranges, NEW other, NEW last \in Years,
         \A z \in Years : z < last => Usage(ranges, z) = Usage(other, z)
  PROVE  CarryInto(ranges)[last] = CarryInto(other)[last]
<1> DEFINE Bad == {y \in Years : y <= last /\ CarryInto(ranges)[y] # CarryInto(other)[y]}
<1>1. SUFFICES ASSUME Bad # {} PROVE FALSE
  BY DEF Years
<1>2. Bad \in SUBSET Nat
  BY DEF Years
<1>3. PICK y \in Bad : \A z \in Bad : y <= z
  <2> HIDE DEF Bad
  <2> QED
    BY <1>1, <1>2, LeastNumber
<1>4. y \in Years /\ y \in Nat /\ y <= last /\ CarryInto(ranges)[y] # CarryInto(other)[y]
      /\ CarryInto(ranges)[y] = CarryRule(ranges, CarryInto(ranges), y)
      /\ CarryInto(other)[y] = CarryRule(other, CarryInto(other), y)
  BY <1>2, <1>3, CarryIs
<1>5. y > FirstYear /\ ~(y - 1 > YearOf(today))
  BY <1>4, FirstYearIs DEF CarryRule
<1>6. y - 1 \in Years /\ y - 1 < last /\ y - 1 \notin Bad
  BY <1>3, <1>4, <1>5, FirstYearIs, LeaveAssumption DEF Years
<1>7. CarryInto(ranges)[y - 1] = CarryInto(other)[y - 1] /\ Usage(ranges, y - 1) = Usage(other, y - 1)
  BY <1>4, <1>6, LeaveAssumption DEF Years
<1> QED
  BY <1>4, <1>7 DEF CarryRule, LeftOver

-----------------------------------------------------------------------------
(* The days of all years up to one, against what these years give. *)

LEMMA CostType ==
  ASSUME NEW ranges, NEW y \in Int
  PROVE  CostOf(ranges, y) \in Nat
  BY InYearIsPicked, FS_CardinalityType DEF CostOf

LEMMA DrawnStep ==
  ASSUME NEW ranges
  PROVE  /\ DrawnBy(ranges, 0) = 0
         /\ \A y \in Years : /\ DrawnBy(ranges, y) \in Int /\ DrawnBy(ranges, y - 1) \in Int
                             /\ DrawnBy(ranges, y) = DrawnBy(ranges, y - 1) + CostOf(ranges, y)
<1>1. DrawnBy(ranges, 0) = 0
  <2>1. 1..0 = {} /\ 0 \in Int
    OBVIOUS
  <2> QED
    BY <2>1, DrawnIsSum, SumOfNone
<1>2. ASSUME NEW y \in Years
      PROVE  /\ DrawnBy(ranges, y) \in Int /\ DrawnBy(ranges, y - 1) \in Int
             /\ DrawnBy(ranges, y) = DrawnBy(ranges, y - 1) + CostOf(ranges, y)
  <2>1. y \in Int /\ y >= 1 /\ LastYear \in Int /\ y <= LastYear
    BY LeaveAssumption DEF Years
  <2>2. /\ 1..y \subseteq Years /\ 1..(y - 1) \subseteq Years
        /\ 1..y = (1..(y - 1)) \cup {y} /\ y \notin 1..(y - 1)
    BY <2>1 DEF Years
  <2>3. IsFiniteSet(1..(y - 1))
    BY <2>1, FS_Interval
  <2>4. \A z \in Years : Cost(ranges)[z] = CostOf(ranges, z) /\ Cost(ranges)[z] \in Int
    BY CostType DEF Cost, CostOf, Years
  <2>5. DrawnBy(ranges, y) = Sum(Cost(ranges), 1..y)
        /\ DrawnBy(ranges, y - 1) = Sum(Cost(ranges), 1..(y - 1))
    BY <2>1, <2>2, DrawnIsSum
  <2> DEFINE S == 1..(y - 1)
  <2>6. \A z \in S \cup {y} : Cost(ranges)[z] \in Int
    BY <2>2, <2>4
  <2>7. IsFiniteSet(S) /\ y \notin S
    BY <2>2, <2>3
  <2> HIDE DEF S
  <2>8. Sum(Cost(ranges), S \cup {y}) = Cost(ranges)[y] + Sum(Cost(ranges), S)
        /\ Sum(Cost(ranges), S) \in Int
    BY <2>6, <2>7, SumAdd
  <2>9. Cost(ranges)[y] = CostOf(ranges, y) /\ Cost(ranges)[y] \in Int
    BY <2>4
  <2>10. DrawnBy(ranges, y) = Cost(ranges)[y] + Sum(Cost(ranges), S)
         /\ DrawnBy(ranges, y - 1) = Sum(Cost(ranges), S)
    BY <2>2, <2>5, <2>8 DEF S
  <2> QED
    BY <2>8, <2>9, <2>10
<1> QED
  BY <1>1, <1>2

LEMMA GivenStep ==
  ASSUME LeaveTypeOK
  PROVE  /\ GivenBy(0) = 0
         /\ \A y \in Years :
              /\ GivenBy(y) \in Int /\ GivenBy(y - 1) \in Int
              /\ GivenBy(y) = GivenBy(y - 1) + IF y >= FirstYear THEN Entitlement(y) ELSE 0
<1>1. FirstYear \in Int /\ FirstYear >= 1 /\ LastYear \in Int
  BY FirstYearIs, LeaveAssumption
<1>2. ASSUME NEW y \in Int, y <= LastYear
      PROVE  /\ FirstYear..y \subseteq Years /\ IsFiniteSet(FirstYear..y)
             /\ GivenBy(y) = Sum(Given, FirstYear..y)
  <2>1. FirstYear..y \subseteq Years /\ IsFiniteSet(FirstYear..y)
    BY <1>1, <1>2, FS_Interval DEF Years
  <2> QED
    BY <2>1, GivenIsSum
<1>3. ASSUME NEW y \in Int, y < FirstYear, y <= LastYear
      PROVE  GivenBy(y) = 0
  <2>1. FirstYear..y = {}
    BY <1>1, <1>3
  <2> QED
    BY <1>2, <1>3, <2>1, SumOfNone
<1>4. GivenBy(0) = 0
  BY <1>1, <1>3, LeaveAssumption
<1>5. ASSUME NEW y \in Years
      PROVE  /\ GivenBy(y) \in Int /\ GivenBy(y - 1) \in Int
             /\ GivenBy(y) = GivenBy(y - 1) + IF y >= FirstYear THEN Entitlement(y) ELSE 0
  <2>1. y \in Int /\ y >= 1 /\ y <= LastYear
    BY <1>1 DEF Years
  <2>2. CASE y < FirstYear
    BY <1>1, <1>3, <2>1, <2>2
  <2>3. CASE y >= FirstYear
    <3> DEFINE S == FirstYear..(y - 1)
    <3>1. FirstYear..y = S \cup {y} /\ y \notin S
      BY <1>1, <2>1, <2>3
    <3>2. IsFiniteSet(S) /\ GivenBy(y - 1) = Sum(Given, S) /\ S \subseteq Years
      BY <1>1, <1>2, <2>1
    <3>3. GivenBy(y) = Sum(Given, FirstYear..y)
      BY <1>1, <1>2, <2>1
    <3>4. \A z \in Years : Given[z] = Entitlement(z) /\ Given[z] \in Int
      BY EntitlementIs DEF Given
    <3> HIDE DEF S
    <3>5. \A z \in S \cup {y} : Given[z] \in Int
      BY <3>2, <3>4
    <3>6. Sum(Given, S \cup {y}) = Given[y] + Sum(Given, S) /\ Sum(Given, S) \in Int
      BY <3>1, <3>2, <3>5, SumAdd
    <3>7. Given[y] = Entitlement(y) /\ Given[y] \in Int
      BY <3>4
    <3>8. GivenBy(y) = Given[y] + Sum(Given, S)
      BY <3>1, <3>3, <3>6
    <3> QED
      BY <2>3, <3>2, <3>6, <3>7, <3>8
  <2> QED
    BY <1>1, <2>1, <2>2, <2>3
<1> QED
  BY <1>4, <1>5

LEMMA DrawnFewer ==
  ASSUME NEW ranges, NEW more, NEW last \in Years,
         \A z \in 1..last : CostOf(ranges, z) <= CostOf(more, z)
  PROVE  DrawnBy(ranges, last) <= DrawnBy(more, last)
<1> DEFINE Bad == {y \in 1..last : ~(DrawnBy(ranges, y) <= DrawnBy(more, y))}
<1>1. SUFFICES ASSUME Bad # {} PROVE FALSE
  BY DEF Years
<1>2. Bad \in SUBSET Nat /\ last \in Int /\ last <= LastYear /\ LastYear \in Int
  BY LeaveAssumption DEF Years
<1>3. PICK y \in Bad : \A z \in Bad : y <= z
  <2> HIDE DEF Bad
  <2> QED
    BY <1>1, <1>2, LeastNumber
<1>4. y \in 1..last /\ ~(DrawnBy(ranges, y) <= DrawnBy(more, y)) /\ y \in Years
  BY <1>2, <1>3 DEF Years
<1>5. DrawnBy(ranges, y - 1) <= DrawnBy(more, y - 1)
  <2>1. CASE y = 1
    BY <2>1, DrawnStep
  <2>2. CASE y > 1
    <3>1. y - 1 \in 1..last /\ ~(y <= y - 1)
      BY <1>2, <1>4, <2>2
    <3>2. y - 1 \notin Bad
      BY <1>3, <3>1
    <3> QED
      BY <3>1, <3>2
  <2> QED
    BY <1>2, <1>4, <2>1, <2>2
<1>6. /\ DrawnBy(ranges, y) = DrawnBy(ranges, y - 1) + CostOf(ranges, y)
      /\ DrawnBy(more, y) = DrawnBy(more, y - 1) + CostOf(more, y)
      /\ DrawnBy(ranges, y - 1) \in Int /\ DrawnBy(more, y - 1) \in Int
  BY <1>4, DrawnStep
<1>7. CostOf(ranges, y) \in Int /\ CostOf(more, y) \in Int /\ CostOf(ranges, y) <= CostOf(more, y)
  BY <1>4, CostType DEF Years
<1> QED
  BY <1>4, <1>5, <1>6, <1>7

\* What is carried into a year is at most what the years before it left over.
LEMMA CarryIsLeft ==
  ASSUME LeaveTypeOK, NEW ranges, NEW last \in Years,
         \A z \in 1..(last - 1) : DrawnBy(ranges, z) <= GivenBy(z)
  PROVE  CarryInto(ranges)[last] <= GivenBy(last - 1) - DrawnBy(ranges, last - 1)
<1> DEFINE Fine(y) == CarryInto(ranges)[y] <= GivenBy(y - 1) - DrawnBy(ranges, y - 1)
           Bad == {y \in 1..last : ~Fine(y)}
<1>1. SUFFICES ASSUME Bad # {} PROVE FALSE
  BY DEF Years
<1>2. Bad \in SUBSET Nat /\ last \in Int /\ last <= LastYear /\ LastYear \in Int
  BY LeaveAssumption DEF Years
<1>3. PICK y \in Bad : \A z \in Bad : y <= z
  <2> HIDE DEF Bad
  <2> QED
    BY <1>1, <1>2, LeastNumber
<1>4. y \in 1..last /\ y \in Years /\ ~Fine(y)
  BY <1>2, <1>3 DEF Years
<1>5. DrawnBy(ranges, y - 1) \in Int /\ GivenBy(y - 1) \in Int
  BY <1>4, DrawnStep, GivenStep
<1>6. 0 <= GivenBy(y - 1) - DrawnBy(ranges, y - 1)
  <2>1. CASE y = 1
    BY <2>1, DrawnStep, GivenStep
  <2>2. CASE y > 1
    <3>1. y - 1 \in 1..(last - 1)
      BY <1>2, <1>4, <2>2
    <3>2. DrawnBy(ranges, y - 1) <= GivenBy(y - 1)
      BY <3>1
    <3> QED
      BY <1>5, <3>2
  <2> QED
    BY <1>2, <1>4, <2>1, <2>2
<1>7. CarryInto(ranges)[y] \in Nat /\ CarryInto(ranges)[y] = CarryRule(ranges, CarryInto(ranges), y)
  BY <1>4, CarryType, CarryIs
<1>8. CarryInto(ranges)[y] # 0
  BY <1>4, <1>6
<1>9. y > FirstYear /\ CarryInto(ranges)[y] = LeftOver(ranges, y - 1, CarryInto(ranges)[y - 1])
  BY <1>2, <1>4, <1>7, <1>8, FirstYearIs DEF CarryRule
<1>10. y - 1 \in Years /\ y - 1 \in 1..last /\ y - 1 >= FirstYear /\ ~(y <= y - 1)
  BY <1>2, <1>4, <1>9, FirstYearIs DEF Years
<1>11. Fine(y - 1)
  <2>1. y - 1 \notin Bad
    BY <1>3, <1>10
  <2> QED
    BY <1>10, <2>1
<1>12. CarryInto(ranges)[y - 1] \in Nat
  BY <1>10, CarryType
<1>13. CarryInto(ranges)[y] <= Entitlement(y - 1) - CostOf(ranges, y - 1) + CarryInto(ranges)[y - 1]
  BY <1>8, <1>9, <1>10, <1>12, LeftOverIs
<1>14. /\ DrawnBy(ranges, y - 1) = DrawnBy(ranges, (y - 1) - 1) + CostOf(ranges, y - 1)
       /\ GivenBy(y - 1) = GivenBy((y - 1) - 1) + Entitlement(y - 1)
       /\ DrawnBy(ranges, (y - 1) - 1) \in Int /\ GivenBy((y - 1) - 1) \in Int
  BY <1>10, DrawnStep, GivenStep
<1>15. CostOf(ranges, y - 1) \in Int /\ Entitlement(y - 1) \in Int
  BY <1>10, CostType, EntitlementIs DEF Years
<1> QED
  BY <1>4, <1>7, <1>11, <1>12, <1>13, <1>14, <1>15

\* The rule for one year: its days fit in what it gives and what is carried in.
LEMMA FitsIs ==
  ASSUME LeaveTypeOK, NEW range, NEW others, NEW y \in Years, FitsYear(range, others, y)
  PROVE  /\ CostOf(others \cup {range}, y) <= Entitlement(y) + CarryInto(others \cup {range})[y]
         /\ Usage(others \cup {range}, y).post <= Entitlement(y)
<1> DEFINE ranges == others \cup {range}
<1>1. /\ Usage(others, y).pre \in Nat /\ Usage(others, y).post \in Nat
      /\ Usage(ranges, y).pre \in Nat /\ Usage(ranges, y).post \in Nat
      /\ CostOf(ranges, y) = Usage(ranges, y).pre + Usage(ranges, y).post
  BY ExpiryIs, UsageIs DEF Years
<1>2. Entitlement(y) \in Nat /\ CarryInto(ranges)[y] \in Nat
  BY EntitlementIs, CarryType
<1>3. CarryoverWith(range, others, y) = CarryInto(ranges)[y]
  BY DEF CarryoverWith
<1> HIDE DEF ranges
<1> DEFINE pre == Usage(others, y).pre + NotNegative(Usage(ranges, y).pre - Usage(others, y).pre)
           post == Usage(others, y).post + NotNegative(Usage(ranges, y).post - Usage(others, y).post)
           ownUse == NotNegative(pre - CarryInto(ranges)[y])
<1>4. /\ IF Expired(y) THEN ownUse + post <= Entitlement(y)
                       ELSE pre + post <= Entitlement(y) + CarryInto(ranges)[y]
      /\ post <= NotNegative(Entitlement(y) - ownUse)
  BY <1>3 DEF FitsYear, ranges
<1>5. pre \in Nat /\ pre >= Usage(ranges, y).pre /\ post \in Nat /\ post >= Usage(ranges, y).post
  BY <1>1, NotNegativeIs
<1> HIDE DEF pre, post
<1>6. ownUse \in Nat /\ ownUse >= pre - CarryInto(ranges)[y]
  BY <1>2, <1>5, NotNegativeIs
<1> HIDE DEF ownUse
<1>7. NotNegative(Entitlement(y) - ownUse) <= Entitlement(y)
      /\ NotNegative(Entitlement(y) - ownUse) \in Int
  BY <1>2, <1>6, NotNegativeIs
<1>8. CostOf(ranges, y) <= Entitlement(y) + CarryInto(ranges)[y]
  BY <1>1, <1>2, <1>4, <1>5, <1>6
<1>9. Usage(ranges, y).post <= Entitlement(y)
  BY <1>1, <1>2, <1>4, <1>5, <1>7
<1> QED
  BY <1>8, <1>9 DEF ranges

-----------------------------------------------------------------------------
(* The type invariant. *)

LEMMA WithYearsIs ==
  ASSUME LeaveTypeOK, NEW current \in Nat, NEW next \in Nat
  PROVE  WithYears(current, next) \in [Years -> Nat \cup {NoOverride}]
  BY DEF WithYears, LeaveTypeOK

LEMMA LeaveStartsTyped ==
  ASSUME Init
  PROVE  LeaveTypeOK
  BY LeaveAssumption DEF Init, LeaveTypeOK, Days

LEMMA LeaveStaysTyped ==
  ASSUME LeaveTypeOK, [Next]_vars
  PROVE  LeaveTypeOK'
<1>1. CASE Create
  BY <1>1 DEF LeaveTypeOK, Create, account, Bookings, Statuses
<1>2. ASSUME NEW b \in booked, Update(b) PROVE LeaveTypeOK'
  <2>1. b \in Bookings
    BY DEF LeaveTypeOK
  <2>2. PICK from \in Days, to \in Days :
          booked' = (booked \ {b}) \cup {[b EXCEPT !.from = from, !.to = to]}
    BY <1>2 DEF Update
  <2>3. booked' \subseteq Bookings
    BY <2>1, <2>2 DEF LeaveTypeOK, Bookings
  <2> QED
    BY <1>2, <2>3 DEF LeaveTypeOK, Update, account
<1>3. ASSUME NEW b \in booked, NEW s \in Statuses,
             booked' = (booked \ {b}) \cup {[b EXCEPT !.status = s]}, UNCHANGED <<today, account>>
      PROVE  LeaveTypeOK'
  <2>1. booked' \subseteq Bookings
    BY <1>3 DEF LeaveTypeOK, Bookings
  <2> QED
    BY <1>3, <2>1 DEF LeaveTypeOK, account
<1>4. ASSUME NEW b \in booked, Approve(b) \/ RequestCancellation(b) \/ RejectCancellation(b)
      PROVE  LeaveTypeOK'
  BY <1>3, <1>4 DEF Approve, RequestCancellation, RejectCancellation, Statuses
<1>5. ASSUME NEW b \in booked, End(b) PROVE LeaveTypeOK'
  BY <1>5 DEF LeaveTypeOK, End, account
<1>6. CASE NextDay
  <2>1. today' \in Days
    BY <1>6, LeaveAssumption, YearBounds DEF NextDay, Days, LastDay, LeaveTypeOK
  <2> QED
    BY <1>6, <2>1 DEF LeaveTypeOK, NextDay, account
<1>7. CASE ApplyValues
  <2>1. override' \in [Years -> Nat \cup {NoOverride}] /\ base' \in Nat
    BY <1>7, WithYearsIs, LeaveAssumption DEF ApplyValues
  <2> QED
    BY <1>7, <2>1 DEF ApplyValues, Change, LeaveTypeOK
<1>8. CASE Revoke
  <2>1. override' \in [Years -> Nat \cup {NoOverride}] /\ base' \in Nat /\ access' \in BOOLEAN
    BY <1>8 DEF Revoke
  <2> QED
    BY <1>8, <2>1 DEF Revoke, Change, LeaveTypeOK
<1>9. CASE Grant
  <2>1. override' \in [Years -> Nat \cup {NoOverride}] /\ base' \in Nat
    BY <1>9, WithYearsIs, LeaveAssumption DEF Grant
  <2> QED
    BY <1>9, <2>1 DEF Grant, Change, LeaveTypeOK
<1>10. CASE UpdateCategory
  BY <1>10 DEF UpdateCategory, Change, LeaveTypeOK
<1>11. CASE UNCHANGED vars
  BY <1>11 DEF vars, LeaveTypeOK
<1> QED
  BY <1>1, <1>2, <1>4, <1>5, <1>6, <1>7, <1>8, <1>9, <1>10, <1>11 DEF Next

-----------------------------------------------------------------------------
(* What a step books. *)

\* A step that books anything leaves the account and the date alone.  It leaves
\* the days that are booked alone too, or it books a range that was acceptable.
LEMMA WhatIsBooked ==
  ASSUME LeaveTypeOK, [Next]_vars, NEW b \in booked', b \notin booked
  PROVE  /\ UNCHANGED <<today, account>>
         /\ \/ \A d : Covered(booked', d) <=> Covered(booked, d)
            \/ \E others \in SUBSET booked :
                 b \in Bookings /\ booked' = others \cup {b} /\ Acceptable(b, others)
<1>1. CASE Create
  <2>1. PICK from \in Days, to \in Days :
          LET range == [from |-> from, to |-> to, status |-> "requested"]
          IN Acceptable(range, booked) /\ booked' = booked \cup {range}
    BY <1>1 DEF Create
  <2>2. b = [from |-> from, to |-> to, status |-> "requested"] /\ b \in Bookings
    BY <2>1 DEF Bookings, Statuses
  <2>3. Acceptable(b, booked) /\ booked' = booked \cup {b} /\ booked \in SUBSET booked
    BY <2>1, <2>2
  <2>4. UNCHANGED <<today, account>>
    BY <1>1 DEF Create
  <2> QED
    BY <2>2, <2>3, <2>4
<1>2. ASSUME NEW c \in booked, Update(c)
      PROVE  /\ UNCHANGED <<today, account>>
             /\ \E others \in SUBSET booked :
                  b \in Bookings /\ booked' = others \cup {b} /\ Acceptable(b, others)
  <2>1. PICK from \in Days, to \in Days :
          LET range == [c EXCEPT !.from = from, !.to = to]
          IN Acceptable(range, booked \ {c}) /\ booked' = (booked \ {c}) \cup {range}
    BY <1>2 DEF Update
  <2>2. b = [c EXCEPT !.from = from, !.to = to] /\ b \in Bookings
    BY <2>1 DEF Bookings, LeaveTypeOK
  <2>3. Acceptable(b, booked \ {c}) /\ booked' = (booked \ {c}) \cup {b}
        /\ booked \ {c} \in SUBSET booked
    BY <2>1, <2>2
  <2>4. UNCHANGED <<today, account>>
    BY <1>2 DEF Update
  <2> QED
    BY <2>2, <2>3, <2>4
<1>3. ASSUME NEW c \in booked, Approve(c) \/ RequestCancellation(c) \/ RejectCancellation(c)
      PROVE  /\ UNCHANGED <<today, account>>
             /\ \A d : Covered(booked', d) <=> Covered(booked, d)
  <2>1. PICK s : booked' = (booked \ {c}) \cup {[c EXCEPT !.status = s]}
    BY <1>3 DEF Approve, RequestCancellation, RejectCancellation
  <2>2. UNCHANGED <<today, account>>
    BY <1>3 DEF Approve, RequestCancellation, RejectCancellation
  <2> DEFINE e == [c EXCEPT !.status = s]
  <2>3. e.from = c.from /\ e.to = c.to
    BY DEF LeaveTypeOK, Bookings
  <2>4. booked' = (booked \ {c}) \cup {e}
    BY <2>1
  <2> HIDE DEF e
  <2>5. \A d : Within(d, e) <=> Within(d, c)
    BY <2>3 DEF Within
  <2> QED
    BY <2>2, <2>4, <2>5 DEF Covered
<1>4. ASSUME NEW c \in booked, End(c) PROVE FALSE
  BY <1>4 DEF End
<1>5. CASE NextDay \/ ApplyValues \/ Revoke \/ Grant \/ UpdateCategory \/ UNCHANGED vars
  BY <1>5 DEF NextDay, ApplyValues, Revoke, Grant, UpdateCategory, Change, vars
<1> QED
  BY <1>1, <1>2, <1>3, <1>4, <1>5 DEF Next

-----------------------------------------------------------------------------
(* The rules hold what they promise. *)

LEMMA YearsOfRange ==
  ASSUME NEW b \in Bookings, b.from <= b.to
  PROVE  /\ YearOf(b.from) \in Years /\ YearOf(b.to) \in Years
         /\ YearOf(b.from) <= YearOf(b.to)
<1>1. b.from \in Days /\ b.to \in Days
  BY DEF Bookings
<1> QED
  BY <1>1, YearOfDay, YearGrows

\* A range covers no day of a year outside its own.
LEMMA OtherYear ==
  ASSUME NEW b, b.from \in Int, b.to \in Int, NEW y \in Int,
         y < YearOf(b.from) \/ YearOf(b.to) < y,
         NEW d \in FirstDay(y)..LastDay(y)
  PROVE  ~Within(d, b)
<1>1. SUFFICES ASSUME b.from <= d /\ d <= b.to PROVE FALSE
  BY DEF Within
<1>2. d \in Int /\ YearOf(d) = y
  BY YearBounds, YearIs
<1>3. YearOf(b.from) <= y /\ y <= YearOf(b.to) /\ YearOf(b.from) \in Int /\ YearOf(b.to) \in Int
  BY <1>1, <1>2, YearGrows, YearIs
<1> QED
  BY <1>3

\* A range adds nothing to what is covered where it covers nothing.
LEMMA CoveredWith ==
  ASSUME NEW others, NEW b, NEW d
  PROVE  Covered(others \cup {b}, d) <=> Covered(others, d) \/ Within(d, b)
  BY DEF Covered

LEMMA CoveredBefore ==
  ASSUME NEW others, NEW more, others \subseteq more, NEW d, Covered(others, d)
  PROVE  Covered(more, d)
  BY DEF Covered

LEMMA YearsBack ==
  ASSUME NEW others, NEW b, NEW more, others \subseteq more,
         b.from \in Int, b.to \in Int, NEW y \in Int, y < YearOf(b.from) \/ YearOf(b.to) < y
  PROVE  \A d \in FirstDay(y)..LastDay(y) : Covered(others \cup {b}, d) => Covered(more, d)
  BY OtherYear, CoveredWith, CoveredBefore

\* An acceptable range takes no year up to its own beyond what the years give.
LEMMA AcceptedIsBacked ==
  ASSUME LeaveTypeOK, NEW b \in Bookings, NEW others \in SUBSET booked, Acceptable(b, others),
         NEW last \in 1..YearOf(b.to),
         \A z \in 1..last : DrawnBy(booked, z) <= GivenBy(z)
  PROVE  DrawnBy(others \cup {b}, last) <= GivenBy(last)
<1> DEFINE ranges == others \cup {b}
           Bad == {y \in 1..last : ~(DrawnBy(ranges, y) <= GivenBy(y))}
<1>1. /\ b.from \in Int /\ b.to \in Int /\ LastYear \in Int
      /\ YearOf(b.from) \in Years /\ YearOf(b.to) \in Years
  BY YearsOfRange, LeaveAssumption DEF Acceptable, Bookings, Days
<1>2. last \in Years /\ last \in Int /\ last <= YearOf(b.to) /\ Bad \in SUBSET Nat
  BY <1>1 DEF Years
<1>3. SUFFICES ASSUME Bad # {} PROVE FALSE
  BY <1>2 DEF Years
<1>4. PICK y \in Bad : \A z \in Bad : y <= z
  <2> HIDE DEF Bad
  <2> QED
    BY <1>2, <1>3, LeastNumber
<1>5. y \in 1..last /\ y \in Years /\ y \in Int /\ ~(DrawnBy(ranges, y) <= GivenBy(y))
  BY <1>1, <1>2, <1>4 DEF Years
<1>6. ASSUME NEW z \in 1..(y - 1) PROVE DrawnBy(ranges, z) <= GivenBy(z)
  <2>1. z \in 1..last /\ ~(y <= z)
    BY <1>2, <1>5
  <2>2. z \notin Bad
    BY <1>4, <2>1
  <2> QED
    BY <2>1, <2>2
<1>7. /\ DrawnBy(ranges, y) \in Int /\ DrawnBy(ranges, y - 1) \in Int
      /\ DrawnBy(ranges, y) = DrawnBy(ranges, y - 1) + CostOf(ranges, y)
      /\ GivenBy(y) \in Int /\ GivenBy(y - 1) \in Int
      /\ GivenBy(y) = GivenBy(y - 1) + IF y >= FirstYear THEN Entitlement(y) ELSE 0
  BY <1>5, DrawnStep, GivenStep
<1>8. CASE y < YearOf(b.from)
  <2>1. ASSUME NEW z \in 1..y PROVE CostOf(ranges, z) <= CostOf(booked, z)
    <3>1. z \in Int /\ z < YearOf(b.from)
      BY <1>1, <1>5, <1>8 DEF Years
    <3>2. \A d \in FirstDay(z)..LastDay(z) : Covered(ranges, d) => Covered(booked, d)
      BY <1>1, <3>1, YearsBack
    <3> HIDE DEF ranges
    <3> QED
      BY <3>1, <3>2, CostFewer
  <2> HIDE DEF ranges
  <2>2. DrawnBy(ranges, y) <= DrawnBy(booked, y)
    BY <1>5, <2>1, DrawnFewer
  <2>3. DrawnBy(booked, y) <= GivenBy(y) /\ DrawnBy(booked, y) \in Int
    BY <1>5, DrawnStep
  <2> QED
    BY <1>5, <1>7, <2>2, <2>3
<1>9. CASE y >= YearOf(b.from)
  <2>1. y \in YearOf(b.from)..YearOf(b.to)
    BY <1>1, <1>2, <1>5, <1>9 DEF Years
  <2>2. y >= FirstYear /\ FitsYear(b, others, y)
    BY <2>1 DEF Acceptable, Fits
  <2>3. CostOf(ranges, y) <= Entitlement(y) + CarryInto(ranges)[y]
    BY <1>5, <2>2, FitsIs
  <2> HIDE DEF ranges
  <2>4. CarryInto(ranges)[y] <= GivenBy(y - 1) - DrawnBy(ranges, y - 1)
    BY <1>5, <1>6, CarryIsLeft
  <2>5. CarryInto(ranges)[y] \in Int /\ Entitlement(y) \in Int /\ CostOf(ranges, y) \in Int
    BY <1>5, CarryType, EntitlementIs, CostType
  <2> QED
    BY <1>5, <1>7, <2>2, <2>3, <2>4, <2>5
<1> QED
  BY <1>1, <1>5, <1>8, <1>9 DEF Years

\* An acceptable range leaves the days after an expiry to the year's own days.
LEMMA AcceptedExpires ==
  ASSUME LeaveTypeOK, NEW b \in Bookings, NEW others \in SUBSET booked, Acceptable(b, others),
         NEW y \in Years, Usage(others \cup {b}, y).post > Entitlement(y)
  PROVE  \/ LateDaysUncovered(y)
         \/ QuotaSpansExpiry(y) /\ y \notin YearOf(b.from)..YearOf(b.to)
<1>1. b.from \in Int /\ b.to \in Int /\ y \in Int
      /\ YearOf(b.from) \in Int /\ YearOf(b.to) \in Int /\ expiry \in Int
  BY ExpiryIs, YearsOfRange DEF Acceptable, Bookings, Days, Years
<1>2. Entitlement(y) \in Int /\ Usage(others \cup {b}, y).post \in Int
      /\ Usage(booked, y).post \in Int
  BY <1>1, EntitlementIs, UsageIs
<1>3. CASE y \in YearOf(b.from)..YearOf(b.to)
  <2>1. FitsYear(b, others, y)
    BY <1>3 DEF Acceptable, Fits
  <2>2. Usage(others \cup {b}, y).post <= Entitlement(y)
    BY <2>1, FitsIs
  <2> QED
    BY <1>2, <2>2
<1>4. CASE y \notin YearOf(b.from)..YearOf(b.to) /\ ~QuotaSpansExpiry(y)
  <2>1. y < YearOf(b.from) \/ YearOf(b.to) < y
    BY <1>1, <1>4
  <2>2. \A d \in FirstDay(y)..LastDay(y) : Covered(others \cup {b}, d) => Covered(booked, d)
    BY <1>1, <2>1, YearsBack
  <2>3. Usage(others \cup {b}, y).post <= Usage(booked, y).post
    BY <1>1, <1>4, <2>2, LateFewer
  <2> QED
    BY <1>2, <2>3 DEF LateDaysUncovered
<1> QED
  BY <1>3, <1>4

LEMMA DrawnSame ==
  ASSUME NEW ranges, NEW other, \A d : Covered(ranges, d) <=> Covered(other, d), NEW y \in Years
  PROVE  DrawnBy(ranges, y) <= DrawnBy(other, y)
<1>1. ASSUME NEW z \in 1..y PROVE CostOf(ranges, z) <= CostOf(other, z)
  BY CostFewer
<1> QED
  BY <1>1, DrawnFewer

LEMMA OverdrawnIs ==
  ASSUME NEW y
  PROVE  Overdrawn(y) <=> DrawnBy(booked, y) > GivenBy(y)
  BY DEF Overdrawn, DrawnBy, GivenBy

LEMMA OverdrawnNext ==
  ASSUME UNCHANGED account, NEW y
  PROVE  Overdrawn(y)' <=> DrawnBy(booked', y) > GivenBy(y)
  BY DEF Overdrawn, DrawnBy, GivenBy, account, Entitlement, YearDays, MapThenSumSet, MapThenFoldSet

LEMMA BackedStep ==
  ASSUME LeaveTypeOK, [Next]_vars
  PROVE  Backed
<1> SUFFICES ASSUME NEW b \in booked' \ booked, NEW last \in 1..YearOf(b.to), Overdrawn(last)',
                    \A z \in 1..last : ~Overdrawn(z)
             PROVE  FALSE
  BY DEF Backed
<1>1. UNCHANGED <<today, account>>
  BY WhatIsBooked
<1>2. b \in Bookings
  BY LeaveStaysTyped DEF LeaveTypeOK
<1>3. b.to \in Days /\ last \in Years
  <2>1. b.to \in Days
    BY <1>2 DEF Bookings
  <2>2. YearOf(b.to) \in Years
    BY <2>1, YearOfDay
  <2> QED
    BY <2>1, <2>2, LeaveAssumption DEF Years
<1>4. DrawnBy(booked', last) > GivenBy(last)
  BY <1>1, OverdrawnNext
<1>5. ASSUME NEW z \in 1..last PROVE DrawnBy(booked, z) <= GivenBy(z)
  <2>1. z \in Years
    BY <1>3, LeaveAssumption DEF Years
  <2>2. DrawnBy(booked, z) \in Int /\ GivenBy(z) \in Int
    BY <2>1, DrawnStep, GivenStep
  <2> QED
    BY <2>2, OverdrawnIs
<1>6. DrawnBy(booked', last) \in Int /\ DrawnBy(booked, last) \in Int /\ GivenBy(last) \in Int
  BY <1>3, DrawnStep, GivenStep
<1>7. CASE \A d : Covered(booked', d) <=> Covered(booked, d)
  <2>1. DrawnBy(booked', last) <= DrawnBy(booked, last)
    BY <1>3, <1>7, DrawnSame
  <2>2. DrawnBy(booked, last) <= GivenBy(last)
    <3>1. last \in 1..last
      BY <1>3, LeaveAssumption DEF Years
    <3> QED
      BY <1>5, <3>1
  <2> QED
    BY <1>4, <1>6, <2>1, <2>2
<1>8. ASSUME NEW others \in SUBSET booked, booked' = others \cup {b}, Acceptable(b, others)
      PROVE  FALSE
  <2>1. DrawnBy(others \cup {b}, last) <= GivenBy(last)
    BY <1>2, <1>5, <1>8, AcceptedIsBacked
  <2> QED
    BY <1>4, <1>6, <1>8, <2>1
<1> QED
  BY <1>7, <1>8, WhatIsBooked

LEMMA ExpiryStep ==
  ASSUME LeaveTypeOK, [Next]_vars
  PROVE  LateDaysStayCovered
<1> SUFFICES ASSUME NEW b \in booked' \ booked, NEW y \in Years, LateDaysUncovered(y)'
             PROVE  LateDaysUncovered(y) \/ (QuotaSpansExpiry(y) /\ y \notin YearOf(b.from)..YearOf(b.to))
  BY DEF LateDaysStayCovered
<1>1. UNCHANGED account
  BY WhatIsBooked
<1>2. Usage(booked', y).post > Entitlement(y)
  BY <1>1 DEF LateDaysUncovered, Usage, ExpiryDate, Entitlement, YearDays, account
<1>3. b \in Bookings
  BY LeaveStaysTyped DEF LeaveTypeOK
<1>4. CASE \A d : Covered(booked', d) <=> Covered(booked, d)
  <2>1. Usage(booked', y) = Usage(booked, y)
    BY <1>4, UsageSame DEF Years
  <2> QED
    BY <1>2, <2>1 DEF LateDaysUncovered
<1>5. ASSUME NEW others \in SUBSET booked, booked' = others \cup {b}, Acceptable(b, others)
      PROVE  LateDaysUncovered(y) \/ (QuotaSpansExpiry(y) /\ y \notin YearOf(b.from)..YearOf(b.to))
  <2>1. Usage(others \cup {b}, y).post > Entitlement(y)
    BY <1>2, <1>5
  <2> QED
    BY <1>3, <1>5, <2>1, AcceptedExpires
<1> QED
  BY <1>4, <1>5, WhatIsBooked

\* The balance card and the rule count the same days against the same carryover.
LEMMA CardIsRule ==
  ASSUME LeaveTypeOK
  PROVE  CardMatchesRule
<1> SUFFICES ASSUME NEW from \in Days, NEW to \in Days
             PROVE LET range == [from |-> from, to |-> to]
                       y == YearOf(from)
                       cost == Cardinality(InYear(booked \cup {range}, y))
                                 - Cardinality(InYear(booked, y))
                   IN /\ from <= to /\ from >= StartDay
                      /\ OneSide(range, y) /\ ~(QuotaSpansExpiry(y) /\ ~Expired(y))
                      /\ Free(range, booked) /\ cost > 0
                      /\ y >= FirstYear /\ ~LateDaysUncovered(y)
                      => (FitsYear(range, booked, y) <=> cost <= Available(y))
  BY DEF CardMatchesRule
<1> DEFINE b == [from |-> from, to |-> to]
           y == YearOf(from)
           with == booked \cup {b}
           cost == CostOf(with, y) - CostOf(booked, y)
<1> SUFFICES ASSUME from <= to, OneSide(b, y), ~(QuotaSpansExpiry(y) /\ ~Expired(y)), cost > 0,
                    ~LateDaysUncovered(y)
             PROVE  FitsYear(b, booked, y) <=> cost <= Available(y)
  BY DEF CostOf
<1>1. b.from = from /\ b.to = to /\ from \in Int /\ to \in Int /\ y \in Years /\ y \in Int
  BY YearOfDay DEF Years
<1>2. YearOf(b.from) = y /\ YearOf(b.to) = y
      /\ IF Expired(y) THEN from > ExpiryDate(y) ELSE to <= ExpiryDate(y)
  BY <1>1 DEF OneSide
<1>3. \A d : Covered(with, d) <=> Covered(booked, d) \/ Within(d, b)
  BY CoveredWith
<1>4. expiry \in Int /\ today \in Int
  BY ExpiryIs DEF LeaveTypeOK, Days
<1> HIDE DEF y
<1> HIDE DEF with
<1>5. CarryInto(with)[y] = CarryInto(booked)[y]
  <2>1. ASSUME NEW z \in Years, z < y PROVE Usage(with, z) = Usage(booked, z)
    <3>1. z \in Int
      BY DEF Years
    <3>2. \A d \in FirstDay(z)..LastDay(z) : ~Within(d, b)
      BY <1>1, <1>2, <2>1, <3>1, OtherYear
    <3> QED
      BY <1>3, <3>1, <3>2, UsageSame
  <2> HIDE DEF b
  <2> QED
    BY <1>1, <2>1, CarrySame
<1>6. Carryover(y) = CarryInto(booked)[y] /\ CarryoverWith(b, booked, y) = CarryInto(booked)[y]
  BY <1>5 DEF Carryover, CarryoverWith, with
<1> DEFINE used == Usage(booked, y)
           then == Usage(with, y)
           e == Entitlement(y)
           c == CarryInto(booked)[y]
<1>7. /\ ExpiryDate(y) \in Int
      /\ used.pre \in Nat /\ used.post \in Nat /\ CostOf(booked, y) = used.pre + used.post
      /\ then.pre \in Nat /\ then.post \in Nat /\ CostOf(with, y) = then.pre + then.post
  BY <1>1, <1>4, UsageIs
<1>8. e \in Nat /\ c \in Nat
  BY <1>1, EntitlementIs, CarryType
<1>9. used.post <= e
  BY <1>7, <1>8 DEF LateDaysUncovered
<1> DEFINE pre == used.pre + NotNegative(then.pre - used.pre)
           post == used.post + NotNegative(then.post - used.post)
<1>10. FitsYear(b, booked, y) <=>
         /\ IF Expired(y) THEN NotNegative(pre - c) + post <= e ELSE pre + post <= e + c
         /\ post <= NotNegative(e - NotNegative(pre - c))
  BY <1>6 DEF FitsYear, with
<1>11. Available(y) = IF Expired(y) THEN e - NotNegative(used.pre - c) - used.post
                                    ELSE e + c - used.pre - used.post
  BY <1>6 DEF Available
<1>12. CASE Expired(y)
  <2>1. then.pre = used.pre
    <3>1. ASSUME NEW d \in FirstDay(y)..LastDay(y), d <= ExpiryDate(y) PROVE ~Within(d, b)
      BY <1>1, <1>2, <1>7, <1>12, <3>1, YearBounds DEF Within
    <3> QED
      BY <1>1, <1>3, <1>4, <3>1, EarlySame
  <2> HIDE DEF used, then, e, c
  <2>2. then.post > used.post
    BY <1>7, <2>1
  <2>3. pre = used.pre /\ post = then.post
    BY <1>7, <2>1, <2>2, NotNegativeIs
  <2> HIDE DEF pre, post
  <2> DEFINE own == NotNegative(used.pre - c)
  <2>4. own \in Nat
    BY <1>7, <1>8, NotNegativeIs
  <2>5. NotNegative(pre - c) = own
    BY <2>3
  <2> HIDE DEF own
  <2>6. NotNegative(e - own) = IF e - own >= 0 THEN e - own ELSE 0
    BY <1>8, <2>4, NotNegativeIs
  <2>7. FitsYear(b, booked, y) <=> own + then.post <= e
    BY <1>7, <1>8, <1>10, <1>12, <2>3, <2>4, <2>5, <2>6
  <2>8. Available(y) = e - own - used.post
    BY <1>11, <1>12 DEF own
  <2> QED
    BY <1>7, <1>8, <2>1, <2>4, <2>7, <2>8
<1>13. CASE ~Expired(y)
  <2>1. then.post = used.post
    <3>1. ASSUME NEW d \in FirstDay(y)..LastDay(y), d > ExpiryDate(y) PROVE ~Within(d, b)
      BY <1>1, <1>2, <1>7, <1>13, <3>1, YearBounds DEF Within
    <3>2. ~QuotaSpansExpiry(y)
      BY <1>13
    <3>3. Usage(with, y).post <= Usage(booked, y).post /\ Usage(booked, y).post <= Usage(with, y).post
      BY <1>1, <1>3, <1>4, <3>1, <3>2, LateFewer
    <3> QED
      BY <1>7, <3>3
  <2> HIDE DEF used, then, e, c
  <2>2. then.pre > used.pre
    BY <1>7, <2>1
  <2>3. pre = then.pre /\ post = used.post
    BY <1>7, <2>1, <2>2, NotNegativeIs
  <2> HIDE DEF pre, post
  <2>4. NotNegative(then.pre - c) = IF then.pre - c >= 0 THEN then.pre - c ELSE 0
    BY <1>7, <1>8, NotNegativeIs
  <2> DEFINE own == NotNegative(then.pre - c)
  <2>5. own \in Nat
    BY <1>7, <1>8, <2>4
  <2>6. NotNegative(pre - c) = own
    BY <2>3
  <2>7. NotNegative(e - own) = IF e - own >= 0 THEN e - own ELSE 0
    BY <1>8, <2>5, NotNegativeIs
  <2>8. Available(y) = e + c - used.pre - used.post
    BY <1>11, <1>13
  <2>9. FitsYear(b, booked, y) <=> then.pre + used.post <= e + c /\ used.post <= NotNegative(e - own)
    BY <1>10, <1>13, <2>3, <2>6
  <2> QED
    BY <1>7, <1>8, <1>9, <2>1, <2>4, <2>5, <2>7, <2>8, <2>9
<1> QED
  BY <1>12, <1>13

-----------------------------------------------------------------------------
(* The theorems on the leave account: of its own steps, and of the run that *)
(* checks it beside the other computations.                                 *)

\* Every year's days, the expiry and the bookings stay what the tables hold.
THEOREM LeaveTyped == Spec => []LeaveTypeOK
<1>1. Init => LeaveTypeOK
  BY LeaveStartsTyped
<1>2. LeaveTypeOK /\ [Next]_vars => LeaveTypeOK'
  BY LeaveStaysTyped
<1> QED
  BY <1>1, <1>2, PTL DEF Spec

LeavePart == part = "leave" => LeaveTypeOK

LEMMA LeavePartSteps ==
  ASSUME [MCNext]_all, part = "leave"
  PROVE  [Next]_vars /\ part' = part
<1>1. CASE UNCHANGED all
  BY <1>1 DEF all
<1>2. CASE MCNext
  BY <1>2 DEF MCNext
<1> QED
  BY <1>1, <1>2

LEMMA LeavePartTyped == MCSpec => []LeavePart
<1>1. MCInit => LeavePart
  BY LeaveStartsTyped DEF MCInit, LeavePart
<1>2. ASSUME LeavePart, [MCNext]_all PROVE LeavePart'
  <2>1. part' = part
    BY <1>2 DEF MCNext, all
  <2> QED
    BY <1>2, <2>1, LeavePartSteps, LeaveStaysTyped DEF LeavePart
<1> QED
  BY <1>1, <1>2, PTL DEF MCSpec

\* No request, edit or decision takes the years up to its own beyond what they
\* give together, carryover included, for any quota, expiry, month of entry and
\* number of bookings and years: the rule, which looks at one year at a time and
\* at what the years before leave, adds up.
THEOREM YearsStayBacked == (Spec => BackedByEntitlement) /\ (MCSpec => LeaveBacked)
<1>1. LeaveTypeOK /\ [Next]_vars => [Backed]_vars
  BY BackedStep
<1>2. LeavePart /\ [MCNext]_all => [part = "leave" => Backed]_all
  BY LeavePartSteps, BackedStep DEF LeavePart
<1>3. Spec => BackedByEntitlement
  BY <1>1, LeaveTyped, PTL DEF Spec, BackedByEntitlement
<1>4. MCSpec => LeaveBacked
  BY <1>2, LeavePartTyped, PTL DEF MCSpec, LeaveBacked
<1> QED
  BY <1>3, <1>4

\* Carryover never pays for a day after its expiry, whenever the day was asked
\* for, edited or approved and whatever day it is meanwhile.
THEOREM CarryoverAlwaysExpires ==
  (Spec => CarryoverExpires) /\ (MCSpec => LeaveCarryoverExpires)
<1>1. LeaveTypeOK /\ [Next]_vars => [LateDaysStayCovered]_vars
  BY ExpiryStep
<1>2. LeavePart /\ [MCNext]_all => [part = "leave" => LateDaysStayCovered]_all
  BY LeavePartSteps, ExpiryStep DEF LeavePart
<1>3. Spec => CarryoverExpires
  BY <1>1, LeaveTyped, PTL DEF Spec, CarryoverExpires
<1>4. MCSpec => LeaveCarryoverExpires
  BY <1>2, LeavePartTyped, PTL DEF MCSpec, LeaveCarryoverExpires
<1> QED
  BY <1>3, <1>4

\* What the balance card shows as available is what the rule for requests lets
\* through: compute_balances and validate_leave_account_year, two pieces of code
\* that count the same days, never disagree.
THEOREM CardAlwaysMatches ==
  (Spec => []CardMatchesRule) /\ (MCSpec => []LeaveCardMatchesRule)
<1>1. LeaveTypeOK => CardMatchesRule
  BY CardIsRule
<1>2. LeavePart => LeaveCardMatchesRule
  BY CardIsRule DEF LeavePart, LeaveCardMatchesRule
<1>3. Spec => []CardMatchesRule
  BY <1>1, LeaveTyped, PTL
<1>4. MCSpec => []LeaveCardMatchesRule
  BY <1>2, LeavePartTyped, PTL
<1> QED
  BY <1>3, <1>4

-----------------------------------------------------------------------------
(* Dated rows: the histories of a contract. *)

\* One row a day.
Dated(rows) ==
  /\ \A r \in rows : r.from \in C!Days
  /\ \A r, s \in rows : r.from = s.from => r = s

LEMMA ContractDay == \A d \in C!Days : d \in Nat \ {0} /\ d <= ContractDays /\ C!Days \subseteq Nat
  BY BalancesAssumption DEF C!Days

LEMMA EarliestIs ==
  ASSUME NEW rows, Dated(rows), rows # {}
  PROVE  C!Earliest(rows) \in rows /\ \A s \in rows : C!Earliest(rows).from <= s.from
<1> DEFINE T == {r.from : r \in rows}
<1>1. T \in SUBSET Nat /\ T # {}
  BY ContractDay DEF Dated
<1>2. PICK m \in T : \A n \in T : m <= n
  BY <1>1, LeastNumber
<1>3. \E r \in rows : \A s \in rows : r.from <= s.from
  BY <1>2
<1> QED
  BY <1>3 DEF C!Earliest

LEMMA LatestIs ==
  ASSUME NEW rows, Dated(rows), NEW S \in SUBSET rows, S # {}
  PROVE  C!Latest(S) \in S /\ \A s \in S : s.from <= C!Latest(S).from
<1> DEFINE T == {ContractDays - r.from : r \in S}
<1>1. T \in SUBSET Nat /\ T # {}
  BY ContractDay, BalancesAssumption DEF Dated
<1>2. PICK m \in T : \A n \in T : m <= n
  BY <1>1, LeastNumber
<1>3. PICK r \in S : m = ContractDays - r.from
  BY <1>2
<1>4. ASSUME NEW s \in S PROVE s.from <= r.from
  <2>1. m <= ContractDays - s.from
    BY <1>2
  <2> QED
    BY <1>3, <2>1, ContractDay, BalancesAssumption DEF Dated
<1> QED
  BY <1>4 DEF C!Latest

\* The row that nobody follows is the latest.
LEMMA LatestOnly ==
  ASSUME NEW rows, Dated(rows), NEW S \in SUBSET rows, NEW r \in S, \A s \in S : s.from <= r.from
  PROVE  C!Latest(S) = r
<1>1. C!Latest(S) \in S /\ r.from <= C!Latest(S).from /\ C!Latest(S).from <= r.from
  BY LatestIs
<1>2. r.from \in Nat /\ C!Latest(S).from \in Nat
  BY <1>1, ContractDay DEF Dated
<1> QED
  BY <1>1, <1>2 DEF Dated

\* The row a day is judged by.
InForce(rows, d) ==
  IF C!Begun(rows, d) # {} THEN C!Latest(C!Begun(rows, d)) ELSE C!Earliest(rows)

\* Moving the first row back leaves every day its row.
LEMMA FirstMovedBack ==
  ASSUME NEW rows, Dated(rows), rows # {}, NEW m, NEW f \in C!Days, m.from = f,
         f < C!Earliest(rows).from, NEW d \in Int, f <= d
  PROVE  LET e == C!Earliest(rows)
             moved == (rows \ {e}) \cup {m}
         IN /\ Dated(moved) /\ C!Begun(moved, d) # {}
            /\ \/ InForce(moved, d) = InForce(rows, d)
               \/ InForce(moved, d) = m /\ InForce(rows, d) = e
<1> DEFINE e == C!Earliest(rows)
           moved == (rows \ {e}) \cup {m}
<1>1. e \in rows /\ \A s \in rows : e.from <= s.from
  BY EarliestIs
<1>2. \A s \in rows : s.from \in Nat /\ f < s.from
  BY <1>1, ContractDay DEF Dated
<1> HIDE DEF e
<1>3. f \in Nat /\ m \in moved
  BY ContractDay
<1>4. Dated(moved)
  BY <1>2, <1>3 DEF Dated
<1>5. m \in C!Begun(moved, d)
  BY DEF C!Begun
<1>6. CASE C!Begun(rows, d) = {}
  <2>1. C!Begun(moved, d) = {m}
    BY <1>5, <1>6 DEF C!Begun
  <2>2. C!Latest({m}) = m
    BY <1>4, <1>3, LatestOnly
  <2> QED
    BY <1>4, <1>6, <2>1, <2>2 DEF InForce, e
<1>7. CASE C!Begun(rows, d) # {}
  <2> DEFINE r == C!Latest(C!Begun(rows, d))
  <2>1. r \in C!Begun(rows, d) /\ \A s \in C!Begun(rows, d) : s.from <= r.from
    BY <1>7, LatestIs DEF C!Begun
  <2>2. r \in rows /\ r.from <= d
    BY <2>1 DEF C!Begun
  <2>3. InForce(rows, d) = r
    BY <1>7 DEF InForce
  <2> HIDE DEF r
  <2>4. CASE r = e
    <3>1. \A s \in C!Begun(rows, d) : s = e
      BY <1>1, <1>2, <2>1, <2>4 DEF Dated, C!Begun
    <3>2. C!Begun(moved, d) = {m}
      BY <1>5, <3>1 DEF C!Begun
    <3>3. C!Latest({m}) = m
      BY <1>4, <1>3, LatestOnly
    <3> QED
      BY <1>4, <2>3, <2>4, <3>2, <3>3 DEF InForce, e
  <2>5. CASE r # e
    <3>1. r \in C!Begun(moved, d)
      BY <2>2, <2>5 DEF C!Begun
    <3>2. \A s \in C!Begun(moved, d) : s.from <= r.from
      BY <1>2, <1>3, <2>1, <2>2 DEF C!Begun
    <3>3. C!Latest(C!Begun(moved, d)) = r
      BY <1>4, <3>1, <3>2, LatestOnly DEF C!Begun
    <3> QED
      BY <1>4, <2>3, <3>1, <3>3 DEF InForce, e
  <2> QED
    BY <2>4, <2>5
<1> QED
  BY <1>6, <1>7

\* A row written for a day says nothing of the days before.
LEMMA WrittenLater ==
  ASSUME NEW rows, Dated(rows), NEW row, row.from \in C!Days
  PROVE  /\ Dated(C!Upsert(rows, row))
         /\ \A d \in Int : d < row.from => C!Begun(C!Upsert(rows, row), d) = C!Begun(rows, d)
<1>1. Dated(C!Upsert(rows, row))
  BY DEF Dated, C!Upsert
<1>2. ASSUME NEW d \in Int, d < row.from
      PROVE  C!Begun(C!Upsert(rows, row), d) = C!Begun(rows, d)
  BY <1>2, ContractDay DEF C!Begun, C!Upsert
<1> QED
  BY <1>1, <1>2

\* Rows that repeat the hours before them may go.
LEMMA DistinctKeeps ==
  ASSUME NEW rows, Dated(rows)
  PROVE  /\ Dated(C!Distinct(rows))
         /\ \A d \in Nat : C!Begun(rows, d) # {} =>
              /\ C!Begun(C!Distinct(rows), d) # {}
              /\ InForce(C!Distinct(rows), d).hours = InForce(rows, d).hours
<1> DEFINE kept == C!Distinct(rows)
           Keeps(d) == C!Begun(rows, d) # {} =>
              /\ C!Begun(kept, d) # {}
              /\ InForce(kept, d).hours = InForce(rows, d).hours
           Bad == {d \in Nat : ~Keeps(d)}
<1>1. kept \subseteq rows
  BY DEF C!Distinct
<1>2. Dated(kept)
  BY <1>1 DEF Dated
<1>3. SUFFICES ASSUME Bad # {} PROVE FALSE
  BY <1>2
<1>4. PICK n \in Bad : \A d \in Bad : n <= d
  <2> HIDE DEF Bad
  <2>1. Bad \in SUBSET Nat
    BY DEF Bad
  <2> QED
    BY <1>3, <2>1, LeastNumber
<1>5. n \in Nat /\ ~Keeps(n) /\ C!Begun(rows, n) # {}
  BY <1>4
<1>6. n # 0 /\ n - 1 \in Nat
  <2>1. PICK r \in rows : r.from <= n
    BY <1>5 DEF C!Begun
  <2>2. r.from \in Nat \ {0}
    BY ContractDay DEF Dated
  <2> QED
    BY <1>5, <2>1, <2>2
<1>7. Keeps(n - 1)
  <2>1. ~(n <= n - 1)
    BY <1>6
  <2> QED
    BY <1>4, <1>6, <2>1
<1> HIDE DEF Bad
<1> HIDE DEF kept
<1>8. CASE \A r \in rows : r.from # n
  <2>1. \A r \in rows : r.from <= n <=> r.from <= n - 1
    BY <1>5, <1>6, <1>8, ContractDay DEF Dated
  <2>2. C!Begun(rows, n) = C!Begun(rows, n - 1) /\ C!Begun(kept, n) = C!Begun(kept, n - 1)
    BY <1>1, <2>1 DEF C!Begun
  <2> QED
    BY <1>5, <1>7, <2>2 DEF InForce
<1>9. ASSUME NEW r \in rows, r.from = n PROVE FALSE
  <2>1. r \in C!Begun(rows, n) /\ \A s \in C!Begun(rows, n) : s.from <= r.from
    BY <1>5, <1>9 DEF C!Begun
  <2>2. InForce(rows, n) = r
    BY <2>1, LatestOnly DEF InForce, C!Begun
  <2>3. CASE r \in kept
    <3>1. r \in C!Begun(kept, n) /\ \A s \in C!Begun(kept, n) : s.from <= r.from
      BY <1>5, <1>9, <2>3 DEF C!Begun
    <3>2. InForce(kept, n) = r
      BY <1>2, <3>1, LatestOnly DEF InForce, C!Begun
    <3> QED
      BY <1>5, <2>2, <3>1, <3>2
  <2>4. CASE r \notin kept
    <3> DEFINE before == C!Begun(rows, n - 1)
    <3>1. before # {} /\ C!Latest(before).hours = r.hours
      <4>1. r.from - 1 = n - 1
        BY <1>9
      <4> QED
        BY <2>4, <4>1 DEF C!Distinct, kept
    <3>2. InForce(rows, n - 1).hours = r.hours
      BY <3>1 DEF InForce
    <3>3. \A s \in kept : s.from <= n <=> s.from <= n - 1
      <4> TAKE s \in kept
      <4>1. s.from \in Nat /\ s.from # n
        BY <1>1, <1>9, <2>4, ContractDay DEF Dated
      <4> QED
        BY <1>5, <1>6, <4>1
    <3>4. C!Begun(kept, n) = C!Begun(kept, n - 1)
      BY <3>3 DEF C!Begun
    <3> QED
      BY <1>5, <1>7, <2>2, <3>1, <3>2, <3>4 DEF InForce
  <2> QED
    BY <2>3, <2>4
<1> QED
  BY <1>8, <1>9

-----------------------------------------------------------------------------
(* The state of a contract. *)

Pattern == [from : C!Days, days : SUBSET C!Weekdays]
Rate == [from : C!Days, hours : Nat]

ContractTypeOK ==
  /\ today \in C!Days /\ start \in C!Days
  /\ role \in C!Roles /\ tracks \in BOOLEAN /\ archived \in BOOLEAN
  /\ count \in Nat /\ hours \in Nat
  /\ patterns \in SUBSET Pattern /\ Dated(patterns)
  /\ rates \in SUBSET Rate /\ Dated(rates)

\* A contract with a target has a pattern from its first day on.
StartHasPattern == C!HasTarget(role, tracks) => \E r \in patterns : r.from <= start

LEMMA ContractMaxIs ==
  ASSUME NEW a \in Int, NEW b \in Int
  PROVE  C!Max({a, b}) = IF a >= b THEN a ELSE b
  BY DEF C!Max

LEMMA ContractMinIs ==
  ASSUME NEW a \in Int, NEW b \in Int
  PROVE  C!Min({a, b}) = IF a <= b THEN a ELSE b
  BY DEF C!Min

LEMMA ContractCardinality == \A S : C!Cardinality(S) = Cardinality(S)
  BY DEF C!Cardinality, Cardinality

LEMMA WeekdaysFinite ==
  /\ IsFiniteSet(C!Weekdays)
  /\ \A days \in SUBSET C!Weekdays : Cardinality(days) \in Nat
<1>1. IsFiniteSet(C!Weekdays)
  BY LeaveAssumption, FS_Interval DEF C!Weekdays
<1> QED
  BY <1>1, FS_Subset, FS_CardinalityType

LEMMA DefaultIsPattern ==
  ASSUME NEW n \in Nat
  PROVE  C!DefaultWeekdays(n) \in SUBSET C!Weekdays
<1>1. C!Min({n, WeekLength}) \in Int /\ C!Min({n, WeekLength}) <= WeekLength
  BY LeaveAssumption, ContractMinIs
<1> QED
  BY <1>1, LeaveAssumption DEF C!DefaultWeekdays, C!Weekdays

LEMMA PatternExtended ==
  ASSUME NEW rows \in SUBSET Pattern, Dated(rows), rows # {}, NEW f \in C!Days
  PROVE  LET ext == C!ExtendEarliest(rows, f)
         IN /\ ext \in SUBSET Pattern /\ Dated(ext)
            /\ \E r \in ext : r.from <= f
            /\ \A d \in Int : f <= d => /\ C!Begun(ext, d) # {}
                                        /\ InForce(ext, d).days = InForce(rows, d).days
<1> DEFINE e == C!Earliest(rows)
           m == [e EXCEPT !.from = f]
           ext == C!ExtendEarliest(rows, f)
           Goal == /\ ext \in SUBSET Pattern /\ Dated(ext)
                   /\ \E r \in ext : r.from <= f
                   /\ \A d \in Int : f <= d => /\ C!Begun(ext, d) # {}
                                               /\ InForce(ext, d).days = InForce(rows, d).days
<1> SUFFICES Goal
  OBVIOUS
<1>1. e \in rows /\ e \in Pattern
  BY EarliestIs
<1>2. m \in Pattern /\ m.from = f /\ m.days = e.days
  BY <1>1 DEF Pattern
<1>3. e.from \in Nat /\ f \in Nat
  BY <1>1, ContractDay DEF Pattern
<1>4. CASE e.from <= f
  <2>1. ext = rows
    BY <1>4 DEF C!ExtendEarliest
  <2>2. \A d \in Int : f <= d => e \in C!Begun(ext, d)
    BY <1>1, <1>3, <1>4, <2>1 DEF C!Begun
  <2>3. \E r \in ext : r.from <= f
    BY <1>1, <1>4, <2>1
  <2>4. \A d \in Int : f <= d => C!Begun(ext, d) # {} /\ InForce(ext, d).days = InForce(rows, d).days
    BY <2>1, <2>2
  <2> HIDE DEF ext
  <2> QED
    BY <2>1, <2>3, <2>4
<1>5. CASE f < e.from
  <2>1. ext = (rows \ {e}) \cup {m}
    BY <1>3, <1>5 DEF C!ExtendEarliest
  <2>2. ASSUME NEW d \in Int, f <= d
        PROVE  /\ Dated(ext) /\ C!Begun(ext, d) # {}
               /\ \/ InForce(ext, d) = InForce(rows, d)
                  \/ InForce(ext, d) = m /\ InForce(rows, d) = e
    <3> HIDE DEF m
    <3>1. QED
      BY <1>2, <1>5, <2>1, <2>2, FirstMovedBack
  <2>3. Dated(ext)
    BY <1>3, <2>2
  <2>4. \E r \in ext : r.from <= f
    <3>1. m \in ext /\ m.from <= f
      BY <1>2, <1>3, <2>1
    <3> HIDE DEF m, ext
    <3> QED
      BY <3>1
  <2>5. ext \in SUBSET Pattern
    BY <1>2, <2>1
  <2> HIDE DEF ext, m, e
  <2> QED
    BY <1>2, <2>2, <2>3, <2>4, <2>5
<1> HIDE DEF Goal
<1> QED
  BY <1>3, <1>4, <1>5

LEMMA RatesExtended ==
  ASSUME NEW rows \in SUBSET Rate, Dated(rows), NEW f \in C!Days
  PROVE  LET ext == C!ExtendEarliest(rows, f)
         IN /\ ext \in SUBSET Rate /\ Dated(ext)
            /\ rows = {} => ext = {}
            /\ \A d \in Int : rows # {} /\ f <= d => /\ C!Begun(ext, d) # {}
                                                     /\ InForce(ext, d).hours = InForce(rows, d).hours
<1> DEFINE e == C!Earliest(rows)
           m == [e EXCEPT !.from = f]
           ext == C!ExtendEarliest(rows, f)
<1>0. CASE rows = {}
  <2>1. ext = rows
    BY <1>0 DEF C!ExtendEarliest
  <2> QED
    BY <1>0, <2>1
<1> SUFFICES ASSUME rows # {}
             PROVE  /\ ext \in SUBSET Rate /\ Dated(ext)
                    /\ \A d \in Int : f <= d => /\ C!Begun(ext, d) # {}
                                                /\ InForce(ext, d).hours = InForce(rows, d).hours
  BY <1>0
<1>1. e \in rows /\ e \in Rate
  BY EarliestIs
<1>2. m \in Rate /\ m.from = f /\ m.hours = e.hours
  BY <1>1 DEF Rate
<1>3. e.from \in Nat /\ f \in Nat
  BY <1>1, ContractDay DEF Rate
<1>4. CASE e.from <= f
  <2>1. ext = rows
    BY <1>4 DEF C!ExtendEarliest
  <2>2. \A d \in Int : f <= d => e \in C!Begun(ext, d)
    BY <1>1, <1>3, <1>4, <2>1 DEF C!Begun
  <2> QED
    BY <1>1, <1>4, <2>1, <2>2
<1>5. CASE f < e.from
  <2>1. ext = (rows \ {e}) \cup {m}
    BY <1>3, <1>5 DEF C!ExtendEarliest
  <2>2. ASSUME NEW d \in Int, f <= d
        PROVE  /\ Dated(ext) /\ C!Begun(ext, d) # {}
               /\ \/ InForce(ext, d) = InForce(rows, d)
                  \/ InForce(ext, d) = m /\ InForce(rows, d) = e
    <3> HIDE DEF m
    <3>1. QED
      BY <1>2, <1>5, <2>1, <2>2, FirstMovedBack
  <2>3. Dated(ext)
    BY <1>3, <2>2
  <2> QED
    BY <1>2, <1>3, <2>1, <2>2, <2>3
<1> QED
  BY <1>3, <1>4, <1>5

-----------------------------------------------------------------------------
(* What a saved form leaves. *)

LatestDay == C!Max({today, start'})
HoursFrom(form) == C!Either(form.from, LatestDay)
Extended(form) ==
  C!ExtendEarliest(
    C!Ensure(patterns, start', IF form.days # {} THEN form.days ELSE C!DefaultWeekdays(count')), start')
Pulled == C!ExtendEarliest(rates, start')

LEMMA SaveIs ==
  ASSUME NEW form, C!Save(form)
  PROVE  /\ role' = form.role /\ tracks' = C!NewTracks(form.role, form)
         /\ start' = C!NewStart(C!NewTracks(form.role, form), form)
         /\ count' = C!NewCount(form.role, form)
         /\ ~C!HasTarget(role', tracks') =>
              /\ hours' = C!Either(form.hours, hours) /\ UNCHANGED <<patterns, rates>>
         /\ C!HasTarget(role', tracks') =>
              /\ \/ patterns' = Extended(form)
                 \/ /\ form.days # {}
                    /\ patterns' = C!Upsert(Extended(form), [from |-> LatestDay, days |-> form.days])
                 \/ patterns' = C!AlignDayCount(Extended(form), LatestDay, count')
              /\ \/ rates' = Pulled /\ UNCHANGED hours
                 \/ /\ form.hours # C!Unset
                    /\ start' <= HoursFrom(form) /\ HoursFrom(form) <= LatestDay
                    /\ rates' = C!RecordHours(Pulled, start', hours, HoursFrom(form), form.hours)
                    /\ hours' = C!Latest(rates').hours
                    /\ dated' = HoursFrom(form)
<1>1. /\ role' = form.role /\ tracks' = C!NewTracks(form.role, form)
      /\ start' = C!NewStart(C!NewTracks(form.role, form), form)
      /\ count' = C!NewCount(form.role, form)
  BY DEF C!Save
<1>2. ~C!HasTarget(role', tracks') =>
        hours' = C!Either(form.hours, hours) /\ UNCHANGED <<patterns, rates>>
  BY <1>1 DEF C!Save
<1>3. C!HasTarget(role', tracks') =>
        \/ patterns' = Extended(form)
        \/ /\ form.days # {}
           /\ patterns' = C!Upsert(Extended(form), [from |-> LatestDay, days |-> form.days])
        \/ patterns' = C!AlignDayCount(Extended(form), LatestDay, count')
  BY <1>1 DEF C!Save, Extended, LatestDay
<1>4. C!HasTarget(role', tracks') =>
        \/ rates' = Pulled /\ UNCHANGED hours
        \/ /\ form.hours # C!Unset
           /\ start' <= HoursFrom(form) /\ HoursFrom(form) <= LatestDay
           /\ rates' = C!RecordHours(Pulled, start', hours, HoursFrom(form), form.hours)
           /\ hours' = C!Latest(rates').hours
           /\ dated' = HoursFrom(form)
  BY <1>1 DEF C!Save, Pulled, LatestDay, HoursFrom
<1> QED
  BY <1>1, <1>2, <1>3, <1>4

LEMMA FormIs ==
  ASSUME NEW form \in C!Forms
  PROVE  /\ form.role \in C!Roles /\ form.tracks \in BOOLEAN
         /\ form.hours \in HourCounts \cup {C!Unset}
         /\ form.from \in C!Days \cup {C!Unset} /\ form.start \in C!Days \cup {C!Unset}
         /\ form.count \in C!Weekdays \cup {C!Unset} /\ form.days \in SUBSET C!Weekdays
  BY DEF C!Forms

LEMMA SavedFields ==
  ASSUME ContractTypeOK, NEW form \in C!Forms, C!Save(form)
  PROVE  /\ role' \in C!Roles /\ tracks' \in BOOLEAN /\ start' \in C!Days /\ count' \in Nat
         /\ LatestDay \in C!Days /\ start' <= LatestDay /\ today <= LatestDay
         /\ HoursFrom(form) \in C!Days
<1>1. role' \in C!Roles /\ tracks' \in BOOLEAN
  BY SaveIs, FormIs DEF C!NewTracks
<1>2. start' \in C!Days
  BY SaveIs, FormIs DEF ContractTypeOK, C!NewStart, C!Either
<1>3. count' \in Nat
  <2>1. Cardinality(form.days) \in Nat
    BY FormIs, WeekdaysFinite
  <2>2. C!NoFixedDays \in Nat /\ WeekLength \in Nat /\ C!Weekdays \subseteq Nat
    BY LeaveAssumption DEF C!NoFixedDays, C!Weekdays
  <2>3. form.count # C!Unset => form.count \in Nat
    BY <2>2, FormIs
  <2>4. count \in Nat /\ count' = C!NewCount(form.role, form)
    BY SaveIs DEF ContractTypeOK
  <2>5. CASE form.role = "assistant"
    BY <2>2, <2>4, <2>5 DEF C!NewCount
  <2>6. CASE form.role # "assistant" /\ form.days # {}
    BY <2>1, <2>4, <2>6, ContractCardinality DEF C!NewCount
  <2>7. CASE form.role # "assistant" /\ form.days = {} /\ form.count # C!Unset
    BY <2>3, <2>4, <2>7 DEF C!NewCount
  <2>8. CASE form.role # "assistant" /\ form.days = {} /\ form.count = C!Unset
    BY <2>2, <2>4, <2>8 DEF C!NewCount
  <2> QED
    BY <2>5, <2>6, <2>7, <2>8
<1>4. LatestDay \in C!Days /\ start' <= LatestDay /\ today <= LatestDay
  <2>1. today \in Int /\ start' \in Int /\ today \in C!Days
    BY <1>2, ContractDay DEF ContractTypeOK
  <2> QED
    BY <1>2, <2>1, ContractMaxIs DEF LatestDay
<1>5. HoursFrom(form) \in C!Days
  BY <1>4, FormIs DEF HoursFrom, C!Either
<1> QED
  BY <1>1, <1>2, <1>3, <1>4, <1>5

LEMMA ExtendedIs ==
  ASSUME ContractTypeOK, NEW form \in C!Forms, C!Save(form)
  PROVE  /\ Extended(form) \in SUBSET Pattern /\ Dated(Extended(form))
         /\ \E r \in Extended(form) : r.from <= start'
         /\ \A d \in Int : start' <= d =>
              /\ C!Begun(Extended(form), d) # {}
              /\ patterns # {} => InForce(Extended(form), d).days = InForce(patterns, d).days
<1> DEFINE days == IF form.days # {} THEN form.days ELSE C!DefaultWeekdays(count')
           rows == C!Ensure(patterns, start', days)
<1>1. start' \in C!Days /\ days \in SUBSET C!Weekdays
  BY SavedFields, FormIs, DefaultIsPattern
<1> HIDE DEF days
<1>2. rows \in SUBSET Pattern /\ Dated(rows) /\ rows # {}
  <2> DEFINE row == [from |-> start', days |-> days]
  <2>1. row \in Pattern
    BY <1>1 DEF Pattern
  <2>2. CASE patterns = {}
    <3>1. rows = {row}
      BY <2>2 DEF C!Ensure
    <3>2. row.from \in C!Days
      BY <1>1
    <3> HIDE DEF row, rows
    <3> QED
      BY <2>1, <3>1, <3>2 DEF Dated
  <2>3. CASE patterns # {}
    BY <2>3 DEF C!Ensure, ContractTypeOK
  <2> QED
    BY <2>2, <2>3
<1>3. patterns # {} => rows = patterns
  BY DEF C!Ensure
<1>4. Extended(form) = C!ExtendEarliest(rows, start')
  BY DEF Extended, days
<1> HIDE DEF rows
<1> QED
  BY <1>1, <1>2, <1>3, <1>4, PatternExtended

LEMMA PatternsSaved ==
  ASSUME ContractTypeOK, NEW form \in C!Forms, C!Save(form), C!HasTarget(role', tracks')
  PROVE  /\ patterns' \in SUBSET Pattern /\ Dated(patterns')
         /\ \E r \in patterns' : r.from <= start'
         /\ \A d \in Int : start' <= d /\ d < today =>
              C!Begun(patterns', d) = C!Begun(Extended(form), d)
<1> DEFINE ext == Extended(form)
<1>1. ext \in SUBSET Pattern /\ Dated(ext) /\ \E r \in ext : r.from <= start'
  BY ExtendedIs
<1>2. /\ start' \in C!Days /\ start' \in Nat /\ count' \in Nat
      /\ LatestDay \in C!Days /\ LatestDay \in Nat /\ start' <= LatestDay /\ today <= LatestDay
      /\ today \in Nat
  BY SavedFields, ContractDay DEF ContractTypeOK
<1> HIDE DEF ext
<1>3. ASSUME NEW days \in SUBSET C!Weekdays
      PROVE  LET written == C!Upsert(ext, [from |-> LatestDay, days |-> days])
             IN /\ written \in SUBSET Pattern /\ Dated(written)
                /\ \E r \in written : r.from <= start'
                /\ \A d \in Int : d < today => C!Begun(written, d) = C!Begun(ext, d)
  <2> DEFINE row == [from |-> LatestDay, days |-> days]
             written == C!Upsert(ext, row)
  <2>1. row \in Pattern /\ row.from = LatestDay
    BY <1>2, <1>3 DEF Pattern
  <2> HIDE DEF row
  <2>2. written \in SUBSET Pattern
    BY <1>1, <2>1 DEF C!Upsert
  <2>3. Dated(written) /\ \A d \in Int : d < LatestDay => C!Begun(written, d) = C!Begun(ext, d)
    BY <1>1, <1>2, <2>1, WrittenLater
  <2>4. \E r \in written : r.from <= start'
    <3>1. PICK r \in ext : r.from <= start'
      BY <1>1
    <3>2. r.from \in Nat
      BY <1>1, ContractDay DEF Dated
    <3>3. CASE r.from = LatestDay
      <4>1. row \in written /\ row.from <= start'
        BY <2>1, <3>1, <3>3 DEF C!Upsert
      <4> QED
        BY <4>1
    <3>4. CASE r.from # LatestDay
      BY <2>1, <3>1, <3>4 DEF C!Upsert
    <3> QED
      BY <3>3, <3>4
  <2> QED
    BY <1>2, <2>2, <2>3, <2>4 DEF row
<1>4. \/ patterns' = ext
      \/ \E days \in SUBSET C!Weekdays :
           patterns' = C!Upsert(ext, [from |-> LatestDay, days |-> days])
  <2>1. C!DefaultWeekdays(count') \in SUBSET C!Weekdays
    BY <1>2, DefaultIsPattern
  <2> QED
    BY <2>1, SaveIs, FormIs DEF C!AlignDayCount, ext
<1> QED
  BY <1>1, <1>3, <1>4 DEF ext

LEMMA HoursOnIs ==
  ASSUME NEW d
  PROVE  /\ C!HoursOn(d) = IF rates = {} THEN hours ELSE InForce(rates, d).hours
         /\ C!HoursOn(d)' = IF rates' = {} THEN hours' ELSE InForce(rates', d).hours
  BY DEF C!HoursOn, InForce, C!Begun

\* New hours are written beside what was in force until the day they begin.
LEMMA HoursRecorded ==
  ASSUME NEW rows \in SUBSET Rate, Dated(rows), NEW first \in C!Days, NEW from \in C!Days,
         first <= from, NEW old \in Nat, NEW new \in Nat
  PROVE  LET written == C!RecordHours(rows, first, old, from, new)
         IN /\ written \in SUBSET Rate /\ Dated(written) /\ written # {}
            /\ \A d \in Nat : d < from /\ C!Begun(rows, d) # {} =>
                 written # {} /\ InForce(written, d).hours = InForce(rows, d).hours
            /\ \A d \in Nat : d < from /\ first <= d /\ rows = {} /\ old > 0 =>
                 written # {} /\ InForce(written, d).hours = old
<1> DEFINE row == [from |-> C!Min({first, from}), hours |-> old]
           start1 == IF old > 0 /\ rows = {} THEN {row} ELSE rows
           next == [from |-> from, hours |-> new]
           all1 == C!Upsert(start1, next)
           written == C!Distinct(all1)
           Goal == /\ written \in SUBSET Rate /\ Dated(written) /\ written # {}
                   /\ \A d \in Nat : d < from /\ C!Begun(rows, d) # {} =>
                        written # {} /\ InForce(written, d).hours = InForce(rows, d).hours
                   /\ \A d \in Nat : d < from /\ first <= d /\ rows = {} /\ old > 0 =>
                        written # {} /\ InForce(written, d).hours = old
<1>0. SUFFICES Goal
  BY DEF C!RecordHours
<1>1. first \in Nat /\ from \in Nat
  BY ContractDay
<1>2. row \in Rate /\ row.from = first /\ row.hours = old
  BY <1>1, ContractMinIs DEF Rate
<1>3. next \in Rate /\ next.from = from
  BY DEF Rate
<1> HIDE DEF row, next
<1>4. start1 \in SUBSET Rate /\ Dated(start1)
  BY <1>2 DEF Dated
<1> HIDE DEF start1
<1>5. all1 \in SUBSET Rate /\ next \in all1
  BY <1>3, <1>4 DEF C!Upsert
<1>6. Dated(all1) /\ \A d \in Int : d < from => C!Begun(all1, d) = C!Begun(start1, d)
  BY <1>3, <1>4, WrittenLater
<1> HIDE DEF all1
<1>7. Dated(written) /\ \A d \in Nat : C!Begun(all1, d) # {} =>
        C!Begun(written, d) # {} /\ InForce(written, d).hours = InForce(all1, d).hours
  BY <1>6, DistinctKeeps
<1>8. written \in SUBSET Rate
  BY <1>5 DEF C!Distinct
<1> HIDE DEF written
<1>9. written # {}
  <2>1. next \in C!Begun(all1, from)
    BY <1>1, <1>3, <1>5 DEF C!Begun
  <2>2. C!Begun(written, from) # {}
    BY <1>1, <1>7, <2>1
  <2> QED
    BY <2>2 DEF C!Begun
<1>10. ASSUME NEW d \in Nat, d < from, C!Begun(rows, d) # {}
       PROVE  InForce(written, d).hours = InForce(rows, d).hours
  <2>1. rows # {}
    BY <1>10 DEF C!Begun
  <2>2. start1 = rows
    BY <2>1 DEF start1
  <2>3. C!Begun(all1, d) = C!Begun(rows, d)
    BY <1>6, <1>10, <2>2
  <2>4. InForce(all1, d) = InForce(rows, d)
    BY <1>10, <2>3 DEF InForce
  <2> QED
    BY <1>7, <1>10, <2>3, <2>4
<1>11. ASSUME NEW d \in Nat, d < from, first <= d, rows = {}, old > 0
       PROVE  InForce(written, d).hours = old
  <2>1. start1 = {row}
    BY <1>11 DEF start1
  <2>2. C!Begun(all1, d) = {row}
    BY <1>2, <1>6, <1>11, <2>1 DEF C!Begun
  <2>3. C!Latest({row}) = row
    BY <1>1, <1>2, <1>4, <2>1, LatestOnly
  <2> QED
    BY <1>2, <1>7, <2>2, <2>3 DEF InForce
<1> QED
  BY <1>7, <1>8, <1>9, <1>10, <1>11

LEMMA RatesSaved ==
  ASSUME ContractTypeOK, NEW form \in C!Forms, C!Save(form), C!HasTarget(role', tracks')
  PROVE  /\ rates' \in SUBSET Rate /\ Dated(rates') /\ hours' \in Nat
         /\ \A d \in Nat : /\ start' <= d /\ ~(rates = {} /\ hours = 0)
                           /\ ~(dated' # 0 /\ dated' <= d)
                           => C!HoursOn(d)' = C!HoursOn(d)
<1>1. start' \in C!Days /\ start' \in Nat /\ HoursFrom(form) \in C!Days /\ HoursFrom(form) \in Nat \ {0}
  BY SavedFields, ContractDay
<1>2. rates \in SUBSET Rate /\ Dated(rates) /\ hours \in Nat
  BY DEF ContractTypeOK
<1>3. /\ Pulled \in SUBSET Rate /\ Dated(Pulled)
      /\ rates = {} => Pulled = {}
      /\ \A d \in Int : rates # {} /\ start' <= d =>
           C!Begun(Pulled, d) # {} /\ InForce(Pulled, d).hours = InForce(rates, d).hours
  BY <1>1, <1>2, RatesExtended DEF Pulled
<1>4. CASE rates' = Pulled /\ UNCHANGED hours
  <2>1. rates' \in SUBSET Rate /\ Dated(rates') /\ hours' \in Nat
    BY <1>2, <1>3, <1>4
  <2>2. ASSUME NEW d \in Nat, start' <= d PROVE C!HoursOn(d)' = C!HoursOn(d)
    <3>1. CASE rates = {}
      BY <1>3, <1>4, <3>1, HoursOnIs
    <3>2. CASE rates # {}
      <4>1. C!Begun(Pulled, d) # {} /\ InForce(Pulled, d).hours = InForce(rates, d).hours
        BY <1>3, <2>2, <3>2
      <4>2. Pulled # {}
        BY <4>1 DEF C!Begun
      <4> QED
        BY <1>4, <3>2, <4>1, <4>2, HoursOnIs
    <3> QED
      BY <3>1, <3>2
  <2> QED
    BY <2>1, <2>2
<1>5. ASSUME form.hours # C!Unset, start' <= HoursFrom(form),
             rates' = C!RecordHours(Pulled, start', hours, HoursFrom(form), form.hours),
             hours' = C!Latest(rates').hours, dated' = HoursFrom(form)
      PROVE  /\ rates' \in SUBSET Rate /\ Dated(rates') /\ hours' \in Nat
             /\ \A d \in Nat : /\ start' <= d /\ ~(rates = {} /\ hours = 0)
                               /\ ~(dated' # 0 /\ dated' <= d)
                               => C!HoursOn(d)' = C!HoursOn(d)
  <2>1. form.hours \in Nat
    BY <1>5, FormIs, BalancesAssumption
  <2> DEFINE from == HoursFrom(form)
             written == C!RecordHours(Pulled, start', hours, from, form.hours)
  <2>2. /\ written \in SUBSET Rate /\ Dated(written) /\ written # {}
        /\ \A d \in Nat : d < from /\ C!Begun(Pulled, d) # {} =>
             InForce(written, d).hours = InForce(Pulled, d).hours
        /\ \A d \in Nat : d < from /\ start' <= d /\ Pulled = {} /\ hours > 0 =>
             InForce(written, d).hours = hours
    BY <1>1, <1>2, <1>3, <1>5, <2>1, HoursRecorded
  <2> HIDE DEF written, from
  <2>3. rates' = written /\ dated' = from /\ from \in Nat \ {0}
    BY <1>1, <1>5 DEF written, from
  <2>4. hours' \in Nat
    <3>1. C!Latest(written) \in written
      BY <2>2, LatestIs
    <3> QED
      BY <1>5, <2>2, <2>3, <3>1 DEF Rate
  <2>5. ASSUME NEW d \in Nat, start' <= d, ~(rates = {} /\ hours = 0), ~(dated' # 0 /\ dated' <= d)
        PROVE  C!HoursOn(d)' = C!HoursOn(d)
    <3>1. d < from
      BY <2>3, <2>5
    <3>2. C!HoursOn(d)' = InForce(written, d).hours
      BY <2>2, <2>3, HoursOnIs
    <3>3. CASE rates = {}
      <4>1. Pulled = {} /\ hours > 0
        BY <1>2, <1>3, <2>5, <3>3
      <4>2. C!HoursOn(d) = hours
        BY <3>3, HoursOnIs
      <4> QED
        BY <2>2, <2>5, <3>1, <3>2, <4>1, <4>2
    <3>4. CASE rates # {}
      <4>1. C!HoursOn(d) = InForce(rates, d).hours
        BY <3>4, HoursOnIs
      <4> QED
        BY <1>3, <2>2, <2>5, <3>1, <3>2, <3>4, <4>1
    <3> QED
      BY <3>3, <3>4
  <2> QED
    BY <2>2, <2>3, <2>4, <2>5
<1> QED
  BY <1>4, <1>5, SaveIs

-----------------------------------------------------------------------------
(* Every step of a contract. *)

ContractInv == ContractTypeOK /\ StartHasPattern

LEMMA ContractStarts == C!Init => ContractInv
<1> SUFFICES ASSUME C!Init PROVE ContractInv
  OBVIOUS
<1>1. today \in C!Days /\ start \in C!Days /\ role \in C!Roles /\ tracks \in BOOLEAN /\ archived \in BOOLEAN
  <2>1. today \in C!Days
    BY BalancesAssumption DEF C!Init, C!Days
  <2>2. role \in C!Roles /\ tracks \in BOOLEAN
    BY DEF C!Init
  <2>3. start \in C!Days /\ archived \in BOOLEAN
    BY DEF C!Init
  <2> QED
    BY <2>1, <2>2, <2>3
<1>2. hours \in Nat
  BY BalancesAssumption DEF C!Init
<1>3. PICK days \in C!Patterns :
        /\ count = IF role = "assistant" THEN C!NoFixedDays ELSE C!Cardinality(days)
        /\ patterns = IF C!HasTarget(role, tracks) THEN {[from |-> start, days |-> days]} ELSE {}
  BY DEF C!Init
<1>4. days \in SUBSET C!Weekdays
  BY DEF C!Patterns
<1>5. count \in Nat
  BY <1>3, <1>4, WeekdaysFinite, ContractCardinality, LeaveAssumption DEF C!NoFixedDays
<1> DEFINE row == [from |-> start, days |-> days]
<1>6. row \in Pattern /\ row.from = start
  BY <1>1, <1>4 DEF Pattern
<1>7. patterns = {row} \/ (patterns = {} /\ ~C!HasTarget(role, tracks))
  BY <1>3
<1> HIDE DEF row
<1>8. patterns \in SUBSET Pattern /\ Dated(patterns)
  BY <1>1, <1>6, <1>7 DEF Dated
<1>9. rates \in SUBSET Rate /\ Dated(rates)
  <2>1. rates = {}
    BY DEF C!Init
  <2> QED
    BY <2>1 DEF Dated
<1>10. StartHasPattern
  <2>1. CASE patterns = {row}
    <3>1. start <= start
      BY <1>1, ContractDay
    <3> QED
      BY <1>6, <2>1, <3>1 DEF StartHasPattern
  <2> QED
    BY <1>7, <2>1 DEF StartHasPattern
<1> QED
  BY <1>1, <1>2, <1>5, <1>8, <1>9, <1>10 DEF ContractInv, ContractTypeOK

\* A pattern in force on a past day stays in force.
LEMMA PatternOnIs ==
  ASSUME NEW d
  PROVE  /\ C!Begun(patterns, d) # {} => C!PatternOn(d) = InForce(patterns, d).days
         /\ C!Begun(patterns', d) # {} => C!PatternOn(d)' = InForce(patterns', d).days
  BY DEF C!PatternOn, InForce, C!Begun

LEMMA StartsBegun ==
  ASSUME ContractInv, C!HasTarget(role, tracks), NEW d \in Nat, start <= d
  PROVE  C!Begun(patterns, d) # {} /\ patterns # {}
<1>1. PICK r \in patterns : r.from <= start
  BY DEF ContractInv, StartHasPattern
<1>2. r.from \in Nat /\ start \in Nat
  BY ContractDay DEF ContractInv, ContractTypeOK, Dated
<1>3. r \in C!Begun(patterns, d)
  BY <1>1, <1>2 DEF C!Begun
<1> QED
  BY <1>3 DEF C!Begun

LEMMA TargetStays ==
  ASSUME ContractTypeOK, start' \in C!Days, NEW d \in Nat, start <= d, start' <= d,
         C!HasTarget(role, tracks), C!HasTarget(role', tracks'),
         C!PatternOn(d)' = C!PatternOn(d), C!HoursOn(d)' = C!HoursOn(d)
  PROVE  C!Target(d)' = C!Target(d)
<1>1. ~(d < start) /\ ~(d < start')
  BY ContractDay DEF ContractTypeOK
<1> QED
  BY <1>1 DEF C!Target

LEMMA PastDay ==
  ASSUME ContractTypeOK, NEW d \in start..(today - 1)
  PROVE  d \in Nat /\ start <= d /\ d < today
<1>1. start \in Nat /\ today \in Nat
  BY ContractDay DEF ContractTypeOK
<1> QED
  BY <1>1

LEMMA UpdateSteps ==
  ASSUME ContractInv, C!Update
  PROVE  ContractInv' /\ C!PastStands
<1>1. PICK form \in C!Forms : C!Save(form)
  BY DEF C!Update
<1>2. UNCHANGED <<today, archived>>
  BY DEF C!Update
<1>3. ContractTypeOK
  BY DEF ContractInv
<1>4. role' \in C!Roles /\ tracks' \in BOOLEAN /\ start' \in C!Days /\ count' \in Nat
  BY <1>1, <1>3, SavedFields
<1>5. CASE ~C!HasTarget(role', tracks')
  <2>1. UNCHANGED <<patterns, rates>> /\ hours' = C!Either(form.hours, hours)
    BY <1>1, <1>5, SaveIs
  <2>2. hours' \in Nat
    BY <1>1, <1>3, <2>1, FormIs, BalancesAssumption DEF C!Either, ContractTypeOK
  <2>3. ContractTypeOK'
    BY <1>2, <1>3, <1>4, <2>1, <2>2 DEF ContractTypeOK
  <2>4. StartHasPattern'
    BY <1>5 DEF StartHasPattern, C!HasTarget
  <2>5. C!PastStands
    BY <1>5 DEF C!PastStands
  <2> QED
    BY <2>3, <2>4, <2>5 DEF ContractInv
<1>6. CASE C!HasTarget(role', tracks')
  <2>1. /\ patterns' \in SUBSET Pattern /\ Dated(patterns')
        /\ \E r \in patterns' : r.from <= start'
        /\ \A d \in Int : start' <= d /\ d < today =>
             C!Begun(patterns', d) = C!Begun(Extended(form), d)
    BY <1>1, <1>3, <1>6, PatternsSaved
  <2>2. /\ rates' \in SUBSET Rate /\ Dated(rates') /\ hours' \in Nat
        /\ \A d \in Nat : /\ start' <= d /\ ~(rates = {} /\ hours = 0)
                          /\ ~(dated' # 0 /\ dated' <= d)
                          => C!HoursOn(d)' = C!HoursOn(d)
    BY <1>1, <1>3, <1>6, RatesSaved
  <2>3. ContractTypeOK'
    BY <1>2, <1>3, <1>4, <2>1, <2>2 DEF ContractTypeOK
  <2>4. StartHasPattern'
    BY <2>1 DEF StartHasPattern
  <2>5. C!PastStands
    <3> SUFFICES ASSUME NEW d \in start..(today - 1), C!HasTarget(role, tracks), start' <= d,
                        ~(rates = {} /\ hours = 0), ~(dated' # 0 /\ dated' <= d)
                 PROVE  C!Target(d)' = C!Target(d)
      BY DEF C!PastStands
    <3>1. d \in Nat /\ start <= d /\ d < today
      BY <1>3, PastDay
    <3>2. C!Begun(patterns, d) # {} /\ patterns # {}
      BY <3>1, StartsBegun
    <3>3. /\ C!Begun(Extended(form), d) # {}
          /\ InForce(Extended(form), d).days = InForce(patterns, d).days
      BY <1>1, <1>3, <3>1, <3>2, ExtendedIs
    <3>4. C!Begun(patterns', d) = C!Begun(Extended(form), d)
      BY <2>1, <3>1
    <3>5. InForce(patterns', d) = InForce(Extended(form), d)
      BY <3>3, <3>4 DEF InForce
    <3>6. C!PatternOn(d)' = C!PatternOn(d)
      BY <3>2, <3>3, <3>4, <3>5, PatternOnIs
    <3>7. C!HoursOn(d)' = C!HoursOn(d)
      BY <2>2, <3>1
    <3> QED
      BY <1>3, <1>4, <1>6, <3>1, <3>6, <3>7, TargetStays
  <2> QED
    BY <2>3, <2>4, <2>5 DEF ContractInv
<1> QED
  BY <1>5, <1>6

LEMMA RestoreSteps ==
  ASSUME ContractInv, C!Restore
  PROVE  ContractInv' /\ C!PastStands
<1>1. ContractTypeOK
  BY DEF ContractInv
<1>2. UNCHANGED <<today, role, tracks, count, hours, rates>> /\ archived' = FALSE
  BY DEF C!Restore
<1>3. start' \in C!Days
  BY <1>1 DEF C!Restore, C!Either, ContractTypeOK
<1>4. CASE ~C!HasTarget(role, tracks)
  <2>1. patterns' = patterns
    BY <1>4 DEF C!Restore
  <2>2. ContractTypeOK'
    BY <1>1, <1>2, <1>3, <2>1 DEF ContractTypeOK
  <2>3. StartHasPattern'
    BY <1>2, <1>4 DEF StartHasPattern, C!HasTarget
  <2>4. C!PastStands
    BY <1>4 DEF C!PastStands
  <2> QED
    BY <2>2, <2>3, <2>4 DEF ContractInv
<1>5. CASE C!HasTarget(role, tracks)
  <2>1. patterns # {}
    BY <1>5 DEF ContractInv, StartHasPattern
  <2>2. patterns' = C!ExtendEarliest(patterns, start')
    BY <1>5, <2>1 DEF C!Restore, C!Ensure
  <2>3. /\ patterns' \in SUBSET Pattern /\ Dated(patterns')
        /\ \E r \in patterns' : r.from <= start'
        /\ \A d \in Int : start' <= d => /\ C!Begun(patterns', d) # {}
                                         /\ InForce(patterns', d).days = InForce(patterns, d).days
    BY <1>1, <1>3, <2>1, <2>2, PatternExtended DEF ContractTypeOK
  <2>4. ContractTypeOK'
    BY <1>1, <1>2, <1>3, <2>3 DEF ContractTypeOK
  <2>5. StartHasPattern'
    BY <2>3 DEF StartHasPattern
  <2>6. C!PastStands
    <3> SUFFICES ASSUME NEW d \in start..(today - 1), start' <= d, C!HasTarget(role', tracks')
                 PROVE  C!Target(d)' = C!Target(d)
      BY DEF C!PastStands
    <3>1. d \in Nat /\ start <= d /\ d < today
      BY <1>1, PastDay
    <3>2. C!Begun(patterns, d) # {}
      BY <1>5, <3>1, StartsBegun
    <3>3. C!PatternOn(d)' = C!PatternOn(d)
      BY <2>3, <3>1, <3>2, PatternOnIs
    <3>4. C!HoursOn(d)' = C!HoursOn(d)
      BY <1>2, HoursOnIs
    <3> QED
      BY <1>1, <1>3, <1>5, <3>1, <3>3, <3>4, TargetStays
  <2> QED
    BY <2>4, <2>5, <2>6 DEF ContractInv
<1> QED
  BY <1>4, <1>5

LEMMA ContractSteps ==
  ASSUME ContractInv, [C!Next]_(C!vars)
  PROVE  ContractInv' /\ C!PastStands
<1>1. CASE UNCHANGED <<role, tracks, start, count, hours, patterns, rates>>
           /\ today' \in C!Days /\ archived' \in BOOLEAN
  <2>1. ContractInv'
    BY <1>1 DEF ContractInv, ContractTypeOK, StartHasPattern, C!HasTarget
  <2>2. C!PastStands
    BY <1>1 DEF C!PastStands, C!Target, C!HoursOn, C!PatternOn, C!HasTarget
  <2> QED
    BY <2>1, <2>2
<1>2. CASE C!Archive
  BY <1>1, <1>2 DEF C!Archive, ContractInv, ContractTypeOK
<1>3. CASE C!NextDay
  <2>1. today \in C!Days /\ archived \in BOOLEAN
    BY DEF ContractInv, ContractTypeOK
  <2>2. today' \in C!Days
    BY <1>3, <2>1, BalancesAssumption DEF C!NextDay, C!Days
  <2> QED
    BY <1>1, <1>3, <2>1, <2>2 DEF C!NextDay
<1>4. CASE UNCHANGED C!vars
  BY <1>1, <1>4 DEF C!vars, ContractInv, ContractTypeOK
<1> QED
  BY <1>2, <1>3, <1>4, UpdateSteps, RestoreSteps DEF C!Next

ContractPart == part = "contract" => ContractInv

LEMMA ContractPartSteps ==
  ASSUME [MCNext]_all, part = "contract"
  PROVE  [C!Next]_(C!vars) /\ part' = part
<1>1. CASE UNCHANGED all
  BY <1>1 DEF all, vars, contract, C!vars
<1>2. CASE MCNext
  BY <1>2 DEF MCNext
<1> QED
  BY <1>1, <1>2

\* What a past day of the contract asked for stands: no form, archiving or
\* restoration changes it, for any number of forms and any dates on them, but for
\* the days an admin dates new hours to and the first hours a contract gets.
\* update_tx extends the histories, writes a row and removes the rows that repeat
\* the one before; nothing keeps the targets computed from them.
THEOREM PastAlwaysStands == (C!Spec => C!PastTargetsStand) /\ (MCSpec => ContractPastStands)
<1>1. C!Init => ContractInv
  BY ContractStarts
<1>2. ContractInv /\ [C!Next]_(C!vars) => ContractInv' /\ [C!PastStands]_(C!vars)
  BY ContractSteps
<1>3. C!Spec => C!PastTargetsStand
  BY <1>1, <1>2, PTL DEF C!Spec, C!PastTargetsStand
<1>4. MCInit => ContractPart
  BY ContractStarts DEF MCInit, ContractPart
<1>5. ASSUME ContractPart, [MCNext]_all
      PROVE  ContractPart' /\ [part = "contract" => C!PastStands]_all
  <2>1. part' = part
    BY <1>5 DEF MCNext, all
  <2> QED
    BY <1>5, <2>1, ContractPartSteps, ContractSteps DEF ContractPart
<1>6. MCSpec => ContractPastStands
  BY <1>4, <1>5, PTL DEF MCSpec, ContractPastStands
<1> QED
  BY <1>3, <1>6

-----------------------------------------------------------------------------
(* Sums of the flextime account. *)

LEMMA SumUnion ==
  ASSUME NEW S, IsFiniteSet(S), NEW T, IsFiniteSet(T), S \cap T = {}, NEW g,
         \A x \in S \cup T : g[x] \in Int
  PROVE  /\ Sum(g, S) \in Int /\ Sum(g, T) \in Int
         /\ Sum(g, S \cup T) = Sum(g, S) + Sum(g, T)
<1> DEFINE Adds(t) == Sum(g, S \cup t) = Sum(g, S) + Sum(g, t)
           Bad == {n \in Nat : \E t \in SUBSET T : Cardinality(t) = n /\ ~Adds(t)}
<1>1. Sum(g, S) \in Int /\ Sum(g, T) \in Int
  BY SumTake
<1>2. SUFFICES ASSUME Bad # {} PROVE FALSE
  <2>1. SUFFICES ASSUME ~Adds(T) PROVE Bad # {}
    BY <1>1, <1>2
  <2>2. Cardinality(T) \in Nat
    BY FS_CardinalityType
  <2> QED
    BY <2>1, <2>2
<1>3. PICK n \in Bad : \A k \in Bad : n <= k
  <2> HIDE DEF Bad
  <2>1. Bad \in SUBSET Nat
    BY DEF Bad
  <2> QED
    BY <1>2, <2>1, LeastNumber
<1>4. PICK t \in SUBSET T : Cardinality(t) = n /\ ~Adds(t)
  BY <1>3
<1>5. IsFiniteSet(t) /\ n \in Nat
  BY <1>3, FS_Subset
<1>6. t # {}
  <2>1. Sum(g, {}) = 0 /\ S \cup {} = S
    BY SumOfNone
  <2>2. Adds({})
    BY <1>1, <2>1
  <2> QED
    BY <1>4, <2>2
<1> DEFINE x == First(t)
           rest == t \ {x}
<1>7. x \in t /\ IsFiniteSet(rest) /\ Cardinality(rest) = n - 1 /\ n - 1 \in Nat
  BY <1>4, <1>5, <1>6, FirstIsMember, FewerLeft
<1> HIDE DEF x
<1>8. Adds(rest)
  <2>1. ~(n <= n - 1)
    BY <1>5
  <2>2. rest \in SUBSET T
    BY <1>4
  <2> QED
    BY <1>3, <1>7, <2>1, <2>2
<1>9. Sum(g, t) = g[x] + Sum(g, rest) /\ Sum(g, rest) \in Int /\ g[x] \in Int
  <2>1. (\A y \in t : g[y] \in Int) /\ \A y \in rest : g[y] \in Int
    BY <1>4
  <2> QED
    BY <1>5, <1>7, <2>1, SumTake
<1>10. Sum(g, S \cup t) = g[x] + Sum(g, S \cup rest)
  <2>1. S \cup t = (S \cup rest) \cup {x} /\ x \notin S \cup rest
    BY <1>4, <1>7
  <2>2. IsFiniteSet(S \cup rest)
    BY <1>7, FS_Union
  <2>3. \A y \in (S \cup rest) \cup {x} : g[y] \in Int
    BY <1>4, <1>7
  <2> HIDE DEF rest
  <2> QED
    BY <2>1, <2>2, <2>3, SumAdd
<1> QED
  BY <1>1, <1>4, <1>8, <1>9, <1>10

LEMMA SumOfZeros ==
  ASSUME NEW S, IsFiniteSet(S), NEW g, \A x \in S : g[x] = 0
  PROVE  Sum(g, S) = 0
<1> DEFINE Bad == {n \in Nat : \E t \in SUBSET S : Cardinality(t) = n /\ Sum(g, t) # 0}
<1>2. SUFFICES ASSUME Bad # {} PROVE FALSE
  <2>1. SUFFICES ASSUME Sum(g, S) # 0 PROVE Bad # {}
    BY <1>2
  <2>2. Cardinality(S) \in Nat
    BY FS_CardinalityType
  <2> QED
    BY <2>1, <2>2
<1>3. PICK n \in Bad : \A k \in Bad : n <= k
  <2> HIDE DEF Bad
  <2>1. Bad \in SUBSET Nat
    BY DEF Bad
  <2> QED
    BY <1>2, <2>1, LeastNumber
<1>4. PICK t \in SUBSET S : Cardinality(t) = n /\ Sum(g, t) # 0
  BY <1>3
<1>5. IsFiniteSet(t) /\ n \in Nat
  BY <1>3, FS_Subset
<1>6. t # {}
  BY <1>4, SumOfNone
<1> DEFINE x == First(t)
           rest == t \ {x}
<1>7. x \in t /\ Cardinality(rest) = n - 1 /\ n - 1 \in Nat
  BY <1>4, <1>5, <1>6, FirstIsMember, FewerLeft
<1>8. Sum(g, rest) = 0
  <2>1. ~(n <= n - 1)
    BY <1>5
  <2>2. rest \in SUBSET S
    BY <1>4
  <2> QED
    BY <1>3, <1>7, <2>1, <2>2
<1>9. Sum(g, t) = g[x] + Sum(g, rest)
  BY <1>5, <1>6, SumStep
<1> HIDE DEF x, rest
<1> QED
  BY <1>4, <1>7, <1>8, <1>9

LEMMA MinutesIs ==
  ASSUME NEW rows, IsFiniteSet(rows), NEW g, \A r \in rows : g[r] = r.minutes
  PROVE  F!Minutes(rows) = Sum(g, rows)
<1> DEFINE Body(s, f) == IF s = {} THEN 0
                         ELSE (CHOOSE x \in s : TRUE).minutes + f[s \ {CHOOSE x \in s : TRUE}]
           sum == CHOOSE f : f = [s \in SUBSET rows |-> Body(s, f)]
<1>1. F!Minutes(rows) = sum[rows]
  BY DEF F!Minutes, F!SumOver, F!MapThenSumSet, F!MapThenFoldSet
<1>3. ASSUME NEW f, NEW s \in SUBSET rows
      PROVE  Body(s, f) = SumRule(g, s, f)
  <2>1. s # {} => g[First(s)] = First(s).minutes
    BY FirstIsMember
  <2>2. QED
    BY <2>1 DEF SumRule, First
<1>4. ASSUME NEW f
      PROVE  Sums(g, rows, f) <=> f = [s \in SUBSET rows |-> Body(s, f)]
  <2> HIDE DEF Body
  <2>1. QED
    BY <1>3 DEF Sums
<1>5. Sums(g, rows, sum)
  <2>1. PICK f : Sums(g, rows, f)
    BY SumExists
  <2>2. f = [s \in SUBSET rows |-> Body(s, f)]
    BY <1>4, <2>1
  <2> HIDE DEF Body
  <2>3. sum = [s \in SUBSET rows |-> Body(s, sum)]
    BY <2>2
  <2>4. QED
    BY <1>4, <2>3
<1>6. QED
  <2> HIDE DEF sum
  <2>1. QED
    BY <1>1, <1>5, SumIs

\* What each day of the weeks that count adds.
DayDiff == [d \in Int |-> F!Actual(d) - F!Target(d)]
Counting(from, to) == {d \in from..to : F!WeekOf(d) \in F!ApprovedWeeks}

LEMMA RangeDiffIs ==
  ASSUME NEW from \in Int, NEW to \in Int
  PROVE  F!RangeDiff(from, to) = Sum(DayDiff, Counting(from, to))
<1> DEFINE S == Counting(from, to)
           Body(s, f) == IF s = {} THEN 0
                         ELSE (F!Actual(CHOOSE x \in s : TRUE) - F!Target(CHOOSE x \in s : TRUE))
                                + f[s \ {CHOOSE x \in s : TRUE}]
           sum == CHOOSE f : f = [s \in SUBSET S |-> Body(s, f)]
<1>1. F!RangeDiff(from, to) = sum[S]
  BY DEF F!RangeDiff, F!SumOver, F!MapThenSumSet, F!MapThenFoldSet, Counting
<1>2. IsFiniteSet(S) /\ S \subseteq Int
  <2>1. IsFiniteSet(from..to)
    BY FS_Interval
  <2> QED
    BY <2>1, FS_Subset DEF Counting
<1> HIDE DEF S
<1>3. ASSUME NEW f, NEW s \in SUBSET S
      PROVE  Body(s, f) = SumRule(DayDiff, s, f)
  <2>1. s # {} => DayDiff[First(s)] = F!Actual(First(s)) - F!Target(First(s))
    BY <1>2, FirstIsMember DEF DayDiff
  <2>2. QED
    BY <2>1 DEF SumRule, First
<1>4. ASSUME NEW f
      PROVE  Sums(DayDiff, S, f) <=> f = [s \in SUBSET S |-> Body(s, f)]
  <2> HIDE DEF Body
  <2>1. QED
    BY <1>3 DEF Sums
<1>5. Sums(DayDiff, S, sum)
  <2>1. PICK f : Sums(DayDiff, S, f)
    BY <1>2, SumExists
  <2>2. f = [s \in SUBSET S |-> Body(s, f)]
    BY <1>4, <2>1
  <2> HIDE DEF Body
  <2>3. sum = [s \in SUBSET S |-> Body(s, sum)]
    BY <2>2
  <2>4. QED
    BY <1>4, <2>3
<1>6. QED
  <2> HIDE DEF sum
  <2>1. QED
    BY <1>1, <1>2, <1>5, SumIs DEF S

MonthDiff == [k \in Int |-> F!Contribution(k) + F!OfMonth(k)]

LEMMA CumulativeIs ==
  ASSUME NEW m \in Int, F!MonthOf(start) \in Int
  PROVE  F!Cumulative(m) = Sum(MonthDiff, F!MonthOf(start)..m)
<1> DEFINE S == F!MonthOf(start)..m
           Body(s, f) == IF s = {} THEN 0
                         ELSE (F!Contribution(CHOOSE x \in s : TRUE) + F!OfMonth(CHOOSE x \in s : TRUE))
                                + f[s \ {CHOOSE x \in s : TRUE}]
           sum == CHOOSE f : f = [s \in SUBSET S |-> Body(s, f)]
<1>1. F!Cumulative(m) = sum[S]
  BY DEF F!Cumulative, F!SumOver, F!MapThenSumSet, F!MapThenFoldSet
<1>2. IsFiniteSet(S) /\ S \subseteq Int
  BY FS_Interval
<1> HIDE DEF S
<1>3. ASSUME NEW f, NEW s \in SUBSET S
      PROVE  Body(s, f) = SumRule(MonthDiff, s, f)
  <2>1. s # {} => MonthDiff[First(s)] = F!Contribution(First(s)) + F!OfMonth(First(s))
    BY <1>2, FirstIsMember DEF MonthDiff
  <2>2. QED
    BY <2>1 DEF SumRule, First
<1>4. ASSUME NEW f
      PROVE  Sums(MonthDiff, S, f) <=> f = [s \in SUBSET S |-> Body(s, f)]
  <2> HIDE DEF Body
  <2>1. QED
    BY <1>3 DEF Sums
<1>5. Sums(MonthDiff, S, sum)
  <2>1. PICK f : Sums(MonthDiff, S, f)
    BY <1>2, SumExists
  <2>2. f = [s \in SUBSET S |-> Body(s, f)]
    BY <1>4, <2>1
  <2> HIDE DEF Body
  <2>3. sum = [s \in SUBSET S |-> Body(s, sum)]
    BY <2>2
  <2>4. QED
    BY <1>4, <2>3
<1>6. QED
  <2> HIDE DEF sum
  <2>1. QED
    BY <1>1, <1>2, <1>5, SumIs DEF S

-----------------------------------------------------------------------------
(* The days that count. *)

FlexTypeOK ==
  /\ today \in F!Days /\ start \in Starts
  /\ IsFiniteSet(adjusted) /\ \A r \in adjusted : r.day \in Int /\ r.minutes \in Int

LEMMA FlexDates ==
  ASSUME FlexTypeOK
  PROVE  /\ today \in Nat \ {0} /\ today <= FlexDays /\ start \in Nat \ {0} /\ start <= FlexDays
         /\ FlexDays \in Nat
  BY BalancesAssumption DEF FlexTypeOK, F!Days

LEMMA FlexMaxIs ==
  ASSUME NEW a \in Int, NEW b \in Int
  PROVE  F!Max({a, b}) = IF a >= b THEN a ELSE b
  BY DEF F!Max

LEMMA FlexMinIs ==
  ASSUME NEW a \in Int, NEW b \in Int
  PROVE  F!Min({a, b}) = IF a <= b THEN a ELSE b
  BY DEF F!Min

LEMMA ThroughToday ==
  ASSUME FlexTypeOK
  PROVE  /\ F!EffectiveThrough \in Nat /\ today <= F!EffectiveThrough /\ start <= F!EffectiveThrough
         /\ F!EffectiveThrough <= FlexDays
  BY FlexDates, FlexMaxIs DEF F!EffectiveThrough

LEMMA FlexGreatest ==
  ASSUME NEW lo \in Int, NEW hi \in Int, NEW S \in SUBSET (lo..hi), S # {}
  PROVE  F!Max(S) \in S /\ \A x \in S : x <= F!Max(S)
<1> DEFINE T == {hi - x : x \in S}
<1>1. T \in SUBSET Nat /\ T # {}
  <2>1. \A x \in S : hi - x \in Nat
    OBVIOUS
  <2>2. PICK x \in S : TRUE
    OBVIOUS
  <2>3. hi - x \in T
    OBVIOUS
  <2> QED
    BY <2>1, <2>3
<1>2. PICK m \in T : \A n \in T : m <= n
  BY <1>1, LeastNumber
<1>3. PICK y \in S : m = hi - y
  BY <1>2
<1>4. ASSUME NEW x \in S PROVE y >= x
  <2>1. m <= hi - x
    BY <1>2
  <2> QED
    BY <1>3, <2>1
<1>5. F!Max(S) \in S /\ \A x \in S : F!Max(S) >= x
  BY <1>4 DEF F!Max
<1> QED
  BY <1>5

LEMMA WeekIs ==
  ASSUME NEW d \in Int
  PROVE  /\ F!WeekOf(d) \in Int
         /\ WeekLength * F!WeekOf(d) <= d
         /\ d < WeekLength * F!WeekOf(d) + WeekLength
         /\ WeekLength * F!WeekOf(d) \in Int
  BY LeaveAssumption, Quotient DEF F!WeekOf

LEMMA TimesGrows ==
  ASSUME NEW n \in Nat, NEW p \in Int, NEW q \in Int, p <= q
  PROVE  n * p <= n * q /\ n * p \in Int /\ n * q \in Int
<1>1. n * (q - p) >= 0
  OBVIOUS
<1>2. n * (q - p) = n * q - n * p /\ n * p \in Int /\ n * q \in Int
  OBVIOUS
<1> QED
  BY <1>1, <1>2

LEMMA CutoffIs ==
  ASSUME FlexTypeOK
  PROVE  /\ F!Cutoff \in Int /\ start - 1 <= F!Cutoff
         /\ F!Cutoff < start => F!ApprovedWeeks = {}
         /\ F!Cutoff >= start => F!Cutoff < today
         /\ \A d \in Int : F!WeekOf(d) \in F!ApprovedWeeks => d <= F!Cutoff
<1>1. today \in Int /\ start \in Int /\ WeekLength \in Nat \ {0}
  BY FlexDates, LeaveAssumption
<1>2. CASE F!ApprovedWeeks = {}
  <2>1. F!Cutoff = start - 1
    BY <1>2 DEF F!Cutoff
  <2> QED
    BY <1>1, <1>2, <2>1
<1>3. CASE F!ApprovedWeeks # {}
  <2> DEFINE last == F!Max(F!ApprovedWeeks)
  <2>1. F!ApprovedWeeks \in SUBSET (F!WeekOf(start)..(F!WeekOf(today) - 1))
    BY <1>3 DEF F!ApprovedWeeks
  <2>2. F!WeekOf(start) \in Int /\ F!WeekOf(today) \in Int /\ F!WeekOf(today) - 1 \in Int
    BY <1>1, WeekIs
  <2>3. last \in F!ApprovedWeeks /\ \A x \in F!ApprovedWeeks : x <= last
    BY <1>3, <2>1, <2>2, FlexGreatest
  <2>4. F!Cutoff = (last + 1) * WeekLength - 1
    BY <1>3 DEF F!Cutoff
  <2>5. last \in Int /\ F!WeekOf(start) <= last /\ last <= F!WeekOf(today) - 1
    <3>1. last \in F!WeekOf(start)..(F!WeekOf(today) - 1)
      BY <2>1, <2>3
    <3> HIDE DEF last
    <3> QED
      BY <2>2, <3>1
  <2> HIDE DEF last
  <2>6. F!Cutoff = WeekLength * last + WeekLength - 1 /\ WeekLength * last \in Int
    BY <1>1, <2>4, <2>5
  <2>7. WeekLength * F!WeekOf(start) <= WeekLength * last
    BY <1>1, <2>2, <2>5, TimesGrows
  <2>8. start <= F!Cutoff
    BY <1>1, <2>6, <2>7, WeekIs
  <2>9. WeekLength * (last + 1) <= WeekLength * F!WeekOf(today)
    BY <1>1, <2>2, <2>5, TimesGrows
  <2>10. F!Cutoff < today
    <3>1. WeekLength * (last + 1) = WeekLength * last + WeekLength
      BY <1>1, <2>5
    <3> QED
      BY <1>1, <2>6, <2>9, <3>1, WeekIs
  <2>11. ASSUME NEW d \in Int, F!WeekOf(d) \in F!ApprovedWeeks PROVE d <= F!Cutoff
    <3>1. F!WeekOf(d) <= last /\ F!WeekOf(d) \in Int
      BY <2>3, <2>11, WeekIs
    <3>2. WeekLength * F!WeekOf(d) <= WeekLength * last
      BY <1>1, <2>5, <3>1, TimesGrows
    <3> QED
      BY <1>1, <2>6, <3>2, WeekIs
  <2> QED
    BY <1>1, <2>6, <2>8, <2>10, <2>11
<1> QED
  BY <1>2, <1>3

LEMMA DayDiffIs ==
  ASSUME FlexTypeOK, NEW d \in Int
  PROVE  DayDiff[d] \in Int /\ (d < start => DayDiff[d] = 0)
<1>1. F!Actual(d) \in Int /\ F!Target(d) \in Int
  BY BalancesAssumption DEF F!Actual, F!Target
<1>2. d < start => F!Actual(d) = 0 /\ F!Target(d) = 0
  BY FlexDates DEF F!Actual, F!Target
<1> QED
  BY <1>1, <1>2 DEF DayDiff

LEMMA CountingIs ==
  ASSUME NEW a \in Int, NEW b \in Int
  PROVE  IsFiniteSet(Counting(a, b)) /\ Counting(a, b) \subseteq a..b
<1>1. IsFiniteSet(a..b)
  BY FS_Interval
<1> QED
  BY <1>1, FS_Subset DEF Counting

\* What the days up to b have made.
Earned(b) == F!RangeDiff(start, b)

LEMMA EarnedIs ==
  ASSUME FlexTypeOK, NEW b \in Int
  PROVE  Earned(b) \in Int /\ (b < start => Earned(b) = 0)
<1>1. start \in Int
  BY FlexDates
<1>2. Earned(b) = Sum(DayDiff, Counting(start, b))
  BY <1>1, RangeDiffIs DEF Earned
<1>3. IsFiniteSet(Counting(start, b)) /\ \A d \in Counting(start, b) : DayDiff[d] \in Int
  BY <1>1, CountingIs, DayDiffIs
<1>4. b < start => Counting(start, b) = {}
  BY <1>1 DEF Counting
<1> QED
  BY <1>2, <1>3, <1>4, SumTake, SumOfNone

LEMMA RangeSplits ==
  ASSUME FlexTypeOK, NEW a \in Int, NEW b \in Int, a <= b + 1
  PROVE  F!RangeDiff(a, b) = Earned(b) - Earned(a - 1)
<1>1. start \in Int
  BY FlexDates
<1>2. \A x, y \in Int : /\ IsFiniteSet(Counting(x, y)) /\ Counting(x, y) \subseteq Int
                        /\ \A d \in Counting(x, y) : DayDiff[d] \in Int
  BY CountingIs, DayDiffIs
<1>3. F!RangeDiff(a, b) = Sum(DayDiff, Counting(a, b)) /\ Earned(b) = Sum(DayDiff, Counting(start, b))
      /\ Earned(a - 1) = Sum(DayDiff, Counting(start, a - 1))
  BY <1>1, RangeDiffIs DEF Earned
<1>4. Earned(a - 1) \in Int /\ Earned(b) \in Int
  BY EarnedIs
<1>5. CASE start <= a
  <2>1. Counting(start, b) = Counting(start, a - 1) \cup Counting(a, b)
        /\ Counting(start, a - 1) \cap Counting(a, b) = {}
    BY <1>1, <1>5 DEF Counting
  <2>2. Earned(b) = Earned(a - 1) + F!RangeDiff(a, b) /\ F!RangeDiff(a, b) \in Int
    <3> DEFINE S == Counting(start, a - 1)
               T == Counting(a, b)
    <3>1. /\ IsFiniteSet(S) /\ \A d \in S : DayDiff[d] \in Int
          /\ IsFiniteSet(T) /\ \A d \in T : DayDiff[d] \in Int
      BY <1>1, <1>2
    <3> HIDE DEF S, T
    <3>2. Sum(DayDiff, S \cup T) = Sum(DayDiff, S) + Sum(DayDiff, T) /\ Sum(DayDiff, T) \in Int
      <4>1. S \cap T = {} /\ \A d \in S \cup T : DayDiff[d] \in Int
        BY <2>1, <3>1 DEF S, T
      <4> QED
        BY <3>1, <4>1, SumUnion
    <3> QED
      BY <1>3, <2>1, <3>2 DEF S, T
  <2> QED
    BY <1>4, <2>2
<1>6. CASE a < start
  <2> DEFINE before == {d \in Counting(a, b) : d < start}
  <2>1. Counting(a, b) = before \cup Counting(start, b) /\ before \cap Counting(start, b) = {}
    BY <1>1, <1>6 DEF Counting
  <2>2. IsFiniteSet(before) /\ before \subseteq Int
    BY <1>2, FS_Subset
  <2>3. Sum(DayDiff, before) = 0
    <3>1. \A d \in before : DayDiff[d] = 0
      BY <2>2, DayDiffIs
    <3> HIDE DEF before
    <3> QED
      BY <2>2, <3>1, SumOfZeros
  <2> HIDE DEF before
  <2>4. F!RangeDiff(a, b) = Sum(DayDiff, before) + Earned(b)
    <3> DEFINE T == Counting(start, b)
    <3>1. (\A d \in before : DayDiff[d] \in Int) /\ IsFiniteSet(T) /\ \A d \in T : DayDiff[d] \in Int
      BY <1>1, <1>2, <2>2, DayDiffIs
    <3> HIDE DEF T
    <3>2. Sum(DayDiff, before \cup T) = Sum(DayDiff, before) + Sum(DayDiff, T)
      <4>1. before \cap T = {} /\ \A d \in before \cup T : DayDiff[d] \in Int
        BY <2>1, <3>1 DEF T
      <4> QED
        BY <2>2, <3>1, <4>1, SumUnion
    <3> QED
      BY <1>3, <2>1, <3>2 DEF T
  <2>5. Earned(a - 1) = 0
    BY <1>1, <1>6, EarnedIs
  <2> QED
    BY <1>4, <2>3, <2>4, <2>5
<1> QED
  BY <1>1, <1>5, <1>6

\* Nothing counts after the last week that does.
LEMMA EarnedByCutoff ==
  ASSUME FlexTypeOK, NEW b \in Int
  PROVE  /\ F!Cutoff <= b => Earned(b) = Earned(F!Cutoff)
         /\ Earned(F!Min({b, F!Cutoff})) = Earned(b)
         /\ F!Cutoff < start => Earned(b) = 0
<1>1. F!Cutoff \in Int /\ start \in Int
  BY CutoffIs, FlexDates
<1>2. ASSUME F!Cutoff <= b PROVE Earned(b) = Earned(F!Cutoff)
  <2>1. Counting(start, b) = Counting(start, F!Cutoff)
    BY <1>1, <1>2, CutoffIs DEF Counting
  <2> QED
    BY <1>1, <2>1, RangeDiffIs DEF Earned
<1>3. ASSUME F!Cutoff < start PROVE Earned(b) = 0
  <2>1. Counting(start, b) = {}
    BY <1>3, CutoffIs DEF Counting
  <2> QED
    BY <1>1, <2>1, RangeDiffIs, SumOfNone DEF Earned
<1>4. F!Min({b, F!Cutoff}) = IF b <= F!Cutoff THEN b ELSE F!Cutoff
  BY <1>1, FlexMinIs
<1> QED
  BY <1>1, <1>2, <1>3, <1>4

LEMMA RangeEmpty ==
  ASSUME NEW a \in Int, NEW b \in Int, b < a
  PROVE  F!RangeDiff(a, b) = 0
<1>1. Counting(a, b) = {}
  BY DEF Counting
<1> QED
  BY <1>1, RangeDiffIs, SumOfNone

-----------------------------------------------------------------------------
(* The bookings in effect. *)

BookedMinutes == [r \in adjusted |-> r.minutes]

LEMMA EffectiveIs ==
  ASSUME FlexTypeOK, NEW r \in adjusted
  PROVE  F!Effective(r) \in Int /\ start <= F!Effective(r)
  BY FlexDates, FlexMaxIs DEF F!Effective, FlexTypeOK

LEMMA BookedIs ==
  ASSUME FlexTypeOK, NEW rows \in SUBSET adjusted
  PROVE  /\ IsFiniteSet(rows) /\ \A r \in rows : BookedMinutes[r] \in Int
         /\ F!Minutes(rows) = Sum(BookedMinutes, rows) /\ F!Minutes(rows) \in Int
         /\ rows = {} => F!Minutes(rows) = 0
<1>1. IsFiniteSet(rows)
  BY FS_Subset DEF FlexTypeOK
<1>2. \A r \in rows : BookedMinutes[r] = r.minutes /\ BookedMinutes[r] \in Int
  BY DEF BookedMinutes, FlexTypeOK
<1>3. F!Minutes(rows) = Sum(BookedMinutes, rows)
  BY <1>1, <1>2, MinutesIs
<1> QED
  BY <1>1, <1>2, <1>3, SumTake, SumOfNone

LEMMA ThroughIs ==
  ASSUME FlexTypeOK, NEW d \in Int
  PROVE  F!Through(d) \in Int /\ (d < start => F!Through(d) = 0)
<1> DEFINE rows == {r \in adjusted : F!Effective(r) <= d}
<1>1. rows \in SUBSET adjusted /\ F!Through(d) = F!Minutes(rows)
  BY DEF F!Through
<1>2. d < start => rows = {}
  BY EffectiveIs, FlexDates
<1> HIDE DEF rows
<1> QED
  BY <1>1, <1>2, BookedIs

LEMMA BookingsSplit ==
  ASSUME FlexTypeOK, NEW a \in Int, NEW b \in Int
  PROVE  /\ a <= b + 1 => F!Between(a, b) = F!Through(b) - F!Through(a - 1)
         /\ b < a => F!Between(a, b) = 0
<1> DEFINE within == {r \in adjusted : a <= F!Effective(r) /\ F!Effective(r) <= b}
           before == {r \in adjusted : F!Effective(r) <= a - 1}
           upTo == {r \in adjusted : F!Effective(r) <= b}
<1>1. F!Between(a, b) = F!Minutes(within) /\ F!Through(b) = F!Minutes(upTo)
      /\ F!Through(a - 1) = F!Minutes(before)
  BY DEF F!Between, F!Through
<1>2. within \in SUBSET adjusted /\ upTo \in SUBSET adjusted /\ before \in SUBSET adjusted
  OBVIOUS
<1>3. ASSUME b < a PROVE F!Between(a, b) = 0
  <2>1. within = {}
    BY <1>3, EffectiveIs
  <2> HIDE DEF within
  <2> QED
    BY <1>1, <1>2, <2>1, BookedIs
<1>4. ASSUME a <= b + 1 PROVE F!Between(a, b) = F!Through(b) - F!Through(a - 1)
  <2>1. upTo = before \cup within /\ before \cap within = {}
    BY <1>4, EffectiveIs
  <2> HIDE DEF within, before, upTo
  <2>2. /\ IsFiniteSet(before) /\ IsFiniteSet(within)
        /\ \A r \in before \cup within : BookedMinutes[r] \in Int
    BY <1>2, BookedIs
  <2>3. Sum(BookedMinutes, before \cup within) = Sum(BookedMinutes, before) + Sum(BookedMinutes, within)
    BY <2>1, <2>2, SumUnion
  <2> QED
    BY <1>1, <1>2, <2>1, <2>3, BookedIs
<1> QED
  BY <1>3, <1>4

-----------------------------------------------------------------------------
(* Months. *)

LEMMA FlexMonthBounds ==
  ASSUME NEW m \in Int
  PROVE  /\ F!FirstOf(m) \in Int /\ F!LastOf(m) \in Int
         /\ F!FirstOf(m) <= F!LastOf(m) /\ F!FirstOf(m) = F!LastOf(m - 1) + 1
<1>1. MonthLength \in Nat \ {0}
  BY BalancesAssumption
<1>2. F!FirstOf(m) = MonthLength * m + 1 /\ F!LastOf(m) = MonthLength * m + MonthLength
      /\ F!LastOf(m - 1) = MonthLength * m /\ MonthLength * m \in Int
  BY <1>1 DEF F!FirstOf, F!LastOf
<1> QED
  BY <1>1, <1>2

LEMMA FlexMonthIs ==
  ASSUME NEW d \in Int
  PROVE  /\ F!MonthOf(d) \in Int
         /\ F!FirstOf(F!MonthOf(d)) <= d /\ d <= F!LastOf(F!MonthOf(d))
         /\ \A m \in Int : F!FirstOf(m) <= d /\ d <= F!LastOf(m) => F!MonthOf(d) = m
<1>1. MonthLength \in Nat \ {0} /\ d - 1 \in Int
  BY BalancesAssumption
<1> DEFINE q == F!MonthOf(d)
<1>2. q \in Int /\ MonthLength * q <= d - 1 /\ d - 1 < MonthLength * q + MonthLength
  BY <1>1, Quotient DEF F!MonthOf
<1> HIDE DEF q
<1>3. \A m \in Int : F!FirstOf(m) = MonthLength * m + 1 /\ F!LastOf(m) = MonthLength * m + MonthLength
                     /\ MonthLength * m \in Int
  BY <1>1 DEF F!FirstOf, F!LastOf
<1>4. F!FirstOf(q) <= d /\ d <= F!LastOf(q)
  BY <1>1, <1>2, <1>3
<1>5. ASSUME NEW m \in Int, F!FirstOf(m) <= d, d <= F!LastOf(m) PROVE F!MonthOf(d) = m
  <2>1. MonthLength * m <= d - 1 /\ d - 1 < MonthLength * m + MonthLength
    BY <1>1, <1>3, <1>5
  <2> QED
    BY <1>1, <2>1, QuotientIs DEF F!MonthOf
<1> QED
  BY <1>2, <1>4, <1>5 DEF q

LEMMA FlexMonthGrows ==
  /\ \A a, b \in Int : a <= b => F!MonthOf(a) <= F!MonthOf(b)
  /\ \A m, k \in Int : m <= k => F!LastOf(m) <= F!LastOf(k)
  /\ \A m, k \in Int : m < k => F!LastOf(m) < F!FirstOf(k)
<1>1. MonthLength \in Nat \ {0}
  BY BalancesAssumption
<1>2. ASSUME NEW a \in Int, NEW b \in Int, a <= b PROVE F!MonthOf(a) <= F!MonthOf(b)
  BY <1>1, <1>2, QuotientGrows DEF F!MonthOf
<1>3. ASSUME NEW m \in Int, NEW k \in Int, m <= k PROVE F!LastOf(m) <= F!LastOf(k)
  <2>1. MonthLength * (m + 1) <= MonthLength * (k + 1)
    BY <1>1, <1>3, TimesGrows
  <2> QED
    BY <1>1, <2>1 DEF F!LastOf
<1>4. ASSUME NEW m \in Int, NEW k \in Int, m < k PROVE F!LastOf(m) < F!FirstOf(k)
  <2>1. F!LastOf(m) <= F!LastOf(k - 1)
    BY <1>3, <1>4
  <2> QED
    BY <2>1, FlexMonthBounds
<1> QED
  BY <1>2, <1>3, <1>4

\* The bookings in effect by the end of a month.
BookedBy(m) == F!Through(F!Min({F!LastOf(m), F!EffectiveThrough}))

LEMMA ContributionIs ==
  ASSUME FlexTypeOK, NEW m \in Int
  PROVE  F!Contribution(m) = Earned(F!LastOf(m)) - Earned(F!LastOf(m - 1))
<1> DEFINE first == F!FirstOf(m)
           last == F!LastOf(m)
           cut == F!Cutoff
           end == F!Min({last, cut})
<1>1. first \in Int /\ last \in Int /\ first <= last /\ F!LastOf(m - 1) = first - 1 /\ cut \in Int
  BY FlexMonthBounds, CutoffIs
<1>2. F!Contribution(m) = F!RangeDiff(first, end)
  BY DEF F!Contribution
<1>3. end = IF last <= cut THEN last ELSE cut
  BY <1>1, FlexMinIs
<1>4. Earned(end) = Earned(last)
  BY <1>1, EarnedByCutoff
<1> HIDE DEF first, last, end
<1>5. CASE first - 1 <= cut
  <2>1. first <= end + 1 /\ end \in Int
    BY <1>1, <1>3, <1>5
  <2> QED
    BY <1>1, <1>2, <1>4, <2>1, RangeSplits DEF last
<1>6. CASE cut < first - 1
  <2>1. end < first /\ end = cut /\ end \in Int
    BY <1>1, <1>3, <1>6
  <2>2. F!Contribution(m) = 0
    BY <1>1, <1>2, <2>1, RangeEmpty
  <2>3. Earned(last) = Earned(cut) /\ Earned(first - 1) = Earned(cut)
    <3>1. cut <= last /\ cut <= first - 1 /\ first - 1 \in Int
      BY <1>1, <1>6
    <3> QED
      BY <1>1, <3>1, EarnedByCutoff
  <2>4. Earned(cut) \in Int
    BY <1>1, EarnedIs
  <2> QED
    BY <1>1, <2>2, <2>3, <2>4 DEF last
<1> QED
  BY <1>1, <1>5, <1>6

LEMMA OfMonthIs ==
  ASSUME FlexTypeOK, NEW m \in Int
  PROVE  F!OfMonth(m) = BookedBy(m) - BookedBy(m - 1)
<1> DEFINE first == F!FirstOf(m)
           last == F!LastOf(m)
           et == F!EffectiveThrough
           end == F!Min({last, et})
<1>1. first \in Int /\ last \in Int /\ first <= last /\ F!LastOf(m - 1) = first - 1 /\ et \in Int
  BY FlexMonthBounds, ThroughToday
<1>2. end = IF last <= et THEN last ELSE et
  BY <1>1, FlexMinIs
<1>3. F!Min({first - 1, et}) = IF first - 1 <= et THEN first - 1 ELSE et
  BY <1>1, FlexMinIs
<1>4. BookedBy(m) = F!Through(end) /\ BookedBy(m - 1) = F!Through(F!Min({first - 1, et}))
  BY <1>1 DEF BookedBy
<1>5. {r \in adjusted : F!Effective(r) <= et /\ F!MonthOf(F!Effective(r)) = m}
        = {r \in adjusted : first <= F!Effective(r) /\ F!Effective(r) <= end}
  <2>1. ASSUME NEW r \in adjusted
        PROVE  (F!Effective(r) <= et /\ F!MonthOf(F!Effective(r)) = m)
                 <=> (first <= F!Effective(r) /\ F!Effective(r) <= end)
    <3>1. F!Effective(r) \in Int
      BY EffectiveIs
    <3>2. F!MonthOf(F!Effective(r)) = m <=> first <= F!Effective(r) /\ F!Effective(r) <= last
      BY <3>1, FlexMonthIs
    <3> HIDE DEF end, et
    <3> QED
      BY <1>1, <1>2, <3>1, <3>2
  <2> HIDE DEF first, et, end
  <2> QED
    BY <2>1
<1>6. F!OfMonth(m) = F!Between(first, end)
  BY <1>5 DEF F!OfMonth, F!Between
<1> HIDE DEF first, last, et, end
<1>7. CASE first - 1 <= et
  <2>1. first <= end + 1 /\ end \in Int
    BY <1>1, <1>2, <1>7
  <2> QED
    BY <1>1, <1>3, <1>4, <1>6, <1>7, <2>1, BookingsSplit
<1>8. CASE et < first - 1
  <2>1. end = et /\ end < first /\ end \in Int
    BY <1>1, <1>2, <1>8
  <2>2. F!OfMonth(m) = 0
    BY <1>1, <1>6, <2>1, BookingsSplit
  <2>3. BookedBy(m) = F!Through(et) /\ BookedBy(m - 1) = F!Through(et) /\ F!Through(et) \in Int
    BY <1>1, <1>3, <1>4, <1>8, <2>1, ThroughIs
  <2> QED
    BY <2>2, <2>3
<1> QED
  BY <1>1, <1>7, <1>8

\* The monthly rows telescope.
LEMMA CumulativeBy ==
  ASSUME FlexTypeOK, NEW m \in Int, F!MonthOf(start) <= m
  PROVE  F!Cumulative(m) = Earned(F!LastOf(m)) + BookedBy(m)
<1> DEFINE m0 == F!MonthOf(start)
           Fine(n) == Sum(MonthDiff, m0..(m0 + n - 1))
                        = Earned(F!LastOf(m0 + n - 1)) + BookedBy(m0 + n - 1)
           Bad == {n \in Nat : ~Fine(n)}
<1>1. start \in Int /\ m0 \in Int
  BY FlexDates, FlexMonthIs
<1>2. \A k \in Int : Earned(F!LastOf(k)) \in Int /\ BookedBy(k) \in Int
                     /\ F!Min({F!LastOf(k), F!EffectiveThrough}) \in Int
                     /\ F!Min({F!LastOf(k), F!EffectiveThrough}) <= F!LastOf(k)
  <2> TAKE k \in Int
  <2>1. F!LastOf(k) \in Int /\ F!EffectiveThrough \in Int
    BY FlexMonthBounds, ThroughToday
  <2> DEFINE end == F!Min({F!LastOf(k), F!EffectiveThrough})
  <2>2. end \in Int /\ end <= F!LastOf(k)
    BY <2>1, FlexMinIs
  <2> HIDE DEF end
  <2>3. Earned(F!LastOf(k)) \in Int
    BY <2>1, EarnedIs
  <2>4. BookedBy(k) \in Int
    BY <2>2, ThroughIs DEF BookedBy, end
  <2> QED
    BY <2>2, <2>3, <2>4 DEF end
<1>3. \A k \in Int : MonthDiff[k] = (Earned(F!LastOf(k)) - Earned(F!LastOf(k - 1)))
                                      + (BookedBy(k) - BookedBy(k - 1))
  BY ContributionIs, OfMonthIs DEF MonthDiff
<1>4. \A k \in Int : MonthDiff[k] \in Int
  <2> TAKE k \in Int
  <2>1. /\ Earned(F!LastOf(k)) \in Int /\ BookedBy(k) \in Int
        /\ Earned(F!LastOf(k - 1)) \in Int /\ BookedBy(k - 1) \in Int
    <3>1. k - 1 \in Int
      OBVIOUS
    <3> HIDE DEF Earned, BookedBy
    <3> QED
      BY <1>2, <3>1
  <2>2. MonthDiff[k] = (Earned(F!LastOf(k)) - Earned(F!LastOf(k - 1))) + (BookedBy(k) - BookedBy(k - 1))
    BY <1>3
  <2> QED
    BY <2>1, <2>2
<1>5. Fine(0)
  <2>1. F!LastOf(m0 - 1) < start /\ F!LastOf(m0 - 1) \in Int
    <3>1. F!FirstOf(m0) <= start
      BY <1>1, FlexMonthIs
    <3> HIDE DEF m0
    <3>2. F!FirstOf(m0) \in Int /\ F!FirstOf(m0) = F!LastOf(m0 - 1) + 1 /\ F!LastOf(m0 - 1) \in Int
      <4>1. m0 - 1 \in Int
        BY <1>1
      <4> QED
        BY <1>1, <4>1, FlexMonthBounds
    <3> QED
      BY <1>1, <3>1, <3>2
  <2>2. Earned(F!LastOf(m0 - 1)) = 0
    BY <1>1, <2>1, EarnedIs
  <2>3. BookedBy(m0 - 1) = 0
    <3>1. m0 - 1 \in Int
      BY <1>1
    <3>2. F!Min({F!LastOf(m0 - 1), F!EffectiveThrough}) < start
      BY <1>1, <1>2, <2>1, <3>1
    <3> QED
      BY <1>2, <3>1, <3>2, ThroughIs DEF BookedBy
  <2> HIDE DEF m0
  <2>4. m0 + 0 - 1 = m0 - 1 /\ m0..(m0 - 1) = {}
    BY <1>1
  <2>5. Sum(MonthDiff, m0..(m0 - 1)) = Earned(F!LastOf(m0 - 1)) + BookedBy(m0 - 1)
    <3>1. Sum(MonthDiff, m0..(m0 - 1)) = 0
      BY <2>4, SumOfNone
    <3>2. Earned(F!LastOf(m0 - 1)) + BookedBy(m0 - 1) = 0
      BY <2>2, <2>3
    <3> QED
      BY <3>1, <3>2
  <2> QED
    BY <2>4, <2>5
<1> HIDE DEF m0
<1>6. ASSUME NEW n \in Nat, Fine(n) PROVE Fine(n + 1)
  <2> DEFINE k == m0 + n
             S == m0..(k - 1)
  <2>1. k \in Int /\ k - 1 \in Int /\ m0 + (n + 1) - 1 = k /\ m0 + n - 1 = k - 1
    BY <1>1
  <2>2. m0..k = S \cup {k} /\ k \notin S /\ IsFiniteSet(S) /\ S \subseteq Int
    <3>1. IsFiniteSet(S)
      BY <1>1, <2>1, FS_Interval
    <3> QED
      BY <1>1, <1>6, <3>1
  <2>3. Sum(MonthDiff, S) = Earned(F!LastOf(k - 1)) + BookedBy(k - 1)
    BY <1>6, <2>1
  <2> HIDE DEF k, S
  <2>4. Sum(MonthDiff, m0..k) = MonthDiff[k] + Sum(MonthDiff, S)
    <3>1. \A x \in S \cup {k} : MonthDiff[x] \in Int
      BY <1>4, <2>1, <2>2
    <3> QED
      BY <2>2, <3>1, SumAdd
  <2>5. Sum(MonthDiff, m0..k) = Earned(F!LastOf(k)) + BookedBy(k)
    <3>1. /\ Earned(F!LastOf(k)) \in Int /\ BookedBy(k) \in Int
          /\ Earned(F!LastOf(k - 1)) \in Int /\ BookedBy(k - 1) \in Int
      BY <1>2, <2>1
    <3>2. MonthDiff[k] = (Earned(F!LastOf(k)) - Earned(F!LastOf(k - 1))) + (BookedBy(k) - BookedBy(k - 1))
      BY <1>3, <2>1
    <3> QED
      BY <2>3, <2>4, <3>1, <3>2
  <2> QED
    BY <2>1, <2>5
<1>7. Bad = {}
  <2>1. SUFFICES ASSUME Bad # {} PROVE FALSE
    OBVIOUS
  <2> HIDE DEF Fine
  <2>2. PICK n \in Bad : \A k \in Bad : n <= k
    BY <2>1, LeastNumber
  <2>3. n # 0 /\ n \in Nat
    BY <1>5, <2>2
  <2>4. Fine(n - 1)
    BY <2>2, <2>3
  <2>5. Fine((n - 1) + 1)
    BY <1>6, <2>3, <2>4
  <2> QED
    BY <2>2, <2>3, <2>5
<1>8. Fine(m - m0 + 1)
  <2>1. m - m0 + 1 \in Nat
    BY <1>1 DEF m0
  <2> HIDE DEF Fine
  <2> QED
    BY <1>7, <2>1
<1>9. m0 + (m - m0 + 1) - 1 = m
  BY <1>1
<1> QED
  BY <1>1, <1>8, <1>9, CumulativeIs DEF m0

-----------------------------------------------------------------------------
(* The balance at the end of a month, and the ledger. *)

LEMMA FlexMonthsFrom ==
  ASSUME FlexTypeOK
  PROVE  /\ F!MonthOf(1) \in Int /\ F!MonthOf(FlexDays) \in Int /\ F!MonthOf(start) \in Int
         /\ F!MonthOf(F!Cutoff) \in Int /\ F!MonthOf(today) \in Int
         /\ F!MonthOf(1) <= F!MonthOf(start) /\ F!MonthOf(today) <= F!MonthOf(FlexDays)
         /\ F!Cutoff >= start => /\ F!MonthOf(start) <= F!MonthOf(F!Cutoff)
                                 /\ F!MonthOf(F!Cutoff) <= F!MonthOf(today)
<1>1. 1 \in Int /\ FlexDays \in Int /\ start \in Int /\ F!Cutoff \in Int /\ today \in Int
      /\ 1 <= start /\ today <= FlexDays
  BY FlexDates, CutoffIs
<1>2. F!Cutoff >= start => F!Cutoff <= today
  BY <1>1, CutoffIs
<1>3. /\ F!MonthOf(1) \in Int /\ F!MonthOf(FlexDays) \in Int /\ F!MonthOf(start) \in Int
      /\ F!MonthOf(F!Cutoff) \in Int /\ F!MonthOf(today) \in Int
  BY <1>1, FlexMonthIs
<1>4. F!MonthOf(1) <= F!MonthOf(start) /\ F!MonthOf(today) <= F!MonthOf(FlexDays)
  BY <1>1, FlexMonthGrows
<1>5. F!Cutoff >= start => /\ F!MonthOf(start) <= F!MonthOf(F!Cutoff)
                           /\ F!MonthOf(F!Cutoff) <= F!MonthOf(today)
  BY <1>1, <1>2, FlexMonthGrows
<1> QED
  BY <1>3, <1>4, <1>5

LEMMA FlexYearIs ==
  /\ \A m \in Int : F!YearOf(m) \in Int
  /\ \A m, k \in Int : m <= k => F!YearOf(m) <= F!YearOf(k)
  BY BalancesAssumption, Quotient, QuotientGrows DEF F!YearOf

LEMMA MonthEndIs ==
  ASSUME FlexTypeOK, NEW m \in Int, F!MonthOf(start) <= m, m <= F!MonthOf(FlexDays)
  PROVE  F!AtMonthEnd(m) = Earned(F!LastOf(m)) + BookedBy(m)
<1> DEFINE c == F!MonthOf(F!Cutoff)
           rows == F!Rows(F!Min({F!YearOf(m), F!YearOf(c)}))
           last == F!Max(rows)
<1>1. /\ F!MonthOf(1) \in Int /\ F!MonthOf(FlexDays) \in Int /\ F!MonthOf(start) \in Int
      /\ c \in Int /\ F!MonthOf(today) \in Int /\ F!Cutoff \in Int /\ start \in Int
      /\ F!MonthOf(1) <= F!MonthOf(start) /\ F!MonthOf(today) <= F!MonthOf(FlexDays)
      /\ F!Cutoff >= start => F!MonthOf(start) <= c /\ c <= F!MonthOf(today)
  BY FlexMonthsFrom, CutoffIs, FlexDates
<1>2. /\ F!LastOf(m) \in Int /\ Earned(F!LastOf(m)) \in Int /\ BookedBy(m) \in Int
  <2>1. F!LastOf(m) \in Int /\ F!EffectiveThrough \in Int
    BY FlexMonthBounds, ThroughToday
  <2>2. F!Min({F!LastOf(m), F!EffectiveThrough}) \in Int
    BY <2>1, FlexMinIs
  <2> QED
    BY <2>1, <2>2, EarnedIs, ThroughIs DEF BookedBy
<1>3. F!YearOf(m) \in Int /\ F!YearOf(c) \in Int
      /\ F!Min({F!YearOf(m), F!YearOf(c)}) = IF F!YearOf(m) <= F!YearOf(c) THEN F!YearOf(m) ELSE F!YearOf(c)
  BY <1>1, FlexYearIs, FlexMinIs
<1>4. CASE F!Cutoff < start
  <2>1. F!AtMonthEnd(m) = BookedBy(m)
    BY <1>1, <1>4 DEF F!AtMonthEnd, BookedBy
  <2>2. Earned(F!LastOf(m)) = 0
    BY <1>2, <1>4, EarnedByCutoff
  <2> QED
    BY <1>2, <2>1, <2>2
<1>5. CASE F!Cutoff >= start /\ m <= c
  <2>1. F!Min({F!YearOf(m), F!YearOf(c)}) = F!YearOf(m)
    BY <1>1, <1>3, <1>5, FlexYearIs
  <2>2. m \in rows
    BY <1>1, <1>5, <2>1 DEF F!Rows, F!Months
  <2>3. F!AtMonthEnd(m) = F!Cumulative(m)
    BY <1>1, <1>5, <2>2 DEF F!AtMonthEnd
  <2> QED
    BY <2>3, CumulativeBy
<1>6. CASE F!Cutoff >= start /\ c < m
  <2>1. F!Min({F!YearOf(m), F!YearOf(c)}) = F!YearOf(c)
    <3>1. F!YearOf(c) <= F!YearOf(m)
      BY <1>1, <1>6, FlexYearIs
    <3> QED
      BY <1>3, <3>1
  <2>2. c \in rows
    BY <1>1, <1>6, <2>1 DEF F!Rows, F!Months
  <2>3. rows \in SUBSET (F!MonthOf(1)..F!MonthOf(FlexDays))
    BY DEF F!Rows, F!Months
  <2>4. F!AtMonthEnd(m) = F!Cumulative(last) - BookedBy(last) + BookedBy(m)
    <3>1. rows # {} /\ ~(m < F!MonthOf(start)) /\ ~(F!Cutoff < start) /\ m > c
      BY <1>1, <1>6, <2>2
    <3> QED
      BY <1>6, <3>1 DEF F!AtMonthEnd, BookedBy
  <2> HIDE DEF rows
  <2>5. last \in Int /\ c <= last
    <3>1. last \in rows /\ c <= last
      BY <1>1, <2>2, <2>3, FlexGreatest
    <3> HIDE DEF last
    <3> QED
      BY <1>1, <2>3, <3>1
  <2> HIDE DEF last
  <2>6. F!Cumulative(last) = Earned(F!LastOf(last)) + BookedBy(last)
    BY <1>1, <1>6, <2>5, CumulativeBy
  <2>7. F!Cutoff <= F!LastOf(last) /\ F!Cutoff <= F!LastOf(m) /\ F!LastOf(last) \in Int
    <3>1. F!Cutoff <= F!LastOf(c) /\ F!LastOf(c) \in Int
      BY <1>1, FlexMonthIs, FlexMonthBounds
    <3>2. F!LastOf(c) <= F!LastOf(last) /\ F!LastOf(c) <= F!LastOf(m)
      BY <1>1, <1>6, <2>5, FlexMonthGrows
    <3>3. F!LastOf(last) \in Int
      BY <2>5, FlexMonthBounds
    <3> QED
      BY <1>1, <1>2, <3>1, <3>2, <3>3
  <2>8. Earned(F!LastOf(last)) = Earned(F!LastOf(m))
    BY <1>2, <2>7, EarnedByCutoff
  <2>9. BookedBy(last) \in Int
    <3>1. F!EffectiveThrough \in Int
      BY ThroughToday
    <3>2. F!Min({F!LastOf(last), F!EffectiveThrough}) \in Int
      BY <2>7, <3>1, FlexMinIs
    <3> QED
      BY <3>2, ThroughIs DEF BookedBy
  <2> QED
    BY <1>2, <2>4, <2>6, <2>8, <2>9
<1> QED
  BY <1>1, <1>4, <1>5, <1>6

\* The bookings in effect by a day.
BookedUpTo(d) == F!Through(F!Min({d, F!EffectiveThrough}))

LEMMA SeedIs ==
  ASSUME FlexTypeOK, NEW from \in Int, start < from
  PROVE  F!Seed(from) = Earned(from - 1) + BookedUpTo(from - 1)
<1> DEFINE et == F!EffectiveThrough
           cut == F!Cutoff
           end == F!Min({from - 1, cut})
           month == F!MonthOf(end)
           first == F!FirstOf(month)
           through == F!Min({from - 1, et})
           seedFrom == F!Max({first, start})
           before == IF first <= start THEN 0 ELSE F!AtMonthEnd(F!MonthOf(first - 1))
<1>1. start \in Int /\ et \in Int /\ cut \in Int /\ start <= et /\ start - 1 <= cut /\ from - 1 \in Int
      /\ start <= from - 1
  BY FlexDates, ThroughToday, CutoffIs
<1>2. end = (IF from - 1 <= cut THEN from - 1 ELSE cut) /\ end \in Int
      /\ through = (IF from - 1 <= et THEN from - 1 ELSE et) /\ through \in Int
  BY <1>1, FlexMinIs
<1>3. Earned(end) = Earned(from - 1)
  BY <1>1, EarnedByCutoff
<1>4. F!Seed(from) = before + F!RangeDiff(seedFrom, end) + F!Between(seedFrom, through)
  BY <1>1 DEF F!Seed
<1> HIDE DEF end, through
<1>5. month \in Int /\ first \in Int /\ first <= end
  BY <1>2, FlexMonthIs, FlexMonthBounds
<1> HIDE DEF first
<1>6. seedFrom = IF first >= start THEN first ELSE start
  BY <1>1, <1>5, FlexMaxIs
<1>7. start <= through /\ F!Through(through) \in Int /\ Earned(end) \in Int
  BY <1>1, <1>2, ThroughIs, EarnedIs
<1>8. CASE first <= start
  <2>1. before = 0 /\ seedFrom = start
    BY <1>1, <1>5, <1>6, <1>8
  <2>2. F!RangeDiff(start, end) = Earned(end)
    BY DEF Earned
  <2>3. F!Between(start, through) = F!Through(through)
    <3>1. F!Between(start, through) = F!Through(through) - F!Through(start - 1)
      BY <1>1, <1>2, <1>7, BookingsSplit
    <3>2. F!Through(start - 1) = 0
      BY <1>1, ThroughIs
    <3> QED
      BY <1>7, <3>1, <3>2
  <2> QED
    BY <1>3, <1>4, <1>7, <2>1, <2>2, <2>3 DEF BookedUpTo, through
<1>9. CASE first > start
  <2> DEFINE m == F!MonthOf(first - 1)
  <2>1. seedFrom = first /\ before = F!AtMonthEnd(m) /\ first - 1 \in Int
    BY <1>1, <1>5, <1>6, <1>9
  <2>2. cut < today /\ first <= cut
    BY <1>1, <1>2, <1>5, <1>9, CutoffIs
  <2>3. m \in Int /\ F!MonthOf(start) <= m /\ m <= F!MonthOf(FlexDays) /\ F!LastOf(m) = first - 1
    <3>1. first - 1 <= FlexDays /\ FlexDays \in Int /\ start <= first - 1
      BY <1>1, <1>5, <1>9, <2>2, FlexDates
    <3>2. m \in Int /\ F!MonthOf(start) <= m /\ m <= F!MonthOf(FlexDays)
      BY <1>1, <2>1, <3>1, FlexMonthIs, FlexMonthGrows
    <3>3. month - 1 \in Int /\ first = F!LastOf(month - 1) + 1
      BY <1>5, FlexMonthBounds DEF first
    <3>4. F!LastOf(month - 1) = first - 1
      <4>1. F!LastOf(month - 1) \in Int
        BY <3>3, FlexMonthBounds
      <4> QED
        BY <1>5, <3>3, <4>1
    <3>5. F!FirstOf(month - 1) <= first - 1
      BY <3>3, <3>4, FlexMonthBounds
    <3>6. m = month - 1
      <4>1. first - 1 <= F!LastOf(month - 1)
        BY <2>1, <3>4
      <4> QED
        BY <2>1, <3>3, <3>5, <4>1, FlexMonthIs
    <3> QED
      BY <3>2, <3>4, <3>6
  <2>4. F!AtMonthEnd(m) = Earned(first - 1) + BookedBy(m)
    BY <2>3, MonthEndIs
  <2>5. BookedBy(m) = F!Through(first - 1)
    <3>1. first - 1 <= et
      BY <1>1, <1>5, <2>2, ThroughToday, FlexDates
    <3>2. F!Min({first - 1, et}) = first - 1
      BY <1>1, <2>1, <3>1, FlexMinIs
    <3> QED
      BY <2>3, <3>2 DEF BookedBy
  <2>6. F!RangeDiff(first, end) = Earned(end) - Earned(first - 1)
    BY <1>2, <1>5, RangeSplits
  <2>7. F!Between(first, through) = F!Through(through) - F!Through(first - 1)
    <3>1. first <= through + 1
      BY <1>1, <1>2, <1>5, <2>2, ThroughToday, FlexDates
    <3> QED
      BY <1>2, <1>5, <3>1, BookingsSplit
  <2>8. Earned(first - 1) \in Int /\ F!Through(first - 1) \in Int
    BY <2>1, EarnedIs, ThroughIs
  <2> HIDE DEF m, before, seedFrom
  <2> QED
    BY <1>3, <1>4, <1>7, <2>1, <2>4, <2>5, <2>6, <2>7, <2>8 DEF BookedUpTo, through
<1> QED
  BY <1>1, <1>5, <1>8, <1>9

LEMMA LedgerIs ==
  ASSUME FlexTypeOK, NEW d \in Int, start <= d
  PROVE  F!Ledger(d, d) = F!Balance(d)
<1> DEFINE et == F!EffectiveThrough
           end == F!Min({d, et})
<1>1. start \in Int /\ et \in Int /\ start <= et /\ d - 1 \in Int
  BY FlexDates, ThroughToday
<1>2. end = (IF d <= et THEN d ELSE et) /\ end \in Int
      /\ F!Min({d - 1, et}) = IF d - 1 <= et THEN d - 1 ELSE et
  BY <1>1, FlexMinIs
<1>3. F!Balance(d) = Earned(d) + F!Through(end)
  BY DEF F!Balance, Earned
<1>4. F!Ledger(d, d) = F!Seed(d) + F!RangeDiff(d, d) + F!Between(d, end)
  BY DEF F!Ledger
<1>5. Earned(d) \in Int /\ Earned(d - 1) \in Int /\ F!RangeDiff(d, d) = Earned(d) - Earned(d - 1)
  BY <1>1, EarnedIs, RangeSplits
<1> HIDE DEF end
<1>6. F!Through(end) \in Int /\ F!Through(d - 1) \in Int
  BY <1>1, <1>2, ThroughIs
<1>7. CASE d = start
  <2>1. F!Seed(d) = 0
    BY <1>1, <1>7 DEF F!Seed
  <2>2. Earned(d - 1) = 0 /\ F!Through(d - 1) = 0
    BY <1>1, <1>7, EarnedIs, ThroughIs
  <2>3. F!Between(d, end) = F!Through(end)
    BY <1>1, <1>2, <1>6, <1>7, <2>2, BookingsSplit
  <2> QED
    BY <1>3, <1>4, <1>5, <1>6, <2>1, <2>2, <2>3
<1>8. CASE start < d
  <2>1. F!Seed(d) = Earned(d - 1) + BookedUpTo(d - 1)
    BY <1>8, SeedIs
  <2>2. BookedUpTo(d - 1) + F!Between(d, end) = F!Through(end) /\ BookedUpTo(d - 1) \in Int
                                                              /\ F!Between(d, end) \in Int
    <3>1. CASE d <= et
      <4>1. BookedUpTo(d - 1) = F!Through(d - 1) /\ end = d
        BY <1>1, <1>2, <3>1 DEF BookedUpTo
      <4>2. F!Between(d, end) = F!Through(end) - F!Through(d - 1)
        BY <1>1, <1>2, <4>1, BookingsSplit
      <4> QED
        BY <1>6, <4>1, <4>2
    <3>2. CASE et < d
      <4>1. BookedUpTo(d - 1) = F!Through(et) /\ end = et
        BY <1>1, <1>2, <3>2 DEF BookedUpTo
      <4>2. F!Between(d, end) = 0
        BY <1>1, <1>2, <3>2, <4>1, BookingsSplit
      <4> QED
        BY <1>6, <4>1, <4>2
    <3> QED
      BY <1>1, <3>1, <3>2
  <2> QED
    BY <1>3, <1>4, <1>5, <1>6, <2>1, <2>2
<1> QED
  BY <1>1, <1>7, <1>8

LEMMA ViewsAre ==
  ASSUME FlexTypeOK
  PROVE  F!ViewsAgree
<1>1. /\ start \in Int /\ FlexDays \in Int /\ F!EffectiveThrough \in Int /\ start <= F!EffectiveThrough
      /\ F!MonthOf(start) \in Int /\ F!MonthOf(FlexDays) \in Int
  BY FlexDates, ThroughToday, FlexMonthsFrom
<1>2. ASSUME NEW d \in start..FlexDays PROVE F!Ledger(d, d) = F!Balance(d)
  BY <1>1, LedgerIs
<1>3. ASSUME NEW m \in F!MonthOf(start)..F!MonthOf(FlexDays)
      PROVE  F!AtMonthEnd(m) = F!Balance(F!LastOf(m))
  <2>1. m \in Int /\ F!MonthOf(start) <= m /\ m <= F!MonthOf(FlexDays)
    BY <1>1
  <2> QED
    BY <2>1, MonthEndIs DEF F!Balance, Earned, BookedBy
<1>4. F!AccountBalance = F!Balance(F!EffectiveThrough)
  BY <1>1, LedgerIs DEF F!AccountBalance
<1> QED
  BY <1>2, <1>3, <1>4 DEF F!ViewsAgree

-----------------------------------------------------------------------------
(* Every step of a flextime account. *)

LEMMA FlexStarts == F!Init => FlexTypeOK
<1> SUFFICES ASSUME F!Init PROVE FlexTypeOK
  OBVIOUS
<1>1. today \in F!Days /\ start \in Starts
  BY BalancesAssumption DEF F!Init, F!Days
<1>2. adjusted = {}
  BY DEF F!Init
<1> QED
  BY <1>1, <1>2, FS_EmptySet DEF FlexTypeOK

LEMMA FlexRowAdded ==
  ASSUME FlexTypeOK, UNCHANGED <<today, start>>, NEW row, row.day \in Int, row.minutes \in Int,
         adjusted' = adjusted \cup {row}
  PROVE  FlexTypeOK'
<1>1. IsFiniteSet(adjusted')
  BY FS_AddElement DEF FlexTypeOK
<1>2. \A r \in adjusted' : r.day \in Int /\ r.minutes \in Int
  BY DEF FlexTypeOK
<1> QED
  BY <1>1, <1>2 DEF FlexTypeOK

LEMMA FlexStaysTyped ==
  ASSUME FlexTypeOK, [F!Next]_(F!vars)
  PROVE  FlexTypeOK'
<1>1. CASE UNCHANGED adjusted /\ today' \in F!Days /\ start' \in Starts
  BY <1>1 DEF FlexTypeOK
<1>2. today \in F!Days /\ start \in Starts
  BY DEF FlexTypeOK
<1>3. CASE F!NextDay
  <2>1. today' \in F!Days
    BY <1>2, <1>3, BalancesAssumption DEF F!NextDay, F!Days
  <2> QED
    BY <1>1, <1>2, <1>3, <2>1 DEF F!NextDay
<1>4. ASSUME NEW d \in F!Days, F!Enter(d) PROVE FlexTypeOK'
  BY <1>1, <1>2, <1>4 DEF F!Enter, F!Step
<1>5. ASSUME NEW w, F!ApproveWeek(w) \/ F!Reopen(w) PROVE FlexTypeOK'
  BY <1>1, <1>2, <1>5 DEF F!ApproveWeek, F!Reopen, F!SetWeek, F!Step
<1>6. CASE F!Request
  BY <1>1, <1>2, <1>6 DEF F!Request, F!Step
<1>7. ASSUME NEW b \in booked, F!Change(b) \/ F!ApproveAbsence(b) \/ F!End(b) PROVE FlexTypeOK'
  BY <1>1, <1>2, <1>7 DEF F!Change, F!ApproveAbsence, F!End, F!Step
<1>8. CASE F!CreateAdjustment
  <2>1. PICK day \in start..FlexDays, minutes \in Bookable \ {0} :
          adjusted' = adjusted \cup {F!Row(day, minutes, 0)}
    BY <1>8 DEF F!CreateAdjustment
  <2>2. F!Row(day, minutes, 0).day = day /\ F!Row(day, minutes, 0).minutes = minutes
    BY DEF F!Row
  <2>3. day \in Int /\ minutes \in Int /\ UNCHANGED <<today, start>>
    BY <1>8, FlexDates, BalancesAssumption DEF F!CreateAdjustment, F!Step
  <2> QED
    BY <2>1, <2>2, <2>3, FlexRowAdded
<1>9. ASSUME NEW r \in adjusted, F!Reverse(r) PROVE FlexTypeOK'
  <2>1. adjusted' = adjusted \cup {F!Row(r.day, -r.minutes, r.id)} /\ UNCHANGED <<today, start>>
    BY <1>9 DEF F!Reverse, F!Step
  <2>2. F!Row(r.day, -r.minutes, r.id).day = r.day /\ F!Row(r.day, -r.minutes, r.id).minutes = -r.minutes
    BY DEF F!Row
  <2>3. r.day \in Int /\ -r.minutes \in Int
    BY DEF FlexTypeOK
  <2> QED
    BY <2>1, <2>2, <2>3, FlexRowAdded
<1>10. CASE F!MoveStart
  BY <1>1, <1>2, <1>10 DEF F!MoveStart, F!Step
<1>11. CASE UNCHANGED F!vars
  BY <1>1, <1>2, <1>11 DEF F!vars
<1> QED
  BY <1>3, <1>4, <1>5, <1>6, <1>7, <1>8, <1>9, <1>10, <1>11 DEF F!Next

FlexPart == part = "flextime" => FlexTypeOK

LEMMA FlexPartSteps ==
  ASSUME [MCNext]_all, part = "flextime"
  PROVE  [F!Next]_(F!vars) /\ part' = part
<1>1. CASE UNCHANGED all
  BY <1>1 DEF all, vars, flextime, F!vars
<1>2. CASE MCNext
  BY <1>2 DEF MCNext
<1> QED
  BY <1>1, <1>2

\* The ledger opened on any day, the account and the rows of the months show one
\* balance per day: build_flextime_seed_for_range, the monthly rows and the balance
\* at a month's end start adding in different places, and agree for weeks and
\* months of any length, bookings dated ahead or undone, decisions taken back and
\* a start moved past what was already booked.
THEOREM ViewsAlwaysAgree == (F!Spec => []F!ViewsAgree) /\ (MCSpec => []FlextimeViewsAgree)
<1>1. F!Init => FlexTypeOK
  BY FlexStarts
<1>2. FlexTypeOK /\ [F!Next]_(F!vars) => FlexTypeOK'
  BY FlexStaysTyped
<1>3. FlexTypeOK => F!ViewsAgree
  BY ViewsAre
<1>4. F!Spec => []F!ViewsAgree
  BY <1>1, <1>2, <1>3, PTL DEF F!Spec
<1>5. MCInit => FlexPart
  BY FlexStarts DEF MCInit, FlexPart
<1>6. ASSUME FlexPart, [MCNext]_all PROVE FlexPart'
  <2>1. part' = part
    BY <1>6 DEF MCNext, all
  <2> QED
    BY <1>6, <2>1, FlexPartSteps, FlexStaysTyped DEF FlexPart
<1>7. FlexPart => FlextimeViewsAgree
  BY ViewsAre DEF FlexPart, FlextimeViewsAgree
<1>8. MCSpec => []FlextimeViewsAgree
  BY <1>5, <1>6, <1>7, PTL DEF MCSpec
<1> QED
  BY <1>4, <1>8

-----------------------------------------------------------------------------
(* The payroll reports of an employee's absences. *)

PayRecord ==
  {a \in [from : P!Days, to : P!Days, cat : Categories, status : {"approved", "cancelled"},
          mark : {0} \cup P!Months] : a.from <= a.to}

PayTypeOK ==
  /\ absences \in Seq(PayRecord)
  /\ sent \in Seq(P!Months)
  /\ charged \in SUBSET (P!Months \X P!Days)

\* The reported absences over d, whatever became of them, and the claims of d, of
\* the week w while it has no pattern, and of the report p for it.
ReportedOver(d) == {a \in DOMAIN absences : absences[a].mark # 0 /\ d \in P!SpanOf(a)}
ClaimsOf(d) == {c \in charged : c[2] = d}
ClaimsIn(w) == {c \in charged : P!WeekOf(c[2]) = w /\ P!Capped(c[2])}
ClaimsBy(p, w) == {c \in ClaimsIn(w) : c[1] = p}

\* Nobody is away for two approved absences at once.
AwayOnce ==
  \A a, b \in P!Approved : a # b => P!SpanOf(a) \cap P!SpanOf(b) = {}

\* A claimed day is of a month whose report has gone out.
ClaimsAreSent == \A c \in charged : {c[1], P!MonthOf(c[2])} \subseteq P!ToSet(sent)

\* Each claim of a day is for a reported absence of its own.
ClaimsAreShown ==
  \A d \in P!Days : /\ Cardinality(ClaimsOf(d)) <= Cardinality(ReportedOver(d))
                    /\ ClaimsOf(d) # {} => ReportedOver(d) # {}

CappedOnce == \A c1, c2 \in charged : c1[2] = c2[2] /\ P!Capped(c1[2]) => c1 = c2

\* A week without a pattern is claimed by one report alone.
OneReport == \A w : P!SentBackwards(w) \/ \A c1, c2 \in ClaimsIn(w) : c1[1] = c2[1]

WithinCap == \A p, w : Cardinality(ClaimsBy(p, w)) <= Cap

PayInv ==
  /\ PayTypeOK /\ AwayOnce /\ ClaimsAreSent /\ ClaimsAreShown
  /\ CappedOnce /\ OneReport /\ WithinCap

PayRows(p) == P!RegularRows(p) \cup P!LateRows(p)

LEMMA PayCardinality == \A S : P!Cardinality(S) = Cardinality(S)
  BY DEF P!Cardinality, Cardinality

LEMMA PayMonths ==
  /\ P!Days \subseteq Nat \ {0} /\ IsFiniteSet(P!Days)
  /\ P!Months \subseteq Nat \ {0} /\ IsFiniteSet(P!Months)
  /\ \A d \in P!Days : P!MonthOf(d) \in P!Months
  /\ \A d \in Int, p \in Int :
       /\ P!FirstDay(p) \in Int
       /\ d < P!FirstDay(p) <=> P!MonthOf(d) < p
<1>1. P!Days \subseteq Nat \ {0} /\ IsFiniteSet(P!Days)
  BY BalancesAssumption, FS_Interval DEF P!Days
<1>2. \A d \in Int : P!MonthOf(d) = (d - 1) \div PayMonth + 1 /\ P!MonthOf(d) \in Int
  BY BalancesAssumption, Quotient DEF P!MonthOf
<1>3. \A d, e \in Int : d <= e => P!MonthOf(d) <= P!MonthOf(e)
  <2>1. \A d, e \in Int : d <= e => (d - 1) \div PayMonth <= (e - 1) \div PayMonth
    BY BalancesAssumption, QuotientGrows
  <2>2. \A d \in Int : (d - 1) \div PayMonth \in Int
    BY BalancesAssumption
  <2> HIDE DEF P!MonthOf
  <2> QED
    BY <1>2, <2>1, <2>2
<1>4. P!MonthOf(1) = 1
  <2>1. 0 \div PayMonth = 0
    BY BalancesAssumption, QuotientIs
  <2> QED
    BY <1>2, <2>1
<1>5. P!Months \subseteq Nat \ {0} /\ IsFiniteSet(P!Months)
  <2>1. P!MonthOf(PayDays) \in Int
    BY <1>2, BalancesAssumption
  <2> QED
    BY <2>1, FS_Interval DEF P!Months
<1>6. ASSUME NEW d \in P!Days PROVE P!MonthOf(d) \in P!Months
  BY <1>2, <1>3, <1>4, <1>6, BalancesAssumption DEF P!Months, P!Days
<1>7. ASSUME NEW d \in Int, NEW p \in Int
      PROVE  /\ P!FirstDay(p) \in Int
             /\ d < P!FirstDay(p) <=> P!MonthOf(d) < p
  <2> DEFINE q == (d - 1) \div PayMonth
  <2>1. q \in Int /\ PayMonth * q <= d - 1 /\ d - 1 < PayMonth * q + PayMonth
    BY BalancesAssumption, Quotient
  <2>2. P!FirstDay(p) \in Int /\ P!FirstDay(p) = PayMonth * (p - 1) + 1
    BY BalancesAssumption DEF P!FirstDay
  <2>3. P!MonthOf(d) = q + 1
    BY <1>2
  <2> HIDE DEF q
  <2>4. ASSUME q + 1 < p PROVE d < P!FirstDay(p)
    <3>1. p - 1 - q - 1 >= 0
      BY <2>1, <2>4
    <3>2. PayMonth * (p - 1 - q - 1) >= 0
      BY <3>1, <2>1, BalancesAssumption
    <3>3. PayMonth * (p - 1 - q - 1) = PayMonth * (p - 1) - PayMonth * q - PayMonth
      BY <2>1, BalancesAssumption
    <3>4. PayMonth * (p - 1) \in Int /\ PayMonth * q \in Int
      BY <2>1, BalancesAssumption
    <3> QED
      BY <2>1, <2>2, <3>2, <3>3, <3>4, BalancesAssumption
  <2>5. ASSUME q + 1 >= p PROVE ~(d < P!FirstDay(p))
    <3>1. PayMonth * (q - (p - 1)) >= 0
      BY <2>1, <2>5, BalancesAssumption
    <3>2. PayMonth * (q - (p - 1)) = PayMonth * q - PayMonth * (p - 1)
      BY <2>1, BalancesAssumption
    <3>3. PayMonth * (p - 1) \in Int /\ PayMonth * q \in Int
      BY <2>1, BalancesAssumption
    <3> QED
      BY <2>1, <2>2, <3>1, <3>2, <3>3, BalancesAssumption
  <2> QED
    BY <2>1, <2>2, <2>3, <2>4, <2>5
<1> QED
  BY <1>1, <1>5, <1>6, <1>7

LEMMA PayWeeks ==
  /\ \A d \in Int : P!WeekOf(d) \in Int
  /\ \A d, e \in Int : d <= e => P!WeekOf(d) <= P!WeekOf(e)
<1>1. \A d, e \in Int : d <= e => (d - 1) \div PayWeek <= (e - 1) \div PayWeek
  BY BalancesAssumption, QuotientGrows
<1>2. \A d \in Int : (d - 1) \div PayWeek \in Int
  BY BalancesAssumption
<1> QED
  BY <1>1, <1>2 DEF P!WeekOf

\* A row is a stretch of an approved absence: days of the month itself, or earlier
\* ones of months that were reported while the absence was not.
LEMMA RowDays ==
  ASSUME PayTypeOK, NEW p \in P!Months, p \notin P!ToSet(sent), NEW r \in PayRows(p),
         NEW d \in r.from .. r.to
  PROVE  /\ d \in Int /\ r.id \in P!Approved /\ d \in P!SpanOf(r.id)
         /\ \/ P!MonthOf(d) = p
            \/ /\ d < P!FirstDay(p) /\ absences[r.id].mark = 0
               /\ d \in P!Days => P!MonthOf(d) \in P!ToSet(sent)
<1>1. \A a \in P!Approved : /\ a \in DOMAIN absences /\ absences[a] \in PayRecord
                            /\ absences[a].from \in Int /\ absences[a].to \in Int
  <2>1. \A a \in P!Approved : a \in DOMAIN absences /\ absences[a] \in PayRecord
    BY DEF P!Approved, PayTypeOK
  <2> QED
    <3>1. ASSUME NEW a \in P!Approved PROVE absences[a].from \in Int /\ absences[a].to \in Int
      <4>1. absences[a].from \in P!Days /\ absences[a].to \in P!Days
        BY <2>1 DEF PayRecord
      <4> QED
        BY <4>1 DEF P!Days
    <3> QED
      BY <2>1, <3>1
<1>2. CASE r \in P!RegularRows(p)
  <2>1. PICK a \in P!Approved :
          /\ r = P!RowOf(a, P!Max({absences[a].from, P!FirstDay(p), ContractStart}),
                         P!Min({absences[a].to, P!LastDay(p)}))
    BY <1>2 DEF P!RegularRows
  <2>2. r.id = a /\ r.from = P!Max({absences[a].from, P!FirstDay(p), ContractStart})
        /\ r.to = P!Min({absences[a].to, P!LastDay(p)})
    BY <2>1 DEF P!RowOf
  <2>3. p \in Int /\ P!FirstDay(p) \in Int /\ P!LastDay(p) \in Int /\ P!LastDay(p) <= p * PayMonth
    <3>1. p \in Int /\ P!FirstDay(p) \in Int /\ p * PayMonth \in Int /\ PayDays \in Int
      BY PayMonths, BalancesAssumption
    <3> QED
      BY <3>1 DEF P!LastDay, P!Min
  <2>4. /\ r.from \in Int /\ r.from >= absences[a].from /\ r.from >= P!FirstDay(p)
        /\ r.to \in Int /\ r.to <= absences[a].to /\ r.to <= P!LastDay(p)
    <3>1. absences[a].from \in Int /\ absences[a].to \in Int /\ ContractStart \in Int
      BY <1>1, BalancesAssumption
    <3>2. \A x, y \in Int : P!Min({x, y}) \in Int /\ P!Min({x, y}) <= x /\ P!Min({x, y}) <= y
      BY DEF P!Min
    <3>3. r.from \in Int /\ r.from >= absences[a].from /\ r.from >= P!FirstDay(p)
      <4> DEFINE S == {absences[a].from, P!FirstDay(p), ContractStart}
      <4>1. \E m \in S : \A n \in S : m >= n
        BY <2>3, <3>1
      <4>2. r.from \in S /\ \A n \in S : r.from >= n
        BY <2>2, <4>1 DEF P!Max
      <4> QED
        BY <2>3, <3>1, <4>2
    <3>4. r.to \in Int /\ r.to <= absences[a].to /\ r.to <= P!LastDay(p)
      <4> DEFINE x == absences[a].to
                 y == P!LastDay(p)
      <4>1. x \in Int /\ y \in Int /\ r.to = P!Min({x, y})
        BY <2>2, <2>3, <3>1
      <4> HIDE DEF x, y
      <4>2. r.to \in Int /\ r.to <= x /\ r.to <= y
        BY <3>2, <4>1
      <4> QED
        BY <4>2 DEF x, y
    <3> QED
      BY <3>3, <3>4
  <2>5. d \in Int /\ d \in P!SpanOf(a) /\ ~(d < P!FirstDay(p)) /\ d <= p * PayMonth
    BY <1>1, <2>3, <2>4, BalancesAssumption DEF P!SpanOf
  <2>6. d < P!FirstDay(p + 1)
    <3>1. p * PayMonth \in Int /\ P!FirstDay(p + 1) = p * PayMonth + 1
      BY <2>3, BalancesAssumption DEF P!FirstDay
    <3> QED
      BY <2>5, <3>1
  <2>7. P!MonthOf(d) = p
    <3>1. P!MonthOf(d) \in Int
      BY <2>5, BalancesAssumption DEF P!MonthOf
    <3> QED
      BY <2>3, <2>5, <2>6, <3>1, PayMonths
  <2> QED
    BY <2>2, <2>5, <2>7
<1>3. CASE r \in P!LateRows(p)
  <2>1. PICK a \in P!Unreported(p) : \E s \in P!ReportableSegments(a, p) : r = P!RowOf(a, s[1], s[2])
    BY <1>3 DEF P!LateRows
  <2>2. PICK s \in P!ReportableSegments(a, p) : r = P!RowOf(a, s[1], s[2])
    BY <2>1
  <2>3. r.id = a /\ r.from = s[1] /\ r.to = s[2]
    BY <2>2 DEF P!RowOf
  <2>4. a \in P!Approved /\ absences[a].mark = 0
    BY DEF P!Unreported
  <2>5. /\ d \in P!SpanOf(a) /\ d < P!FirstDay(p) /\ P!MonthOf(d) \notin P!Owed(p)
    BY <2>3 DEF P!ReportableSegments
  <2>6. d \in Int
    BY <1>1, <2>4, <2>5 DEF P!SpanOf
  <2>7. d \in P!Days => P!MonthOf(d) \in P!ToSet(sent)
    BY <2>5, <2>6, PayMonths DEF P!Owed
  <2> QED
    BY <2>3, <2>4, <2>5, <2>6, <2>7
<1> QED
  BY <1>2, <1>3 DEF PayRows

\* A day a report claims.
LEMMA ClaimedDay ==
  ASSUME NEW p, NEW d \in P!Claimed(p)
  PROVE  /\ ~P!NeedsReview(p, PayRows(p))
         /\ d \in P!Days /\ P!Counts(d)
         /\ \E r \in PayRows(p) : d \in r.from .. r.to
  BY DEF P!Claimed, P!LeaveDays, PayRows

\* A set of days that is not empty has a last one.
LEMMA LastOfDays ==
  ASSUME NEW S \in SUBSET P!Days, S # {}
  PROVE  \E m \in S : \A n \in S : n <= m
<1> DEFINE Left == {PayDays - d : d \in S}
<1>1. Left \in SUBSET Nat /\ Left # {}
  <2>1. \A d \in S : d \in Int /\ d <= PayDays
    BY DEF P!Days
  <2>2. \A d \in S : PayDays - d \in Nat
    BY <2>1, BalancesAssumption
  <2> QED
    BY <2>2
<1>2. PICK k \in Left : \A l \in Left : k <= l
  BY <1>1, LeastNumber
<1>3. PICK m \in S : k = PayDays - m
  BY <1>2
<1>4. ASSUME NEW n \in S PROVE n <= m
  <2>1. PayDays - m <= PayDays - n
    BY <1>2, <1>3
  <2> QED
    BY <2>1, BalancesAssumption DEF P!Days
<1> QED
  BY <1>4

\* A report claims no more of a week without a pattern than the contract works: the
\* last day it claims has fewer before it.
LEMMA ClaimedWithinCap ==
  ASSUME NEW p, NEW w
  PROVE  LET S == {d \in P!Claimed(p) : P!WeekOf(d) = w /\ P!Capped(d)}
         IN IsFiniteSet(S) /\ Cardinality(S) <= Cap
<1> DEFINE S == {d \in P!Claimed(p) : P!WeekOf(d) = w /\ P!Capped(d)}
           rows == PayRows(p)
           away == {d \in P!Days : P!Counts(d) /\ \E r \in rows : d \in r.from .. r.to}
           before(d) == {e \in away : e < d /\ P!Capped(e) /\ P!WeekOf(e) = P!WeekOf(d)}
<1>1. S \in SUBSET P!Days /\ IsFiniteSet(S)
  BY ClaimedDay, PayMonths, FS_Subset
<1>2. CASE S = {}
  BY <1>2, FS_EmptySet, BalancesAssumption
<1>3. CASE S # {}
  <2>1. PICK m \in S : \A n \in S : n <= m
    BY <1>1, <1>3, LastOfDays
  <2>2. P!Claimed(p) \subseteq P!LeaveDays(rows)
    BY DEF P!Claimed, PayRows
  <2>3. P!LeaveDays(rows) \subseteq away
    BY DEF P!LeaveDays
  <2>4. Cardinality(before(m)) < Cap
    <3>1. P!LeaveDays(rows) = {d \in away : P!Capped(d) => P!Cardinality(before(d)) < Cap}
      BY DEF P!LeaveDays
    <3>2. m \in P!LeaveDays(rows) /\ P!Capped(m)
      BY <2>2
    <3> HIDE DEF before, away
    <3> QED
      BY <3>1, <3>2, PayCardinality
  <2>5. S \ {m} \subseteq before(m)
    <3>1. ASSUME NEW n \in S, n # m PROVE n < m
      <4>1. n \in Nat /\ m \in Nat
        BY <1>1, PayMonths
      <4> QED
        BY <2>1, <3>1, <4>1
    <3> QED
      BY <2>2, <2>3, <3>1
  <2>6. IsFiniteSet(before(m))
    BY PayMonths, FS_Subset
  <2>7. Cardinality(S \ {m}) <= Cardinality(before(m)) /\ Cardinality(before(m)) \in Nat
    BY <2>5, <2>6, MoreMembers
  <2>8. Cardinality(S) \in Nat /\ Cardinality(S \ {m}) = Cardinality(S) - 1
    BY <1>1, FewerLeft
  <2> QED
    BY <1>1, <2>4, <2>7, <2>8, BalancesAssumption
<1> QED
  BY <1>2, <1>3, <1>1

\* What sending a report changes.
LEMMA SendIs ==
  ASSUME PayTypeOK, NEW p \in P!Months, P!Send(p)
  PROVE  /\ p \notin P!ToSet(sent) /\ P!ToSet(sent)' = P!ToSet(sent) \cup {p}
         /\ charged' = charged \cup ({p} \X P!Claimed(p))
         /\ DOMAIN absences' = DOMAIN absences
         /\ \A a \in DOMAIN absences :
              /\ absences'[a].from = absences[a].from /\ absences'[a].to = absences[a].to
              /\ absences'[a].status = absences[a].status
              /\ absences'[a].mark =
                   IF a \in P!Declared(p) /\ absences[a].mark = 0 THEN p ELSE absences[a].mark
         /\ PayTypeOK'
<1>1. p \notin P!ToSet(sent) /\ sent' = Append(sent, p)
      /\ charged' = charged \cup ({p} \X P!Claimed(p))
  BY DEF P!Send
<1>2. absences' = [a \in DOMAIN absences |->
                    IF a \in P!Declared(p) /\ absences[a].mark = 0
                      THEN [absences[a] EXCEPT !.mark = p] ELSE absences[a]]
  BY DEF P!Send
<1>3. absences \in Seq(PayRecord) /\ sent \in Seq(P!Months)
  BY DEF PayTypeOK
<1>4. sent' \in Seq(P!Months) /\ Len(sent') = Len(sent) + 1 /\ sent'[Len(sent) + 1] = p
      /\ \A i \in 1..Len(sent) : sent'[i] = sent[i]
  BY <1>1, <1>3
<1>5. P!ToSet(sent)' = P!ToSet(sent) \cup {p}
  BY <1>3, <1>4 DEF P!ToSet
<1>6. \A a \in DOMAIN absences : absences[a] \in PayRecord
  BY <1>3
<1>7. \A a \in DOMAIN absences : [absences[a] EXCEPT !.mark = p] \in PayRecord
  BY <1>6 DEF PayRecord
<1>8. absences' \in Seq(PayRecord)
  <2>1. \A a \in DOMAIN absences : absences'[a] \in PayRecord
    BY <1>2, <1>6, <1>7
  <2>2. DOMAIN absences = 1..Len(absences) /\ Len(absences) \in Nat
    BY <1>3
  <2> HIDE DEF PayRecord
  <2>3. absences' = [a \in 1..Len(absences) |-> absences'[a]]
    BY <1>2, <2>2
  <2> QED
    BY <2>1, <2>2, <2>3
<1>9. charged' \in SUBSET (P!Months \X P!Days)
  BY <1>1, ClaimedDay DEF PayTypeOK
<1>10. \A a \in DOMAIN absences :
              /\ absences'[a].from = absences[a].from /\ absences'[a].to = absences[a].to
              /\ absences'[a].status = absences[a].status
              /\ absences'[a].mark =
                   IF a \in P!Declared(p) /\ absences[a].mark = 0 THEN p ELSE absences[a].mark
  BY <1>2, <1>6 DEF PayRecord
<1>11. PayTypeOK'
  BY <1>4, <1>8, <1>9 DEF PayTypeOK
<1> QED
  BY <1>1, <1>2, <1>5, <1>10, <1>11

LEMMA ReportedIsFinite ==
  ASSUME PayTypeOK
  PROVE  /\ IsFiniteSet(charged) /\ IsFiniteSet(DOMAIN absences)
         /\ \A d : /\ IsFiniteSet(ReportedOver(d)) /\ Cardinality(ReportedOver(d)) \in Nat
                   /\ IsFiniteSet(ClaimsOf(d)) /\ Cardinality(ClaimsOf(d)) \in Nat
<1>1. IsFiniteSet(P!Months \X P!Days)
  BY PayMonths, FS_Product
<1>2. IsFiniteSet(charged)
  BY <1>1, FS_Subset DEF PayTypeOK
<1>3. IsFiniteSet(DOMAIN absences)
  <2>1. DOMAIN absences = 1..Len(absences) /\ Len(absences) \in Nat
    BY DEF PayTypeOK
  <2> QED
    BY <2>1, FS_Interval
<1>4. \A d : IsFiniteSet(ReportedOver(d)) /\ IsFiniteSet(ClaimsOf(d))
  BY <1>2, <1>3, FS_Subset DEF ReportedOver, ClaimsOf
<1> QED
  BY <1>2, <1>3, <1>4, FS_CardinalityType

\* Reported absences stay, with their days, when a report is sent.
LEMMA SendReported ==
  ASSUME PayTypeOK, NEW p \in P!Months, P!Send(p)
  PROVE  /\ \A d : ReportedOver(d) \subseteq ReportedOver(d)'
         /\ \A r \in PayRows(p) : \A d \in P!SpanOf(r.id) :
              r.id \in DOMAIN absences => r.id \in ReportedOver(d)'
<1>1. \A a \in DOMAIN absences : P!SpanOf(a)' = P!SpanOf(a)
  BY SendIs DEF P!SpanOf
<1>2. p # 0
  BY PayMonths
<1>3. \A a \in DOMAIN absences : absences[a].mark # 0 => absences'[a].mark # 0
  BY SendIs
<1>4. \A d : ReportedOver(d) \subseteq ReportedOver(d)'
  BY <1>1, <1>3, SendIs DEF ReportedOver
<1>5. ASSUME NEW r \in PayRows(p), r.id \in DOMAIN absences PROVE absences'[r.id].mark # 0
  <2>1. r.id \in P!Declared(p)
    BY DEF P!Declared, PayRows
  <2> QED
    BY <1>2, <1>5, <2>1, SendIs
<1>6. ASSUME NEW r \in PayRows(p), NEW d \in P!SpanOf(r.id), r.id \in DOMAIN absences
      PROVE  r.id \in ReportedOver(d)'
  BY <1>1, <1>5, <1>6, SendIs DEF ReportedOver
<1> QED
  BY <1>4, <1>6

\* A report that claims a day of a week without a pattern finds nothing reported of
\* that week before its month.
LEMMA NothingSpent ==
  ASSUME PayTypeOK, NEW p \in P!Months, NEW d \in P!Claimed(p), P!Capped(d),
         NEW e \in P!Days, ReportedOver(e) # {}, P!WeekOf(e) = P!WeekOf(d)
  PROVE  ~(e < P!FirstDay(p))
<1> SUFFICES ASSUME e < P!FirstDay(p) PROVE FALSE
  OBVIOUS
<1>1. PICK r \in PayRows(p) : d \in r.from .. r.to
  BY ClaimedDay
<1>2. P!Covers(d) /\ d \notin PayHolidays /\ d \in P!Days
  BY ClaimedDay DEF P!Counts
<1>3. PICK a \in DOMAIN absences : absences[a].mark # 0 /\ e \in P!SpanOf(a)
  BY DEF ReportedOver
<1>4. absences[a].from \in Int /\ absences[a].to \in Int
  <2>1. absences[a] \in PayRecord
    BY DEF PayTypeOK
  <2>2. absences[a].from \in P!Days /\ absences[a].to \in P!Days
    BY <2>1 DEF PayRecord
  <2> QED
    BY <2>2 DEF P!Days
<1>5. e \in Int /\ p \in Int /\ P!FirstDay(p) \in Int
  BY PayMonths
<1>6. absences[a].from <= e /\ e <= absences[a].to
  BY <1>3, <1>4, <1>5 DEF P!SpanOf
<1>7. a \in P!Earlier(p)
  BY <1>3, <1>4, <1>5, <1>6 DEF P!Earlier
<1>8. P!WeekOf(absences[a].from) <= P!WeekOf(d)
  BY <1>4, <1>5, <1>6, PayWeeks
<1>9. P!WeekOf(d) <= P!WeekOf(P!Min({absences[a].to, P!FirstDay(p) - 1}))
  <2> DEFINE m == P!Min({absences[a].to, P!FirstDay(p) - 1})
  <2>1. m \in Int /\ e <= m
    BY <1>4, <1>5, <1>6 DEF P!Min
  <2> HIDE DEF m
  <2>2. P!WeekOf(e) <= P!WeekOf(m)
    BY <1>5, <2>1, PayWeeks
  <2> QED
    BY <2>2 DEF m
<1>10. P!NeedsReview(p, PayRows(p))
  BY <1>1, <1>2, <1>7, <1>8, <1>9 DEF P!NeedsReview
<1> QED
  BY <1>10, ClaimedDay

\* The day and its row of a new claim.
LEMMA NewClaim ==
  ASSUME PayTypeOK, NEW p \in P!Months, p \notin P!ToSet(sent), NEW d \in P!Claimed(p)
  PROVE  \E r \in PayRows(p) :
           /\ r.id \in P!Approved /\ r.id \in DOMAIN absences /\ d \in P!SpanOf(r.id)
           /\ \/ P!MonthOf(d) = p
              \/ /\ d < P!FirstDay(p) /\ absences[r.id].mark = 0
                 /\ P!MonthOf(d) \in P!ToSet(sent)
<1>1. PICK r \in PayRows(p) : d \in r.from .. r.to
  BY ClaimedDay
<1>2. d \in P!Days
  BY ClaimedDay
<1> QED
  BY <1>1, <1>2, RowDays DEF P!Approved

LEMMA SendKeepsSent ==
  ASSUME PayInv, NEW p \in P!Months, P!Send(p)
  PROVE  ClaimsAreSent'
<1> SUFFICES ASSUME NEW c \in charged' PROVE {c[1], P!MonthOf(c[2])} \subseteq P!ToSet(sent)'
  BY DEF ClaimsAreSent, P!MonthOf
<1>1. CASE c \in charged
  BY <1>1, SendIs DEF PayInv, ClaimsAreSent
<1>2. CASE c \in {p} \X P!Claimed(p)
  <2>1. c[1] = p /\ c[2] \in P!Claimed(p)
    BY <1>2
  <2>2. P!MonthOf(c[2]) = p \/ P!MonthOf(c[2]) \in P!ToSet(sent)
    BY <2>1, NewClaim, SendIs DEF PayInv
  <2> QED
    BY <2>1, <2>2, SendIs DEF PayInv
<1> QED
  BY <1>1, <1>2, SendIs DEF PayInv

LEMMA SendKeepsShown ==
  ASSUME PayInv, NEW p \in P!Months, P!Send(p)
  PROVE  ClaimsAreShown'
<1>1. PayTypeOK /\ PayTypeOK' /\ p \notin P!ToSet(sent)
  BY SendIs DEF PayInv
<1> SUFFICES ASSUME NEW d \in P!Days
             PROVE  /\ Cardinality(ClaimsOf(d)') <= Cardinality(ReportedOver(d)')
                    /\ ClaimsOf(d)' # {} => ReportedOver(d)' # {}
  BY DEF ClaimsAreShown, P!Days
<1>2. /\ Cardinality(ClaimsOf(d)) <= Cardinality(ReportedOver(d))
      /\ ClaimsOf(d) # {} => ReportedOver(d) # {}
  BY DEF PayInv, ClaimsAreShown
<1>3. /\ IsFiniteSet(ReportedOver(d)') /\ Cardinality(ReportedOver(d)') \in Nat
      /\ Cardinality(ReportedOver(d)) \in Nat /\ IsFiniteSet(ReportedOver(d))
      /\ IsFiniteSet(ClaimsOf(d)) /\ Cardinality(ClaimsOf(d)) \in Nat
  <2>1. IsFiniteSet(ReportedOver(d)') /\ Cardinality(ReportedOver(d)') \in Nat
    <3>1. ReportedOver(d)' \subseteq DOMAIN absences
      BY <1>1, SendIs DEF ReportedOver
    <3> QED
      BY <1>1, <3>1, ReportedIsFinite, FS_Subset, FS_CardinalityType
  <2> QED
    BY <1>1, <2>1, ReportedIsFinite
<1>4. ReportedOver(d) \subseteq ReportedOver(d)'
  BY <1>1, SendReported
<1>5. CASE d \notin P!Claimed(p)
  <2>1. ClaimsOf(d)' = ClaimsOf(d)
    BY <1>1, <1>5, SendIs DEF ClaimsOf
  <2>2. Cardinality(ReportedOver(d)) <= Cardinality(ReportedOver(d)')
    BY <1>3, <1>4, MoreMembers
  <2> QED
    BY <1>2, <1>3, <1>4, <2>1, <2>2
<1>6. CASE d \in P!Claimed(p)
  <2>1. PICK r \in PayRows(p) :
           /\ r.id \in P!Approved /\ r.id \in DOMAIN absences /\ d \in P!SpanOf(r.id)
           /\ \/ P!MonthOf(d) = p
              \/ absences[r.id].mark = 0 /\ P!MonthOf(d) \in P!ToSet(sent)
    BY <1>1, <1>6, NewClaim
  <2>2. r.id \in ReportedOver(d)'
    BY <1>1, <2>1, SendReported
  <2>3. ClaimsOf(d)' = ClaimsOf(d) \cup {<<p, d>>}
    BY <1>1, <1>6, SendIs DEF ClaimsOf
  <2>4. Cardinality(ClaimsOf(d)') <= Cardinality(ClaimsOf(d)) + 1
        /\ Cardinality(ClaimsOf(d)') \in Nat
    <3> DEFINE S == ClaimsOf(d)
    <3>1. IsFiniteSet(S) /\ Cardinality(S) \in Nat
      BY <1>3
    <3> HIDE DEF S
    <3>2. /\ Cardinality(S \cup {<<p, d>>}) <= Cardinality(S) + 1
          /\ Cardinality(S \cup {<<p, d>>}) \in Nat
      BY <3>1, FS_AddElement
    <3> QED
      BY <2>3, <3>2 DEF S
  <2>5. CASE P!MonthOf(d) = p
    <3>1. ClaimsOf(d) = {}
      BY <1>1, <2>5 DEF ClaimsOf, PayInv, ClaimsAreSent
    <3>2. Cardinality(ReportedOver(d)') # 0
      BY <1>3, <2>2, FS_EmptySet
    <3> QED
      BY <1>3, <2>2, <2>4, <3>1, <3>2, FS_EmptySet
  <2>6. CASE absences[r.id].mark = 0
    <3>1. r.id \notin ReportedOver(d)
      BY <2>6 DEF ReportedOver
    <3>2. Cardinality(ReportedOver(d)) < Cardinality(ReportedOver(d)')
      BY <1>3, <1>4, <2>2, <3>1, MoreMembers
    <3> QED
      BY <1>2, <1>3, <2>2, <2>4, <3>2
  <2> QED
    BY <2>1, <2>5, <2>6
<1> QED
  BY <1>5, <1>6

LEMMA SendKeepsCappedOnce ==
  ASSUME PayInv, NEW p \in P!Months, P!Send(p)
  PROVE  CappedOnce'
<1>1. PayTypeOK /\ PayTypeOK' /\ p \notin P!ToSet(sent)
  BY SendIs DEF PayInv
\* A new claim is not of a day claimed before.
<1>2. ASSUME NEW c \in charged, NEW d \in P!Claimed(p), c[2] = d, P!Capped(d)
      PROVE  FALSE
  <2>1. PICK r \in PayRows(p) :
          P!MonthOf(d) = p \/ (d < P!FirstDay(p) /\ P!MonthOf(d) \in P!ToSet(sent))
    BY <1>1, NewClaim
  <2>2. P!MonthOf(d) \in P!ToSet(sent)
    BY <1>2 DEF PayInv, ClaimsAreSent
  <2>3. d < P!FirstDay(p)
    BY <1>1, <2>1, <2>2
  <2>4. d \in P!Days
    BY ClaimedDay
  <2>5. ReportedOver(d) # {}
    BY <1>2, <2>4 DEF PayInv, ClaimsAreShown, ClaimsOf
  <2> QED
    BY <1>1, <1>2, <2>3, <2>4, <2>5, NothingSpent
<1> SUFFICES ASSUME NEW c1 \in charged', NEW c2 \in charged', c1[2] = c2[2], P!Capped(c1[2])
             PROVE  c1 = c2
  BY DEF CappedOnce, P!Capped, P!Recorded
<1>3. charged' = charged \cup ({p} \X P!Claimed(p))
  BY <1>1, SendIs
<1>4. CASE c1 \in charged /\ c2 \in charged
  BY <1>4 DEF PayInv, CappedOnce
<1>5. CASE c1 \in {p} \X P!Claimed(p) /\ c2 \in {p} \X P!Claimed(p)
  BY <1>5
<1> QED
  BY <1>2, <1>3, <1>4, <1>5

LEMMA BackwardsStays ==
  ASSUME PayTypeOK, NEW p \in P!Months, P!Send(p), NEW w, P!SentBackwards(w)
  PROVE  P!SentBackwards(w)'
<1>1. sent' = Append(sent, p) /\ sent \in Seq(P!Months)
  BY DEF P!Send, PayTypeOK
<1>2. DOMAIN sent \subseteq DOMAIN sent' /\ \A i \in DOMAIN sent : sent'[i] = sent[i]
  BY <1>1
<1> QED
  BY <1>2 DEF P!SentBackwards

LEMMA SendKeepsOneReport ==
  ASSUME PayInv, NEW p \in P!Months, P!Send(p)
  PROVE  OneReport'
<1>1. /\ PayTypeOK /\ PayTypeOK' /\ p \notin P!ToSet(sent)
      /\ charged' = charged \cup ({p} \X P!Claimed(p))
  BY SendIs DEF PayInv
<1>2. sent \in Seq(P!Months) /\ sent' = Append(sent, p)
  BY <1>1 DEF P!Send, PayTypeOK
\* A report that comes to a week another one has claimed days of is sent after that of
\* a later month with a day of it.
<1>3. ASSUME NEW c \in charged, NEW d \in P!Claimed(p), P!Capped(d),
             P!WeekOf(c[2]) = P!WeekOf(d)
      PROVE  P!SentBackwards(P!WeekOf(d))'
  <2> DEFINE e == c[2]
             q == P!MonthOf(e)
  <2>1. d \in P!Days /\ e \in P!Days
    BY <1>1, ClaimedDay DEF PayTypeOK
  <2>2. q \in P!ToSet(sent)
    BY DEF PayInv, ClaimsAreSent
  <2>3. ReportedOver(e) # {}
    BY <2>1 DEF PayInv, ClaimsAreShown, ClaimsOf
  <2>4. ~(e < P!FirstDay(p))
    BY <1>1, <1>3, <2>1, <2>3, NothingSpent
  <2>5. d \in Int /\ e \in Int /\ p \in Int /\ q \in Int /\ P!FirstDay(p) \in Int
    <3>1. q \in P!Months
      BY <2>1, PayMonths
    <3>2. P!Months \subseteq Int /\ P!Days \subseteq Int
      BY PayMonths
    <3> QED
      BY <2>1, <3>1, <3>2, PayMonths
  <2>6. p < q
    BY <1>1, <2>2, <2>4, <2>5, PayMonths
  <2>7. \E f \in P!Days : P!WeekOf(f) = P!WeekOf(d) /\ P!MonthOf(f) = p
    <3>1. CASE P!MonthOf(d) = p
      BY <2>1, <3>1
    <3>2. CASE d < P!FirstDay(p)
      <4> DEFINE f == P!FirstDay(p)
      <4>1. d <= f /\ f <= e
        BY <2>4, <2>5, <3>2
      <4>2. f \in P!Days
        BY <2>1, <2>5, <4>1, BalancesAssumption DEF P!Days
      <4>3. P!WeekOf(f) = P!WeekOf(d)
        BY <1>3, <2>5, <4>1, PayWeeks
      <4>4. P!MonthOf(f) = p
        <5>1. ~(P!MonthOf(f) < p)
          BY <2>5, PayMonths
        <5>2. P!FirstDay(p) < P!FirstDay(p + 1)
          BY <2>5, BalancesAssumption DEF P!FirstDay
        <5>3. P!MonthOf(f) < p + 1
          BY <2>5, <5>2, PayMonths
        <5>4. P!MonthOf(f) \in Int
          <6>1. P!Months \subseteq Int /\ P!MonthOf(f) \in P!Months
            BY <4>2, PayMonths
          <6> QED
            BY <6>1
        <5> QED
          BY <2>5, <5>1, <5>3, <5>4
      <4> QED
        BY <4>2, <4>3, <4>4
    <3> QED
      BY <1>1, <3>1, <3>2, NewClaim
  <2>8. PICK i \in DOMAIN sent : sent[i] = q
    BY <2>2 DEF P!ToSet
  <2>9. /\ i \in DOMAIN sent' /\ Len(sent) + 1 \in DOMAIN sent' /\ i < Len(sent) + 1
        /\ sent'[i] = q /\ sent'[Len(sent) + 1] = p
    BY <1>2, <2>8
  <2> QED
    BY <1>3, <2>1, <2>6, <2>7, <2>9 DEF P!SentBackwards
<1> SUFFICES ASSUME NEW w, ~P!SentBackwards(w)', NEW c1 \in ClaimsIn(w)', NEW c2 \in ClaimsIn(w)'
             PROVE  c1[1] = c2[1]
  BY DEF OneReport
<1>4. /\ c1 \in charged' /\ P!WeekOf(c1[2]) = w /\ P!Capped(c1[2])
      /\ c2 \in charged' /\ P!WeekOf(c2[2]) = w /\ P!Capped(c2[2])
  BY DEF ClaimsIn, P!Capped, P!Recorded, P!WeekOf
<1>5. CASE c1 \in charged /\ c2 \in charged
  <2>1. ~P!SentBackwards(w)
    BY <1>1, BackwardsStays
  <2>2. c1 \in ClaimsIn(w) /\ c2 \in ClaimsIn(w)
    BY <1>4, <1>5 DEF ClaimsIn
  <2> QED
    BY <2>1, <2>2 DEF PayInv, OneReport
<1>6. CASE c1 \in {p} \X P!Claimed(p) /\ c2 \in {p} \X P!Claimed(p)
  BY <1>6
<1> QED
  BY <1>1, <1>3, <1>4, <1>5, <1>6

LEMMA SendKeepsCap ==
  ASSUME PayInv, NEW p \in P!Months, P!Send(p)
  PROVE  WithinCap'
<1>1. /\ PayTypeOK /\ p \notin P!ToSet(sent)
      /\ charged' = charged \cup ({p} \X P!Claimed(p))
  BY SendIs DEF PayInv
<1> SUFFICES ASSUME NEW q, NEW w PROVE Cardinality(ClaimsBy(q, w)') <= Cap
  BY DEF WithinCap
<1>2. ClaimsBy(q, w)' = {c \in charged' : P!WeekOf(c[2]) = w /\ P!Capped(c[2]) /\ c[1] = q}
  BY DEF ClaimsBy, ClaimsIn, P!WeekOf, P!Capped, P!Recorded
<1>3. CASE q # p
  <2>1. ClaimsBy(q, w)' = ClaimsBy(q, w)
    BY <1>1, <1>2, <1>3 DEF ClaimsBy, ClaimsIn
  <2> QED
    BY <2>1 DEF PayInv, WithinCap
<1>4. CASE q = p
  <2> DEFINE S == {d \in P!Claimed(p) : P!WeekOf(d) = w /\ P!Capped(d)}
             T == {c \in charged' : P!WeekOf(c[2]) = w /\ P!Capped(c[2]) /\ c[1] = q}
             f == [d \in S |-> <<p, d>>]
  <2>1. IsFiniteSet(S) /\ Cardinality(S) <= Cap
    BY ClaimedWithinCap
  <2>2. \A c \in charged : c[1] # p
    BY <1>1 DEF PayInv, ClaimsAreSent
  <2>3. ASSUME NEW c \in T PROVE \E d \in S : f[d] = c
    <3>1. c \in {p} \X P!Claimed(p)
      BY <1>1, <1>4, <2>2
    <3>2. c[2] \in S /\ c = <<p, c[2]>>
      BY <3>1
    <3> QED
      BY <3>2
  <2>4. \A d \in S : f[d] \in T
    BY <1>1, <1>4
  <2>5. f \in Surjection(S, T)
    <3> HIDE DEF S, T
    <3> QED
      BY <2>3, <2>4 DEF Surjection
  <2>6. Cardinality(T) <= Cardinality(S) /\ IsFiniteSet(T)
    <3> HIDE DEF S, T, f
    <3> QED
      BY <2>1, <2>5, FS_Surjection
  <2>7. Cardinality(T) \in Nat /\ Cardinality(S) \in Nat
    <3> HIDE DEF S, T, f
    <3> QED
      BY <2>1, <2>6, FS_CardinalityType
  <2> HIDE DEF S, f
  <2>8. Cardinality(T) <= Cap
    <3> HIDE DEF T
    <3> QED
      BY <2>1, <2>6, <2>7, BalancesAssumption
  <2> QED
    BY <1>2, <2>8
<1> QED
  BY <1>3, <1>4

\* What employees do to their absences leaves the claims and what was reported.
LEMMA ClaimsStand ==
  ASSUME PayInv, UNCHANGED <<sent, charged>>, \A d : ReportedOver(d)' = ReportedOver(d)
  PROVE  ClaimsAreSent' /\ ClaimsAreShown' /\ CappedOnce' /\ OneReport' /\ WithinCap'
<1>1. ClaimsAreSent'
  BY DEF PayInv, ClaimsAreSent, P!MonthOf
<1>2. ClaimsAreShown'
  BY DEF PayInv, ClaimsAreShown, ClaimsOf, P!Days
<1>3. CappedOnce'
  BY DEF PayInv, CappedOnce, P!Capped, P!Recorded
<1>4. \A w : ClaimsIn(w)' = ClaimsIn(w)
  BY DEF ClaimsIn, P!WeekOf, P!Capped, P!Recorded
<1>5. \A w : P!SentBackwards(w)' <=> P!SentBackwards(w)
  BY DEF P!SentBackwards, P!Days, P!WeekOf, P!MonthOf
<1>6. OneReport'
  BY <1>4, <1>5 DEF PayInv, OneReport
<1>7. \A p, w : ClaimsBy(p, w)' = ClaimsBy(p, w)
  BY <1>4 DEF ClaimsBy
<1>8. WithinCap'
  BY <1>7 DEF PayInv, WithinCap
<1> QED
  BY <1>1, <1>2, <1>3, <1>6, <1>8

LEMMA FileKeeps ==
  ASSUME PayInv, NEW from \in P!Days, NEW to \in P!Days, NEW cat \in Categories, from <= to,
         P!File(from, to, cat)
  PROVE  PayInv'
<1> DEFINE new == [from |-> from, to |-> to, cat |-> cat, status |-> "approved", mark |-> 0]
<1>0. PICK n \in Nat : n = Len(absences) + 1
  BY DEF PayInv, PayTypeOK
<1>1. /\ absences' = Append(absences, new) /\ UNCHANGED <<sent, charged>>
      /\ \A a \in P!Approved : to < absences[a].from \/ absences[a].to < from
  BY DEF P!File
<1>2. absences \in Seq(PayRecord)
  BY DEF PayInv, PayTypeOK
<1>3. new \in PayRecord
  BY DEF PayRecord
<1>4. /\ absences' \in Seq(PayRecord) /\ n \notin DOMAIN absences
      /\ DOMAIN absences' = DOMAIN absences \cup {n} /\ absences'[n] = new
      /\ \A a \in DOMAIN absences : absences'[a] = absences[a]
  <2> HIDE DEF PayRecord, new
  <2> QED
    BY <1>0, <1>1, <1>2, <1>3
<1>5. PayTypeOK'
  BY <1>1, <1>4 DEF PayInv, PayTypeOK, PayRecord, P!Days, P!Months, P!MonthOf
<1>6. \A d : ReportedOver(d)' = ReportedOver(d)
  <2>1. \A a \in DOMAIN absences : P!SpanOf(a)' = P!SpanOf(a)
    BY <1>4 DEF P!SpanOf
  <2> QED
    BY <1>4, <2>1 DEF ReportedOver
<1>7. AwayOnce'
  <2> SUFFICES ASSUME NEW a \in P!Approved', NEW b \in P!Approved', a # b,
                      NEW d \in P!SpanOf(a)' \cap P!SpanOf(b)'
               PROVE  FALSE
    BY DEF AwayOnce
  <2>1. P!Approved' \subseteq P!Approved \cup {n}
    BY <1>4 DEF P!Approved
  <2>2. \A c \in P!Approved : P!SpanOf(c)' = P!SpanOf(c)
    BY <1>4 DEF P!SpanOf, P!Approved
  <2>3. P!SpanOf(n)' = from .. to
    BY <1>4 DEF P!SpanOf
  <2>4. ASSUME NEW c \in P!Approved, d \in from .. to, d \in P!SpanOf(c) PROVE FALSE
    <3>1. absences[c] \in PayRecord
      BY <1>2 DEF P!Approved
    <3>2. absences[c].from \in Int /\ absences[c].to \in Int /\ from \in Int /\ to \in Int
      BY <3>1 DEF PayRecord, P!Days
    <3> QED
      BY <1>1, <2>4, <3>2 DEF P!SpanOf
  <2>5. CASE a \in P!Approved /\ b \in P!Approved
    <3>1. d \in P!SpanOf(a) \cap P!SpanOf(b)
      BY <2>2, <2>5
    <3> QED
      BY <2>5, <3>1 DEF PayInv, AwayOnce
  <2>6. CASE a = n
    <3>1. b \in P!Approved /\ d \in P!SpanOf(b)' /\ d \in from .. to
      BY <2>1, <2>3, <2>6
    <3> QED
      BY <2>2, <2>4, <3>1
  <2>7. CASE b = n
    <3>1. a \in P!Approved /\ d \in P!SpanOf(a)' /\ d \in from .. to
      BY <2>1, <2>3, <2>7
    <3> QED
      BY <2>2, <2>4, <3>1
  <2> QED
    BY <2>1, <2>5, <2>6, <2>7
<1> QED
  BY <1>1, <1>5, <1>6, <1>7, ClaimsStand DEF PayInv

LEMMA CancelKeeps ==
  ASSUME PayInv, NEW a \in DOMAIN absences, P!Cancel(a)
  PROVE  PayInv'
<1>1. /\ absences' = [absences EXCEPT ![a].status = "cancelled"] /\ UNCHANGED <<sent, charged>>
      /\ absences \in Seq(PayRecord)
  BY DEF P!Cancel, PayInv, PayTypeOK
<1>2. absences[a] \in PayRecord /\ [absences[a] EXCEPT !.status = "cancelled"] \in PayRecord
  <2>1. absences[a] \in PayRecord
    BY <1>1
  <2> QED
    BY <2>1 DEF PayRecord
<1>3. /\ absences' \in Seq(PayRecord) /\ DOMAIN absences' = DOMAIN absences
      /\ \A b \in DOMAIN absences : b # a => absences'[b] = absences[b]
      /\ absences'[a] = [absences[a] EXCEPT !.status = "cancelled"]
  <2> HIDE DEF PayRecord
  <2> QED
    BY <1>1, <1>2
<1>4. \A b \in DOMAIN absences :
        /\ absences'[b].from = absences[b].from /\ absences'[b].to = absences[b].to
        /\ absences'[b].mark = absences[b].mark
        /\ absences'[b].status = "approved" => absences[b].status = "approved"
  BY <1>2, <1>3 DEF PayRecord
<1>5. PayTypeOK'
  BY <1>1, <1>3 DEF PayInv, PayTypeOK, PayRecord, P!Days, P!Months, P!MonthOf
<1>6. \A b \in DOMAIN absences : P!SpanOf(b)' = P!SpanOf(b)
  BY <1>4 DEF P!SpanOf
<1>7. \A d : ReportedOver(d)' = ReportedOver(d)
  BY <1>3, <1>4, <1>6 DEF ReportedOver
<1>8. P!Approved' \subseteq P!Approved /\ P!Approved \subseteq DOMAIN absences
  BY <1>3, <1>4 DEF P!Approved
<1>9. AwayOnce'
  BY <1>6, <1>8 DEF PayInv, AwayOnce
<1> QED
  BY <1>1, <1>5, <1>7, <1>9, ClaimsStand DEF PayInv

LEMMA SendKeeps ==
  ASSUME PayInv, NEW p \in P!Months, P!Send(p)
  PROVE  PayInv'
<1>1. PayTypeOK
  BY DEF PayInv
<1>2. P!Approved' = P!Approved
  BY <1>1, SendIs DEF P!Approved
<1>3. \A a \in P!Approved : P!SpanOf(a)' = P!SpanOf(a)
  BY <1>1, SendIs DEF P!Approved, P!SpanOf
<1>4. AwayOnce'
  BY <1>2, <1>3 DEF PayInv, AwayOnce
<1> QED
  BY <1>1, <1>4, SendIs, SendKeepsSent, SendKeepsShown, SendKeepsCappedOnce,
     SendKeepsOneReport, SendKeepsCap DEF PayInv

LEMMA PayStarts == P!Init => PayInv
<1> SUFFICES ASSUME P!Init PROVE PayInv
  OBVIOUS
<1>1. absences = <<>> /\ sent = <<>> /\ charged = {}
  BY DEF P!Init
<1>2. PayTypeOK
  BY <1>1 DEF PayTypeOK
<1>3. AwayOnce
  BY <1>1 DEF AwayOnce, P!Approved
<1>4. \A d : ClaimsOf(d) = {}
  BY <1>1 DEF ClaimsOf
<1>5. \A p, w : ClaimsBy(p, w) = {}
  BY <1>1 DEF ClaimsBy, ClaimsIn
<1>6. ClaimsAreShown
  <2>1. \A d : Cardinality(ReportedOver(d)) \in Nat
    BY <1>2, ReportedIsFinite
  <2> QED
    BY <1>4, <2>1, FS_EmptySet DEF ClaimsAreShown
<1>7. WithinCap
  BY <1>5, FS_EmptySet, BalancesAssumption DEF WithinCap
<1> QED
  BY <1>1, <1>2, <1>3, <1>6, <1>7 DEF PayInv, ClaimsAreSent, CappedOnce, OneReport, ClaimsIn

LEMMA PayStays == PayInv /\ [P!Next]_(P!vars) => PayInv'
<1> SUFFICES ASSUME PayInv, [P!Next]_(P!vars) PROVE PayInv'
  OBVIOUS
<1>1. CASE UNCHANGED P!vars
  <2>1. UNCHANGED <<absences, sent, charged>>
    BY <1>1 DEF P!vars
  <2>2. \A d : ReportedOver(d)' = ReportedOver(d)
    BY <2>1 DEF ReportedOver, P!SpanOf
  <2>3. PayTypeOK' /\ AwayOnce'
    BY <2>1 DEF PayInv, PayTypeOK, PayRecord, AwayOnce, P!Days, P!Months, P!MonthOf,
                P!Approved, P!SpanOf
  <2> QED
    BY <2>1, <2>2, <2>3, ClaimsStand DEF PayInv
<1> QED
  BY <1>1, FileKeeps, CancelKeeps, SendKeeps DEF P!Next

\* With at most one approved absence over a day, the others reported were taken back.
LEMMA ReportedIs ==
  ASSUME PayInv, NEW d \in P!Days
  PROVE  Cardinality(ReportedOver(d)) <= 1 + Cardinality(P!TakenBack(d))
<1> DEFINE R == ReportedOver(d)
           T == P!TakenBack(d)
<1>1. PayTypeOK
  BY DEF PayInv
<1>2. T \subseteq R
  BY DEF P!TakenBack, ReportedOver
<1>3. IsFiniteSet(R) /\ IsFiniteSet(T) /\ Cardinality(R) \in Nat /\ Cardinality(T) \in Nat
  BY <1>1, <1>2, ReportedIsFinite, MoreMembers
<1>4. ASSUME NEW a \in R \ T PROVE a \in P!Approved /\ d \in P!SpanOf(a)
  <2>1. a \in DOMAIN absences /\ absences[a] \in PayRecord
    BY <1>1 DEF ReportedOver, PayTypeOK
  <2>2. absences[a].status \in {"approved", "cancelled"}
    BY <2>1 DEF PayRecord
  <2> QED
    BY <2>1, <2>2 DEF ReportedOver, P!TakenBack, P!Approved
<1>5. \A a, b \in R \ T : a = b
  BY <1>4 DEF PayInv, AwayOnce
<1> HIDE DEF R, T
<1>6. CASE R \subseteq T
  <2>1. R = T
    BY <1>2, <1>6
  <2> QED
    BY <1>3, <2>1 DEF R, T
<1>7. CASE ~(R \subseteq T)
  <2>1. PICK a \in R : a \notin T
    BY <1>7
  <2>2. R = T \cup {a}
    BY <1>2, <1>5, <2>1
  <2>3. Cardinality(R) = Cardinality(T) + 1
    BY <1>3, <2>1, <2>2, FS_AddElement
  <2> QED
    BY <1>3, <2>3 DEF R, T
<1> QED
  BY <1>6, <1>7

LEMMA PaidOnceIs == PayInv => P!PaidOnce
<1> SUFFICES ASSUME PayInv PROVE P!PaidOnce
  OBVIOUS
<1>1. PayTypeOK
  BY DEF PayInv
<1>2. ASSUME NEW d \in P!Days
      PROVE  P!Cardinality({c \in charged : c[2] = d}) <= 1 + P!Cardinality(P!TakenBack(d))
  <2>1. Cardinality(ClaimsOf(d)) <= Cardinality(ReportedOver(d))
    BY DEF PayInv, ClaimsAreShown
  <2>2. P!TakenBack(d) \subseteq ReportedOver(d)
    BY DEF P!TakenBack, ReportedOver
  <2>3. /\ Cardinality(ClaimsOf(d)) \in Nat /\ Cardinality(ReportedOver(d)) \in Nat
        /\ Cardinality(P!TakenBack(d)) \in Nat
    BY <1>1, <2>2, ReportedIsFinite, MoreMembers
  <2>4. Cardinality(ClaimsOf(d)) <= 1 + Cardinality(P!TakenBack(d))
    BY <2>1, <2>3, ReportedIs
  <2> QED
    BY <2>4, PayCardinality DEF ClaimsOf
<1>3. \A c1, c2 \in charged : c1[2] = c2[2] /\ P!Capped(c1[2]) => c1 = c2
  BY DEF PayInv, CappedOnce
<1>4. ASSUME NEW w, ~P!SentBackwards(w)
      PROVE  P!Cardinality({c \in charged : P!WeekOf(c[2]) = w /\ P!Capped(c[2])}) <= Cap
  <2>1. \A c1, c2 \in ClaimsIn(w) : c1[1] = c2[1]
    BY <1>4 DEF PayInv, OneReport
  <2>2. \E p : ClaimsIn(w) = ClaimsBy(p, w)
    <3>1. CASE ClaimsIn(w) = {}
      BY <3>1 DEF ClaimsBy
    <3>2. CASE ClaimsIn(w) # {}
      <4>1. PICK c \in ClaimsIn(w) : TRUE
        BY <3>2
      <4>2. ClaimsIn(w) = ClaimsBy(c[1], w)
        BY <2>1, <4>1 DEF ClaimsBy
      <4> QED
        BY <4>2
    <3> QED
      BY <3>1, <3>2
  <2>3. Cardinality(ClaimsIn(w)) <= Cap
    BY <2>2 DEF PayInv, WithinCap
  <2> QED
    BY <2>3, PayCardinality DEF ClaimsIn
<1> QED
  BY <1>2, <1>3, <1>4 DEF P!PaidOnce

PayPart == part = "payroll" => PayInv

LEMMA PayPartSteps ==
  ASSUME [MCNext]_all, part = "payroll"
  PROVE  [P!Next]_(P!vars) /\ part' = part
<1>1. CASE UNCHANGED all
  BY <1>1 DEF all, payroll, P!vars
<1>2. CASE MCNext
  BY <1>2 DEF MCNext
<1> QED
  BY <1>1, <1>2

\* The reports of all months together claim a day once, and once more only for an
\* absence that was reported and taken back, and of a week without recorded weekdays
\* no more days than the contract works: whatever the length of weeks and months, the
\* number of absences and the order of the reports (finish_absence_rows).
THEOREM ContinuedPayClaimedOnce == (P!Spec => []P!PaidOnce) /\ (MCSpec => []QuotaPaidOnce)
<1>1. P!Spec => []P!PaidOnce
  BY PayStarts, PayStays, PaidOnceIs, PTL DEF P!Spec
<1>2. MCInit => PayPart
  BY PayStarts DEF MCInit, PayPart
<1>3. ASSUME PayPart, [MCNext]_all PROVE PayPart'
  <2>1. part' = part
    BY <1>3 DEF MCNext, all
  <2> QED
    BY <1>3, <2>1, PayPartSteps, PayStays DEF PayPart
<1>4. PayPart => QuotaPaidOnce
  BY PaidOnceIs DEF PayPart, QuotaPaidOnce
<1>5. MCSpec => []QuotaPaidOnce
  BY <1>2, <1>3, <1>4, PTL DEF MCSpec
<1> QED
  BY <1>1, <1>5

-----------------------------------------------------------------------------
(* Illnesses: rows that go on, and the lines a report makes of them. *)

\* Rows of days, no two of which share one.
DayRows(S) ==
  /\ \A r \in S : r.from \in P!Days /\ r.to \in P!Days /\ r.from <= r.to
  /\ \A r, q \in S : r = q \/ r.to < q.from \/ q.to < r.from

In(z, S) == \E r \in S : r.from <= z /\ z <= r.to

\* From x to y nothing interrupts the rows.
GoesOn(S, x, y) == \A z \in Int : x <= z /\ z <= y => In(z, S) \/ P!Bridgeable(z)

LEMMA DayRowsAre ==
  ASSUME NEW S, DayRows(S)
  PROVE  \A r \in S : /\ r.from \in P!Days /\ r.from \in Nat
                      /\ r.to \in P!Days /\ r.to \in Nat /\ r.from <= r.to
BY PayMonths DEF DayRows

\* A run is not interrupted: of the rows after an interruption the first would
\* begin a run of its own.
LEMMA RunGoesOn ==
  ASSUME NEW S, DayRows(S), NEW first \in P!Firsts(S), NEW r \in P!RunOf(first, S)
  PROVE  GoesOn(S, first.from, r.to)
<1> SUFFICES ASSUME NEW z \in Int, first.from <= z, z <= r.to, ~In(z, S)
             PROVE  P!Bridgeable(z)
  BY DEF GoesOn
<1>1. /\ r \in S /\ first \in S /\ first.from <= r.from
      /\ \A f \in P!Firsts(S) : f.from <= r.from => f.from <= first.from
  BY DEF P!RunOf, P!Firsts
<1>2. \A q \in S : q.from \in Nat /\ q.to \in Nat /\ q.from <= q.to
  BY DayRowsAre
<1>3. z < r.from
  BY <1>1, <1>2 DEF In
<1> DEFINE After == {q.from : q \in {s \in S : z < s.from}}
<1>4. After \in SUBSET Nat /\ After # {}
  BY <1>1, <1>2, <1>3
<1>5. PICK n \in After : \A m \in After : n <= m
  BY <1>4, LeastNumber
<1>6. PICK c \in S : z < c.from /\ n = c.from
  BY <1>5
<1>7. \A q \in S : z < q.from => c.from <= q.from
  BY <1>5, <1>6
<1>8. c \notin P!Firsts(S)
  BY <1>1, <1>2, <1>3, <1>6, <1>7
<1>9. PICK q \in S : q.from < c.from /\ P!Bridges(q.to, c.from)
  BY <1>6, <1>8 DEF P!Firsts
<1>10. q.from <= z /\ q.to < z
  <2>1. q.from <= z
    BY <1>2, <1>6, <1>7, <1>9
  <2> QED
    BY <1>2, <2>1 DEF In
<1>11. z \in q.to + 1 .. c.from - 1 /\ ~(c.from <= q.to)
  BY <1>2, <1>6, <1>10
<1> QED
  BY <1>9, <1>11 DEF P!Bridges

\* A run begins with its first row and ends with one of its rows.
LEMMA RunEnds ==
  ASSUME NEW S, DayRows(S), NEW first \in P!Firsts(S)
  PROVE  LET run == P!RunOf(first, S)
         IN  /\ first \in run /\ run \subseteq S
             /\ P!Begin(run) = first.from /\ \A r \in run : first.from <= r.from
             /\ \E m \in run : P!End(run) = m.to
             /\ \A r \in run : r.to <= P!End(run)
<1> DEFINE run == P!RunOf(first, S)
           starts == {r.from : r \in run}
           ends == {r.to : r \in run}
<1>1. first \in S /\ run \subseteq S /\ \A r \in run : first.from <= r.from
  BY DEF P!RunOf, P!Firsts
<1>2. \A q \in S : /\ q.from \in Nat /\ q.to \in Nat /\ q.from <= q.to /\ q.to \in P!Days
  BY DayRowsAre
<1>3. first \in run
  BY <1>1, <1>2 DEF P!RunOf
<1>4. P!Begin(run) = first.from
  <2>1. first.from \in starts /\ \A t \in starts : first.from <= t
    BY <1>1, <1>3
  <2>2. \A t \in starts : t \in Nat
    BY <1>1, <1>2
  <2>3. P!Min(starts) = first.from
    <3> HIDE DEF starts
    <3> QED
      BY <2>1, <2>2 DEF P!Min
  <2> QED
    BY <2>3 DEF P!Begin
<1>5. ends \in SUBSET P!Days /\ ends # {}
  BY <1>1, <1>2, <1>3
<1>6. PICK m \in ends : \A n \in ends : n <= m
  BY <1>5, LastOfDays
<1>7. P!End(run) \in ends /\ \A n \in ends : n <= P!End(run)
  <2>1. \A t \in ends : t \in Nat
    BY <1>1, <1>2
  <2>2. P!Max(ends) \in ends /\ \A n \in ends : n <= P!Max(ends)
    <3> HIDE DEF ends
    <3> QED
      BY <1>6, <2>1 DEF P!Max
  <2> QED
    BY <2>2 DEF P!End
<1> QED
  BY <1>1, <1>3, <1>4, <1>7

LEMMA EachInARun ==
  ASSUME NEW S, DayRows(S), NEW r \in S
  PROVE  \E first \in P!Firsts(S) : r \in P!RunOf(first, S)
<1> DEFINE starts == {f.from : f \in {g \in P!Firsts(S) : g.from <= r.from}}
           all0 == {s.from : s \in S}
<1>1. \A q \in S : /\ q.from \in Nat /\ q.to \in Nat /\ q.from <= q.to /\ q.from \in P!Days
  BY DayRowsAre
<1>2. PICK n \in all0 : \A m \in all0 : n <= m
  <2>1. all0 \in SUBSET Nat /\ all0 # {}
    BY <1>1
  <2> QED
    BY <2>1, LeastNumber
<1>3. PICK f \in S : n = f.from
  BY <1>2
<1>4. \A q \in S : f.from <= q.from
  BY <1>2, <1>3
<1>5. f \in P!Firsts(S) /\ f.from <= r.from
  BY <1>1, <1>4 DEF P!Firsts
<1>6. starts \in SUBSET P!Days /\ starts # {}
  BY <1>1, <1>5 DEF P!Firsts
<1>7. PICK m \in starts : \A k \in starts : k <= m
  BY <1>6, LastOfDays
<1>8. PICK first \in P!Firsts(S) : first.from <= r.from /\ m = first.from
  BY <1>7
<1>9. \A g \in P!Firsts(S) : g.from <= r.from => g.from <= first.from
  BY <1>7, <1>8
<1> QED
  BY <1>8, <1>9 DEF P!RunOf

\* No run begins where the rows go on from an earlier day.
LEMMA NoneBegins ==
  ASSUME NEW S, DayRows(S), NEW x \in Int, NEW y \in Int, In(x, S), GoesOn(S, x, y),
         NEW c \in P!Firsts(S), x < c.from, c.from <= y
  PROVE  FALSE
<1>1. PICK r \in S : r.from <= x /\ x <= r.to
  BY DEF In
<1>2. \A q \in S : /\ q.from \in Nat /\ q.to \in Nat /\ q.from <= q.to /\ q.to \in P!Days
  BY DayRowsAre
<1>3. c \in S
  BY DEF P!Firsts
<1> DEFINE before == {q.to : q \in {s \in S : s.from < c.from}}
<1>4. before \in SUBSET P!Days /\ r.to \in before
  <2>1. r.from < c.from
    BY <1>1, <1>2, <1>3
  <2> QED
    BY <1>2, <2>1
<1>5. PICK m \in before : \A n \in before : n <= m
  BY <1>4, LastOfDays
<1>6. PICK q \in S : q.from < c.from /\ m = q.to
  BY <1>5
<1>7. \A s \in S : s.from < c.from => s.to <= q.to
  BY <1>5, <1>6
<1>8. q.to < c.from /\ x <= q.to
  <2>1. q.to < c.from
    BY <1>2, <1>3, <1>6 DEF DayRows
  <2>2. r.to <= q.to
    BY <1>4, <1>5, <1>6
  <2> QED
    BY <1>1, <1>2, <2>1, <2>2
<1>9. ASSUME NEW z \in q.to + 1 .. c.from - 1 PROVE P!Bridgeable(z)
  <2>1. z \in Int /\ x <= z /\ z <= y /\ q.to < z /\ z < c.from
    BY <1>2, <1>3, <1>6, <1>8
  <2>2. ~In(z, S)
    <3> SUFFICES ASSUME NEW s \in S, s.from <= z, z <= s.to PROVE FALSE
      BY DEF In
    <3> QED
      BY <1>2, <1>3, <1>6, <1>7, <2>1
  <2> QED
    BY <2>1, <2>2 DEF GoesOn
<1>10. P!Bridges(q.to, c.from)
  BY <1>9 DEF P!Bridges
<1> QED
  BY <1>6, <1>10 DEF P!Firsts

\* A run takes in every row it goes on to, before or after.
LEMMA RunTakesAll ==
  ASSUME NEW S, DayRows(S), NEW first \in P!Firsts(S), NEW r \in P!RunOf(first, S),
         NEW q \in S, NEW d \in Int, NEW e \in Int,
         r.from <= d, d <= r.to, q.from <= e, e <= q.to,
         GoesOn(S, d, e), GoesOn(S, e, d)
  PROVE  q \in P!RunOf(first, S)
<1>1. /\ r \in S /\ first \in S /\ first.from <= r.from
      /\ \A f \in P!Firsts(S) : f.from <= r.from => f.from <= first.from
  BY DEF P!RunOf, P!Firsts
<1>2. \A s \in S : s.from \in Nat /\ s.to \in Nat /\ s.from <= s.to
  BY DayRowsAre
<1>3. \A s, t \in S : s = t \/ s.to < t.from \/ t.to < s.from
  BY DEF DayRows
<1>4. In(d, S) /\ In(e, S)
  BY <1>1 DEF In
<1>5. \A f \in P!Firsts(S) : f \in S
  BY DEF P!Firsts
<1>6. first.from <= q.from
  <2> SUFFICES ASSUME q.from < first.from PROVE FALSE
    BY <1>1, <1>2
  <2>1. q.to < first.from
    BY <1>1, <1>2, <1>3
  <2>2. e < first.from /\ first.from <= d
    BY <1>1, <1>2, <2>1
  <2> QED
    BY <1>4, <2>2, NoneBegins
<1>7. ASSUME NEW f \in P!Firsts(S), f.from <= q.from PROVE f.from <= first.from
  <2>1. f.from <= r.from
    <3> SUFFICES ASSUME r.from < f.from PROVE FALSE
      BY <1>1, <1>2, <1>5
    <3>1. r.to < f.from
      BY <1>1, <1>2, <1>3, <1>5
    <3>2. d < f.from /\ f.from <= e
      BY <1>1, <1>2, <1>5, <1>7, <3>1
    <3> QED
      BY <1>4, <3>2, NoneBegins
  <2> QED
    BY <1>1, <2>1
<1> QED
  BY <1>6, <1>7 DEF P!RunOf

\* The sick notes as rows, which the chains are made of.
SickRow(a) == P!RowOf(a, absences[a].from, absences[a].to)
SickRows == {SickRow(a) : a \in P!Sick}

\* Two sick notes share no day, and their rows cover the sick days.
LEMMA SickRowsAre ==
  ASSUME PayInv
  PROVE  /\ DayRows(SickRows)
         /\ \A a \in P!Sick :
              /\ SickRow(a).id = a /\ SickRow(a).from = absences[a].from
              /\ SickRow(a).to = absences[a].to
              /\ absences[a].from \in Nat /\ absences[a].to \in Nat
         /\ \A z \in Int : In(z, SickRows) <=> \E a \in P!Sick : z \in P!SpanOf(a)
<1>1. \A a \in P!Sick : /\ SickRow(a).id = a /\ SickRow(a).from = absences[a].from
                        /\ SickRow(a).to = absences[a].to
  BY DEF SickRow, P!RowOf
<1>2. ASSUME NEW a \in P!Sick
      PROVE  /\ absences[a].from \in P!Days /\ absences[a].to \in P!Days
             /\ absences[a].from <= absences[a].to
             /\ absences[a].from \in Nat /\ absences[a].to \in Nat
             /\ a \in P!Approved
  <2>1. a \in P!Approved /\ absences[a] \in PayRecord
    BY DEF P!Sick, P!Approved, PayInv, PayTypeOK
  <2>2. absences[a].from \in P!Days /\ absences[a].to \in P!Days /\ absences[a].from <= absences[a].to
    BY <2>1 DEF PayRecord
  <2> QED
    BY <2>1, <2>2, PayMonths
<1>3. ASSUME NEW a \in P!Sick, NEW b \in P!Sick
      PROVE  \/ SickRow(a) = SickRow(b)
             \/ absences[a].to < absences[b].from \/ absences[b].to < absences[a].from
  <2>1. CASE a = b
    BY <2>1
  <2>2. CASE a # b
    <3>1. P!SpanOf(a) \cap P!SpanOf(b) = {}
      BY <1>2, <2>2 DEF PayInv, AwayOnce
    <3>2. absences[a].from \notin P!SpanOf(b) /\ absences[b].from \notin P!SpanOf(a)
      BY <1>2, <3>1 DEF P!SpanOf
    <3> QED
      BY <1>2, <3>2 DEF P!SpanOf
  <2> QED
    BY <2>1, <2>2
<1>4. DayRows(SickRows)
  BY <1>1, <1>2, <1>3 DEF DayRows, SickRows
<1>5. ASSUME NEW z \in Int
      PROVE  In(z, SickRows) <=> \E a \in P!Sick : z \in P!SpanOf(a)
  BY <1>1, <1>2 DEF In, SickRows, P!SpanOf
<1> QED
  BY <1>1, <1>2, <1>4, <1>5

LEMMA IllnessIs ==
  ASSUME PayInv, NEW d \in Int
  PROVE  \A e : e \in P!IllnessOf(d) <=> /\ e \in Int /\ In(e, SickRows)
                                         /\ GoesOn(SickRows, d, e) /\ GoesOn(SickRows, e, d)
<1> DEFINE sick == UNION {P!SpanOf(a) : a \in P!Sick}
<1>1. \A z \in Int : In(z, SickRows) <=> z \in sick
  BY SickRowsAre
<1>2. \A z \in sick : z \in Int
  BY SickRowsAre DEF P!SpanOf
<1>3. ASSUME NEW x \in Int, NEW y \in Int
      PROVE  GoesOn(SickRows, x, y)
               <=> \A z \in x .. y : z \in sick \/ P!Weekend(z) \/ z \in PayHolidays
  <2> HIDE DEF sick
  <2> QED
    BY <1>1 DEF GoesOn, P!Bridgeable
<1> HIDE DEF sick
<1>4. P!IllnessOf(d) =
        {e \in sick : /\ \A z \in d .. e : z \in sick \/ P!Weekend(z) \/ z \in PayHolidays
                      /\ \A z \in e .. d : z \in sick \/ P!Weekend(z) \/ z \in PayHolidays}
  BY DEF P!IllnessOf, sick
<1> QED
  BY <1>1, <1>2, <1>3, <1>4

\* All days of an illness find the same illness.
LEMMA IllnessSame ==
  ASSUME PayInv, NEW x \in Int, NEW y \in P!IllnessOf(x), In(x, SickRows)
  PROVE  y \in Int /\ P!IllnessOf(y) = P!IllnessOf(x)
<1>1. y \in Int /\ In(y, SickRows) /\ GoesOn(SickRows, x, y) /\ GoesOn(SickRows, y, x)
  BY IllnessIs
<1>2. ASSUME NEW u \in Int, NEW v \in Int, NEW w \in Int,
             GoesOn(SickRows, u, v), GoesOn(SickRows, v, w)
      PROVE  GoesOn(SickRows, u, w)
  BY <1>2 DEF GoesOn
<1>3. ASSUME NEW e \in P!IllnessOf(x) PROVE e \in P!IllnessOf(y)
  <2>1. e \in Int /\ In(e, SickRows) /\ GoesOn(SickRows, x, e) /\ GoesOn(SickRows, e, x)
    BY IllnessIs
  <2> QED
    BY <1>1, <1>2, <2>1, IllnessIs
<1>4. ASSUME NEW e \in P!IllnessOf(y) PROVE e \in P!IllnessOf(x)
  <2>1. e \in Int /\ In(e, SickRows) /\ GoesOn(SickRows, y, e) /\ GoesOn(SickRows, e, y)
    BY <1>1, IllnessIs
  <2> QED
    BY <1>1, <1>2, <2>1, IllnessIs
<1> QED
  BY <1>1, <1>3, <1>4

\* The chain of a sick note begins and ends with the illness of any of its days.
LEMMA ChainIsIllness ==
  ASSUME PayInv, NEW a \in P!Sick, NEW d \in P!SpanOf(a),
         NEW first \in P!Firsts(SickRows), SickRow(a) \in P!RunOf(first, SickRows)
  PROVE  LET run == P!RunOf(first, SickRows)
         IN  /\ P!ChainSpan(run) = P!Max(P!IllnessOf(d)) - P!Min(P!IllnessOf(d)) + 1
             /\ P!ChainSpan(run) \in Int
<1> DEFINE run == P!RunOf(first, SickRows)
           ill == P!IllnessOf(d)
<1>1. DayRows(SickRows)
  BY SickRowsAre
<1>2. \A r \in SickRows : r.from \in Nat /\ r.to \in Nat /\ r.from <= r.to
  BY <1>1, DayRowsAre
<1>3. /\ first \in run /\ run \subseteq SickRows
      /\ P!Begin(run) = first.from /\ \A r \in run : first.from <= r.from
      /\ \E m \in run : P!End(run) = m.to
      /\ \A r \in run : r.to <= P!End(run)
  BY <1>1, RunEnds
<1>4. PICK m \in run : P!End(run) = m.to
  BY <1>3
<1>5. /\ d \in Int /\ SickRow(a).from <= d /\ d <= SickRow(a).to
      /\ SickRow(a) \in SickRows /\ SickRow(a).from \in Nat /\ SickRow(a).to \in Nat
  BY SickRowsAre DEF P!SpanOf, SickRows
<1>6. first.from \in Nat /\ m.to \in Nat /\ first.from <= d /\ d <= m.to
  BY <1>2, <1>3, <1>4, <1>5
<1>7. GoesOn(SickRows, first.from, d) /\ GoesOn(SickRows, d, m.to)
  <2>1. GoesOn(SickRows, first.from, SickRow(a).to) /\ GoesOn(SickRows, first.from, m.to)
    BY <1>1, RunGoesOn
  <2> QED
    BY <1>5, <1>6, <2>1 DEF GoesOn
<1>8. In(first.from, SickRows) /\ In(m.to, SickRows) /\ In(d, SickRows)
  BY <1>2, <1>3, <1>4, <1>5 DEF In
<1>9. GoesOn(SickRows, d, first.from) /\ GoesOn(SickRows, m.to, d)
  <2>1. ASSUME NEW z \in Int, d <= z, z <= first.from PROVE z = d
    BY <1>5, <1>6, <2>1
  <2>2. ASSUME NEW z \in Int, m.to <= z, z <= d PROVE z = d
    BY <1>5, <1>6, <2>2
  <2> QED
    BY <1>8, <2>1, <2>2 DEF GoesOn
<1>10. first.from \in ill /\ m.to \in ill
  BY <1>5, <1>6, <1>7, <1>8, <1>9, IllnessIs
<1>11. ASSUME NEW e \in ill PROVE e \in Int /\ first.from <= e /\ e <= m.to
  <2>1. e \in Int /\ In(e, SickRows) /\ GoesOn(SickRows, d, e) /\ GoesOn(SickRows, e, d)
    BY <1>5, IllnessIs
  <2>2. PICK q \in SickRows : q.from <= e /\ e <= q.to
    BY <2>1 DEF In
  <2>3. q \in run
    BY <1>1, <1>5, <2>1, <2>2, RunTakesAll
  <2> QED
    BY <1>2, <1>3, <1>4, <1>6, <2>1, <2>2, <2>3
<1>12. P!Min(ill) = first.from /\ P!Max(ill) = m.to
  <2> HIDE DEF ill
  <2>1. P!Min(ill) = first.from
    BY <1>6, <1>10, <1>11 DEF P!Min
  <2>2. P!Max(ill) = m.to
    BY <1>6, <1>10, <1>11 DEF P!Max
  <2> QED
    BY <2>1, <2>2
<1> HIDE DEF run, ill
<1>13. P!ChainSpan(run) = m.to - first.from + 1
  BY <1>3, <1>4 DEF P!ChainSpan
<1> QED
  BY <1>6, <1>12, <1>13 DEF run, ill

\* The illness of the day d lasts long enough for a certificate.
Lasting(d) == P!Max(P!IllnessOf(d)) - P!Min(P!IllnessOf(d)) + 1 >= Threshold

\* The certificate is asked for exactly if the illness of the note lasts so long.
LEMMA RequiredIs ==
  ASSUME PayInv, NEW a \in P!Sick, NEW d \in P!SpanOf(a)
  PROVE  P!Required(a) <=> Lasting(d)
<1>1. DayRows(SickRows)
  BY SickRowsAre
<1>2. P!Chains = {P!RunOf(first, SickRows) : first \in P!Firsts(SickRows)}
  BY DEF P!Chains, P!Runs, SickRows, SickRow
<1>3. ASSUME P!Required(a) PROVE Lasting(d)
  <2>1. PICK chain \in P!Chains : P!ChainSpan(chain) >= Threshold /\ \E r \in chain : r.id = a
    BY <1>3 DEF P!Required
  <2>2. PICK first \in P!Firsts(SickRows) : chain = P!RunOf(first, SickRows)
    BY <1>2, <2>1
  <2>3. PICK r \in chain : r.id = a
    BY <2>1
  <2>4. r \in SickRows
    BY <2>2, <2>3 DEF P!RunOf
  <2>5. r = SickRow(a)
    BY <2>3, <2>4, SickRowsAre DEF SickRows
  <2> QED
    BY <2>1, <2>2, <2>3, <2>5, ChainIsIllness DEF Lasting
<1>4. ASSUME Lasting(d) PROVE P!Required(a)
  <2>1. SickRow(a) \in SickRows /\ SickRow(a).id = a
    BY SickRowsAre DEF SickRows
  <2>2. PICK first \in P!Firsts(SickRows) : SickRow(a) \in P!RunOf(first, SickRows)
    BY <1>1, <2>1, EachInARun
  <2>3. P!ChainSpan(P!RunOf(first, SickRows)) >= Threshold
    BY <1>4, <2>2, ChainIsIllness DEF Lasting
  <2> QED
    BY <1>2, <2>1, <2>2, <2>3 DEF P!Required
<1> QED
  BY <1>3, <1>4

\* The rows of a report are stretches of approved absences, no two sharing a day.
LEMMA PayRowsAre ==
  ASSUME PayInv, NEW p \in P!Months
  PROVE  /\ DayRows(PayRows(p))
         /\ \A r \in PayRows(p) :
              /\ r.id \in P!Approved /\ r.cat = absences[r.id].cat
              /\ r.from .. r.to \subseteq P!SpanOf(r.id)
<1>1. ASSUME NEW a \in P!Approved
      PROVE  /\ absences[a].from \in P!Days /\ absences[a].to \in P!Days
             /\ absences[a].from \in Nat /\ absences[a].to \in Nat
             /\ P!SpanOf(a) \subseteq P!Days
  <2>1. absences[a] \in PayRecord
    BY DEF P!Approved, PayInv, PayTypeOK
  <2>2. absences[a].from \in P!Days /\ absences[a].to \in P!Days
    BY <2>1 DEF PayRecord
  <2>3. P!SpanOf(a) \subseteq P!Days
    BY <2>2, BalancesAssumption DEF P!SpanOf, P!Days
  <2> QED
    BY <2>2, <2>3, PayMonths
<1>2. P!FirstDay(p) \in Int /\ P!LastDay(p) \in Int /\ ContractStart \in Int
  <2>1. p \in Int /\ P!FirstDay(p) \in Int /\ p * PayMonth \in Int /\ PayDays \in Int
    BY PayMonths, BalancesAssumption
  <2> QED
    BY <2>1, BalancesAssumption DEF P!LastDay, P!Min
<1>3. ASSUME NEW r \in P!RegularRows(p)
      PROVE  \E a \in P!Approved :
               /\ r = P!RowOf(a, P!Max({absences[a].from, P!FirstDay(p), ContractStart}),
                              P!Min({absences[a].to, P!LastDay(p)}))
               /\ r.id = a /\ r.cat = absences[a].cat
               /\ r.from \in Int /\ r.to \in Int /\ r.from <= r.to
               /\ absences[a].from <= r.from /\ r.to <= absences[a].to
               /\ P!FirstDay(p) <= r.from
  <2>1. PICK a \in P!Approved :
          /\ r = P!RowOf(a, P!Max({absences[a].from, P!FirstDay(p), ContractStart}),
                         P!Min({absences[a].to, P!LastDay(p)}))
          /\ r.from <= r.to
    BY DEF P!RegularRows
  <2>2. /\ r.id = a /\ r.cat = absences[a].cat
        /\ r.from = P!Max({absences[a].from, P!FirstDay(p), ContractStart})
        /\ r.to = P!Min({absences[a].to, P!LastDay(p)})
    BY <2>1 DEF P!RowOf
  <2>3. r.from \in Int /\ absences[a].from <= r.from /\ P!FirstDay(p) <= r.from
    <3> DEFINE S == {absences[a].from, P!FirstDay(p), ContractStart}
    <3>1. \E m \in S : \A n \in S : m >= n
      BY <1>1, <1>2
    <3>2. r.from \in S /\ \A n \in S : r.from >= n
      BY <2>2, <3>1 DEF P!Max
    <3> QED
      BY <1>1, <1>2, <3>2
  <2>4. r.to \in Int /\ r.to <= absences[a].to
    <3> DEFINE S == {absences[a].to, P!LastDay(p)}
    <3>1. \E m \in S : \A n \in S : m <= n
      BY <1>1, <1>2
    <3>2. r.to \in S /\ \A n \in S : r.to <= n
      BY <2>2, <3>1 DEF P!Min
    <3> QED
      BY <1>1, <1>2, <3>2
  <2> QED
    BY <2>1, <2>2, <2>3, <2>4
<1>4. ASSUME NEW r \in P!LateRows(p)
      PROVE  \E a \in P!Approved : \E s \in P!ReportableSegments(a, p) :
               /\ r = P!RowOf(a, s[1], s[2])
               /\ r.id = a /\ r.cat = absences[a].cat /\ r.from = s[1] /\ r.to = s[2]
               /\ r.from \in Int /\ r.to \in Int /\ r.from <= r.to
               /\ absences[a].from <= r.from /\ r.to <= absences[a].to
               /\ r.to < P!FirstDay(p)
  <2>1. PICK a \in P!Unreported(p) : \E s \in P!ReportableSegments(a, p) : r = P!RowOf(a, s[1], s[2])
    BY DEF P!LateRows
  <2>2. PICK s \in P!ReportableSegments(a, p) : r = P!RowOf(a, s[1], s[2])
    BY <2>1
  <2>3. r.id = a /\ r.cat = absences[a].cat /\ r.from = s[1] /\ r.to = s[2]
    BY <2>2 DEF P!RowOf
  <2>4. a \in P!Approved
    BY DEF P!Unreported
  <2>5. /\ s[1] \in P!SpanOf(a) /\ s[2] \in P!SpanOf(a) /\ s[1] <= s[2] /\ s[2] < P!FirstDay(p)
    BY DEF P!ReportableSegments
  <2>6. s[1] \in Int /\ s[2] \in Int /\ absences[a].from <= s[1] /\ s[2] <= absences[a].to
    BY <1>1, <2>4, <2>5 DEF P!SpanOf
  <2> QED
    BY <2>2, <2>3, <2>4, <2>5, <2>6
\* Segments end where the next day is not open: two of one absence have no day in common.
<1>5. ASSUME NEW a \in P!Approved, NEW s \in P!ReportableSegments(a, p),
             NEW t \in P!ReportableSegments(a, p)
      PROVE  s[2] < t[1] \/ t[2] < s[1] \/ (s[1] = t[1] /\ s[2] = t[2])
  <2> DEFINE open == {d \in P!SpanOf(a) : /\ ContractStart <= d /\ d < P!FirstDay(p)
                                          /\ P!MonthOf(d) \notin P!Owed(p)}
  <2>1. \A u \in P!ReportableSegments(a, p) :
          /\ u[1] \in open /\ u[2] \in open /\ u[1] <= u[2] /\ u[1] .. u[2] \subseteq open
          /\ u[1] - 1 \notin open /\ u[2] + 1 \notin open
    BY DEF P!ReportableSegments
  <2>2. ASSUME NEW d \in open PROVE d \in Int
    <3>1. d \in P!SpanOf(a)
      OBVIOUS
    <3>2. d \in P!Days
      BY <1>1, <3>1
    <3> QED
      BY <3>2, PayMonths
  <2> HIDE DEF open
  <2>3. ASSUME NEW u \in P!ReportableSegments(a, p), NEW v \in P!ReportableSegments(a, p),
               u[1] < v[1], v[1] <= u[2]
        PROVE  FALSE
    <3>1. v[1] - 1 \in u[1] .. u[2]
      BY <2>1, <2>2, <2>3
    <3> QED
      BY <2>1, <3>1
  <2>4. ASSUME NEW u \in P!ReportableSegments(a, p), NEW v \in P!ReportableSegments(a, p),
               u[1] = v[1], u[2] < v[2]
        PROVE  FALSE
    <3>1. u[2] + 1 \in v[1] .. v[2]
      BY <2>1, <2>2, <2>4
    <3> QED
      BY <2>1, <3>1
  <2>5. s[1] \in Int /\ s[2] \in Int /\ t[1] \in Int /\ t[2] \in Int
    BY <2>1, <2>2
  <2> QED
    BY <2>3, <2>4, <2>5
<1>6. ASSUME NEW r \in PayRows(p)
      PROVE  /\ r.id \in P!Approved /\ r.cat = absences[r.id].cat
             /\ r.from \in Int /\ r.to \in Int /\ r.from <= r.to
             /\ absences[r.id].from <= r.from /\ r.to <= absences[r.id].to
             /\ r.from .. r.to \subseteq P!SpanOf(r.id)
             /\ r.from \in P!SpanOf(r.id) /\ r.to \in P!SpanOf(r.id)
  <2>1. /\ r.id \in P!Approved /\ r.cat = absences[r.id].cat
        /\ r.from \in Int /\ r.to \in Int /\ r.from <= r.to
        /\ absences[r.id].from <= r.from /\ r.to <= absences[r.id].to
    <3>1. CASE r \in P!RegularRows(p)
      BY <1>3, <3>1
    <3>2. CASE r \in P!LateRows(p)
      BY <1>4, <3>2
    <3> QED
      BY <3>1, <3>2 DEF PayRows
  <2>2. /\ r.from .. r.to \subseteq P!SpanOf(r.id)
        /\ r.from \in P!SpanOf(r.id) /\ r.to \in P!SpanOf(r.id)
    BY <1>1, <2>1 DEF P!SpanOf
  <2> QED
    BY <2>1, <2>2
<1>7. ASSUME NEW r \in PayRows(p), NEW q \in PayRows(p), r.id # q.id
      PROVE  r.to < q.from \/ q.to < r.from
  <2>1. P!SpanOf(r.id) \cap P!SpanOf(q.id) = {}
    BY <1>6, <1>7 DEF PayInv, AwayOnce
  <2>2. ASSUME NEW z \in Int, r.from <= z, z <= r.to, q.from <= z, z <= q.to PROVE FALSE
    <3>1. z \in r.from .. r.to /\ z \in q.from .. q.to
      BY <1>6, <2>2
    <3> QED
      BY <1>6, <2>1, <3>1
  <2> QED
    BY <1>6, <2>2
<1>8. ASSUME NEW r \in PayRows(p), NEW q \in PayRows(p), r.id = q.id
      PROVE  r = q \/ r.to < q.from \/ q.to < r.from
  <2>1. CASE r \in P!RegularRows(p) /\ q \in P!RegularRows(p)
    <3> DEFINE Own(a) == P!RowOf(a, P!Max({absences[a].from, P!FirstDay(p), ContractStart}),
                                 P!Min({absences[a].to, P!LastDay(p)}))
    <3>1. \A u \in P!RegularRows(p) : u = Own(u.id)
      BY <1>3
    <3> HIDE DEF Own
    <3> QED
      BY <1>8, <2>1, <3>1
  <2>2. ASSUME NEW u \in P!RegularRows(p), NEW v \in P!LateRows(p) PROVE v.to < u.from
    <3>1. u.from \in Int /\ P!FirstDay(p) <= u.from
      BY <1>3
    <3>2. v.to \in Int /\ v.to < P!FirstDay(p)
      BY <1>4
    <3> QED
      BY <1>2, <3>1, <3>2
  <2>3. CASE r \in P!LateRows(p) /\ q \in P!LateRows(p)
    <3>0. PICK a \in P!Approved : \E s \in P!ReportableSegments(a, p) :
            r = P!RowOf(a, s[1], s[2]) /\ r.id = a /\ r.from = s[1] /\ r.to = s[2]
      BY <1>4, <2>3
    <3>1. PICK s \in P!ReportableSegments(a, p) :
            r = P!RowOf(a, s[1], s[2]) /\ r.id = a /\ r.from = s[1] /\ r.to = s[2]
      BY <3>0
    <3>2. PICK t \in P!ReportableSegments(a, p) :
            q = P!RowOf(a, t[1], t[2]) /\ q.from = t[1] /\ q.to = t[2]
      BY <1>4, <1>8, <2>3, <3>1
    <3> QED
      BY <1>5, <3>1, <3>2
  <2> QED
    BY <2>1, <2>2, <2>3 DEF PayRows
<1>9. DayRows(PayRows(p))
  <2>1. \A r \in PayRows(p) : r.from \in P!Days /\ r.to \in P!Days /\ r.from <= r.to
    BY <1>1, <1>6
  <2> QED
    BY <1>7, <1>8, <2>1 DEF DayRows
<1> QED
  BY <1>6, <1>9

\* A joined line, made of some rows of a report, is part of one illness and asks for
\* the certificate exactly if that lasts so long: each of its rows belongs to the same one.
LEMMA LinesAreJudged ==
  ASSUME PayInv, NEW p \in P!Months, NEW R \in SUBSET PayRows(p), NEW f, NEW cat \in Tracked,
         NEW S, S = {l \in {P!Line(r, f[r]) : r \in R} : l.cat = cat},
         NEW first \in P!Firsts(S), NEW row, row = P!Merged(cat, P!RunOf(first, S))
  PROVE  /\ row.to \in P!IllnessOf(row.from)
         /\ row.required = Lasting(row.from)
<1> DEFINE run == P!RunOf(first, S)
<1>1. \A r \in R : /\ P!Line(r, f[r]).cat = r.cat /\ P!Line(r, f[r]).from = r.from
                   /\ P!Line(r, f[r]).to = r.to
                   /\ P!Line(r, f[r]).required = (r.cat \in Tracked /\ P!Required(r.id))
  BY DEF P!Line
<1>2. DayRows(PayRows(p))
  BY PayRowsAre
<1>3. ASSUME NEW r \in R, r.cat = cat
      PROVE  /\ r.id \in P!Sick /\ r.from .. r.to \subseteq P!SpanOf(r.id)
             /\ r.from \in Nat /\ r.to \in Nat /\ r.from <= r.to
             /\ r.from \in P!SpanOf(r.id)
  <2>1. r.id \in P!Sick /\ r.from .. r.to \subseteq P!SpanOf(r.id)
    BY <1>3, PayRowsAre DEF P!Sick
  <2>2. r.from \in Nat /\ r.to \in Nat /\ r.from <= r.to
    BY <1>2, DayRowsAre
  <2>3. r.from \in r.from .. r.to
    BY <2>2
  <2> QED
    BY <2>1, <2>2, <2>3
<1>4. ASSUME NEW l \in S
      PROVE  \E r \in R : /\ l = P!Line(r, f[r]) /\ r.cat = cat /\ l.from = r.from /\ l.to = r.to
                          /\ l.required = P!Required(r.id)
  <2>1. PICK r \in R : l = P!Line(r, f[r]) /\ l.cat = cat
    OBVIOUS
  <2>2. r.cat = cat /\ l.from = r.from /\ l.to = r.to
        /\ l.required = (r.cat \in Tracked /\ P!Required(r.id))
    BY <1>1, <2>1
  <2>3. P!Required(r.id) \in BOOLEAN
    BY DEF P!Required
  <2>4. (r.cat \in Tracked /\ P!Required(r.id)) = P!Required(r.id)
    BY <2>2, <2>3
  <2>5. l.required = P!Required(r.id)
    BY <2>2, <2>4, Zenon
  <2> QED
    BY <2>1, <2>2, <2>5
<1>5. DayRows(S)
  BY <1>2, <1>4 DEF DayRows
<1>6. ASSUME NEW z \in Int, In(z, S) PROVE In(z, SickRows)
  <2>1. PICK l \in S : l.from <= z /\ z <= l.to
    BY <1>6 DEF In
  <2>2. PICK r \in R : r.cat = cat /\ l.from = r.from /\ l.to = r.to
    BY <1>4
  <2>3. z \in r.from .. r.to
    BY <1>3, <2>1, <2>2
  <2> QED
    BY <1>3, <2>2, <2>3, SickRowsAre
<1>7. \A x, y \in Int : GoesOn(S, x, y) => GoesOn(SickRows, x, y)
  BY <1>6 DEF GoesOn
<1>8. \A l \in S : l.from \in Nat /\ l.to \in Nat /\ l.from <= l.to
  BY <1>5, DayRowsAre
<1>9. /\ first \in run /\ run \subseteq S /\ P!Begin(run) = first.from
      /\ \A l \in run : first.from <= l.from
      /\ \E m \in run : P!End(run) = m.to
  BY <1>5, RunEnds
<1>10. PICK m \in run : P!End(run) = m.to
  BY <1>9
<1>11. first.from \in Nat /\ In(first.from, SickRows)
  BY <1>6, <1>8, <1>9 DEF In
<1>12. ASSUME NEW l \in run, NEW e \in Nat, l.from <= e, e <= l.to
       PROVE  e \in P!IllnessOf(first.from)
  <2>1. GoesOn(SickRows, first.from, l.to)
    BY <1>5, <1>7, <1>8, <1>9, RunGoesOn
  <2>2. GoesOn(SickRows, first.from, e)
    BY <1>8, <1>9, <1>12, <2>1 DEF GoesOn
  <2>3. In(e, SickRows) /\ first.from <= e
    BY <1>6, <1>8, <1>9, <1>11, <1>12 DEF In
  <2>4. GoesOn(SickRows, e, first.from)
    <3>1. ASSUME NEW z \in Int, e <= z, z <= first.from PROVE z = e
      BY <1>11, <2>3, <3>1
    <3> QED
      BY <2>3, <3>1 DEF GoesOn
  <2> QED
    BY <1>11, <2>2, <2>3, <2>4, IllnessIs
<1>13. row.from = first.from /\ row.to = m.to
  BY <1>9, <1>10 DEF P!Merged
<1>14. row.to \in P!IllnessOf(row.from)
  BY <1>8, <1>9, <1>12, <1>13
<1>15. ASSUME NEW l \in run PROVE l.required = Lasting(first.from)
  <2>1. PICK r \in R : r.cat = cat /\ l.from = r.from /\ l.to = r.to /\ l.required = P!Required(r.id)
    BY <1>4, <1>9
  <2>2. r.id \in P!Sick /\ r.from \in P!SpanOf(r.id)
    BY <1>3, <2>1
  <2>3. P!Required(r.id) <=> Lasting(r.from)
    BY <2>2, RequiredIs
  <2>4. r.from \in P!IllnessOf(first.from)
    BY <1>8, <1>9, <1>12, <2>1
  <2>5. P!IllnessOf(r.from) = P!IllnessOf(first.from)
    BY <1>11, <2>4, IllnessSame
  <2>6. Lasting(r.from) <=> Lasting(first.from)
    BY <2>5 DEF Lasting
  <2>7. P!Required(r.id) \in BOOLEAN /\ Lasting(first.from) \in BOOLEAN
    BY DEF P!Required, Lasting
  <2>8. P!Required(r.id) = Lasting(first.from)
    BY <2>3, <2>6, <2>7
  <2> QED
    BY <2>1, <2>8, Zenon
<1>16. row.required = (\E l \in run : l.required)
  BY DEF P!Merged
<1>17. (\E l \in run : l.required) <=> Lasting(first.from)
  BY <1>9, <1>15, Zenon
<1>18. Lasting(first.from) \in BOOLEAN /\ (\E l \in run : l.required) \in BOOLEAN
  BY DEF Lasting
<1>19. row.required = Lasting(row.from)
  <2>1. (\E l \in run : l.required) = Lasting(first.from)
    BY <1>17, <1>18, Zenon
  <2> QED
    BY <1>13, <1>16, <2>1, Zenon
<1> QED
  BY <1>14, <1>19

\* The document of a month, in whichever section its rows are printed.
LEMMA MergedAreJudged ==
  ASSUME PayInv, NEW p \in P!Months, NEW R \in SUBSET PayRows(p), NEW f,
         NEW L, L = {P!Line(r, f[r]) : r \in R},
         NEW row \in P!MergedRows(L), row.cat \in Tracked
  PROVE  /\ row.to \in P!IllnessOf(row.from)
         /\ row.required = Lasting(row.from)
<1>1. PICK cat \in Tracked : row \in {P!Merged(cat, run) : run \in P!Runs({l \in L : l.cat = cat})}
  BY DEF P!MergedRows
<1> DEFINE S == {l \in L : l.cat = cat}
<1>2. PICK first \in P!Firsts(S) : row = P!Merged(cat, P!RunOf(first, S))
  <2> HIDE DEF S
  <2> QED
    BY <1>1 DEF P!Runs, S
<1>3. S = {l \in {P!Line(r, f[r]) : r \in R} : l.cat = cat}
  OBVIOUS
<1> HIDE DEF S
<1> QED
  BY <1>2, <1>3, LinesAreJudged

LEMMA ReportsJudge == PayInv => P!JudgesIllness
<1> SUFFICES ASSUME PayInv, NEW p \in P!Months,
                    NEW row \in P!Sections(p).regular \cup P!Sections(p).late
                                  \cup P!Sections(p).review,
                    row.cat \in Tracked
             PROVE  /\ row.to \in P!IllnessOf(row.from)
                    /\ row.required = Lasting(row.from)
  BY Zenon DEF P!JudgesIllness, Lasting
<1> DEFINE rows == PayRows(p)
           own == [r \in rows |-> P!DaysOf(r, rows)]
           none == [r \in rows |-> 0]
           Paid(shown) == {q \in shown : P!DaysOf(q, rows) > 0}
<1>1. P!RegularRows(p) \in SUBSET rows /\ P!LateRows(p) \in SUBSET rows
  BY DEF PayRows
<1>2. ASSUME NEW shown \in SUBSET rows
      PROVE  {P!Line(r, P!DaysOf(r, rows)) : r \in Paid(shown)}
                        = {P!Line(r, own[r]) : r \in Paid(shown)}
  <2>1. \A r \in Paid(shown) : own[r] = P!DaysOf(r, rows)
    OBVIOUS
  <2> HIDE DEF own, Paid
  <2> QED
    BY <2>1
<1>3. {P!Line(r, 0) : r \in rows} = {P!Line(r, none[r]) : r \in rows}
  <2>1. \A r \in rows : none[r] = 0
    OBVIOUS
  <2> HIDE DEF none, rows
  <2> QED
    BY <2>1
<1> DEFINE All == {P!Line(r, 0) : r \in rows}
           Own(shown) == {P!Line(r, P!DaysOf(r, rows)) : r \in Paid(shown)}
<1>4. P!Sections(p) =
        IF P!NeedsReview(p, rows)
          THEN [regular |-> {}, late |-> {}, review |-> P!MergedRows(All)]
          ELSE [regular |-> P!MergedRows(Own(P!RegularRows(p))),
                late |-> P!MergedRows(Own(P!LateRows(p))),
                review |-> {}]
  BY DEF P!Sections, PayRows
<1>5. \A shown \in SUBSET rows : Paid(shown) \in SUBSET PayRows(p)
  OBVIOUS
<1> HIDE DEF rows, own, none, Paid, All, Own
<1>6. \/ row \in P!MergedRows(All)
      \/ \E shown \in SUBSET rows : row \in P!MergedRows(Own(shown))
  BY <1>1, <1>4
<1>7. CASE row \in P!MergedRows(All)
  <2>1. All = {P!Line(r, none[r]) : r \in rows} /\ rows \in SUBSET PayRows(p)
    BY <1>3 DEF All, rows
  <2> QED
    BY <1>7, <2>1, MergedAreJudged
<1>8. ASSUME NEW shown \in SUBSET rows, row \in P!MergedRows(Own(shown))
      PROVE  row.to \in P!IllnessOf(row.from) /\ row.required = Lasting(row.from)
  <2>1. Own(shown) = {P!Line(r, own[r]) : r \in Paid(shown)}
    BY <1>2 DEF Own
  <2> QED
    BY <1>5, <1>8, <2>1, MergedAreJudged
<1> QED
  BY <1>6, <1>7, <1>8

\* Whatever part of an illness a report prints, and in whichever section, on one line
\* or on several, the certificate is asked for exactly if the whole illness has reached
\* the threshold: for any number of sick notes and categories with certificates, in
\* whatever order they were filed, cut up by months, weekends and holidays
\* (merge_continuous_illness_rows, required_map_for_user).
THEOREM VerdictsOfIllness ==
  (P!Spec => [][P!JudgesIllness]_(P!vars)) /\ (MCSpec => VerdictOfTheIllness)
<1>1. P!Spec => [][P!JudgesIllness]_(P!vars)
  BY PayStarts, PayStays, ReportsJudge, PTL DEF P!Spec
<1>2. MCInit => PayPart
  BY PayStarts DEF MCInit, PayPart
<1>3. ASSUME PayPart, [MCNext]_all PROVE PayPart'
  <2>1. part' = part
    BY <1>3 DEF MCNext, all
  <2> QED
    BY <1>3, <2>1, PayPartSteps, PayStays DEF PayPart
<1>4. PayPart => (part = "payroll" => P!JudgesIllness)
  BY ReportsJudge DEF PayPart
<1>5. MCSpec => VerdictOfTheIllness
  BY <1>2, <1>3, <1>4, PTL DEF MCSpec, VerdictOfTheIllness
<1> QED
  BY <1>1, <1>5
=============================================================================
