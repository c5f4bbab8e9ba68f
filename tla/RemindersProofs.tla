--------------------------- MODULE RemindersProofs ---------------------------
(***************************************************************************)
(* Proofs about Readiness and Reminders, for any calendar, interval,       *)
(* deadline and bound on the steps.                                        *)
(*                                                                         *)
(* The views of a month agree because each comes down to the weeks that    *)
(* are due and touch the month (DueWeeks), and of these to the days inside *)
(* the month: TileByWeeks, CountByWeeks, MissingByWeeks and OwingIsTile    *)
(* say so of one view each.                                                *)
(*                                                                         *)
(* MissingIsAsked counts days, so it rests on what a remainder does when   *)
(* its dividend grows by one: on each day the silence is shorter than the  *)
(* number of days since a reminder was due.                                *)
(*                                                                         *)
(* RemindedOnce is not inductive: what counts is that each e-mail of the   *)
(* day, queued or about to be, had a row of its own, which is there or was *)
(* cleared (Paid).                                                         *)
(*                                                                         *)
(* The part of MCReminders with the loops is an instance with fewer steps  *)
(* and starts; whatever it does, ReminderNext does (WatchedNext).          *)
(***************************************************************************)
EXTENDS MCReminders, TLAPS

----------------------------------------------------------------------------
(* Remainders                                                              *)

\* What the provers know of % and \div, stated once.
LEMMA Remainder ==
  ASSUME NEW n \in Nat \ {0}, NEW a \in Int
  PROVE  /\ a % n \in 0..n - 1
         /\ a \div n \in Int
         /\ a = n * (a \div n) + (a % n)
OBVIOUS

\* Quotient and remainder are determined.
LEMMA RemainderUnique ==
  ASSUME NEW n \in Nat \ {0}, NEW p \in Int, NEW q \in Int,
         NEW r \in 0..n - 1, NEW s \in 0..n - 1, n * p + r = n * q + s
  PROVE  p = q /\ r = s
<1>1. n * (p - q) = s - r /\ s - r < n /\ r - s < n
  OBVIOUS
<1>2. ~(p - q >= 1)
  <2>1. SUFFICES ASSUME p - q >= 1 PROVE FALSE
    OBVIOUS
  <2>2. n * (p - q) >= n
    BY <2>1
  <2> QED
    BY <1>1, <2>2
<1>3. ~(q - p >= 1)
  <2>1. SUFFICES ASSUME q - p >= 1 PROVE FALSE
    OBVIOUS
  <2>2. n * (q - p) >= n
    BY <2>1
  <2>3. n * (q - p) = r - s
    BY <1>1
  <2> QED
    BY <1>1, <2>2, <2>3
<1> QED
  BY <1>2, <1>3

\* A remainder grows by one, or starts again at zero.
LEMMA RemainderNext ==
  ASSUME NEW n \in Nat \ {0}, NEW a \in Int
  PROVE  /\ a % n = n - 1 => (a + 1) % n = 0
         /\ a % n # n - 1 => (a + 1) % n = (a % n) + 1
<1> DEFINE q == a \div n
           r == a % n
           p == (a + 1) \div n
           s == (a + 1) % n
<1>1. a = n * q + r /\ q \in Int /\ r \in 0..n - 1
  BY Remainder
<1>2. a + 1 = n * p + s /\ p \in Int /\ s \in 0..n - 1
  BY Remainder
<1> HIDE DEF q, r, p, s
<1>3. r = n - 1 => s = 0
  <2>1. SUFFICES ASSUME r = n - 1 PROVE s = 0
    OBVIOUS
  <2>2. n * (q + 1) + 0 = n * p + s
    BY <1>1, <1>2, <2>1
  <2> QED
    BY <1>1, <1>2, <2>2, RemainderUnique
<1>4. r # n - 1 => s = r + 1
  <2>1. SUFFICES ASSUME r # n - 1 PROVE s = r + 1
    OBVIOUS
  <2>2. n * q + (r + 1) = n * p + s /\ r + 1 \in 0..n - 1
    BY <1>1, <1>2, <2>1
  <2> QED
    BY <1>1, <1>2, <2>2, RemainderUnique
<1> QED
  BY <1>3, <1>4 DEF r, s

----------------------------------------------------------------------------
(* Weeks and months                                                        *)

Calendar == today \in Int

\* Weeks begin at multiples of their length.
Multiple(w) == \E q \in Int : w = WeekLength * q

\* Every day is in the week of its Monday.
LEMMA MondayOfDay ==
  ASSUME NEW d \in Int
  PROVE  /\ Monday(d) \in Int /\ Multiple(Monday(d))
         /\ Monday(d) <= d /\ d <= Monday(d) + WeekLength - 1
<1>1. WeekLength \in Nat \ {0}
  BY CalendarAssumption
<1>2. d % WeekLength \in 0..WeekLength - 1 /\ d \div WeekLength \in Int
      /\ d = WeekLength * (d \div WeekLength) + (d % WeekLength)
  BY <1>1, Remainder
<1>3. Monday(d) = WeekLength * (d \div WeekLength)
  BY <1>1, <1>2 DEF Monday
<1> QED
  BY <1>1, <1>2, <1>3 DEF Monday, Multiple

\* No week begins inside another.
LEMMA WeeksApart ==
  ASSUME NEW v \in Int, NEW w \in Int, Multiple(v), Multiple(w), v < w
  PROVE  v + WeekLength <= w
<1>1. PICK p \in Int : v = WeekLength * p
  BY DEF Multiple
<1>2. PICK q \in Int : w = WeekLength * q
  BY DEF Multiple
<1>3. WeekLength \in Nat \ {0}
  BY CalendarAssumption
<1>4. q - p >= 1
  <2>1. SUFFICES ASSUME q <= p PROVE FALSE
    BY <1>1, <1>2
  <2>2. WeekLength * q <= WeekLength * p
    <3>1. WeekLength * (p - q) >= 0
      BY <1>3, <2>1
    <3>2. WeekLength * (p - q) = WeekLength * p - WeekLength * q
      BY <1>3
    <3> HIDE <1>1, <1>2
    <3> QED
      BY <1>3, <3>1, <3>2
  <2> QED
    BY <1>1, <1>2, <2>2
<1>5. WeekLength * (q - p) >= WeekLength
  BY <1>3, <1>4
<1>6. WeekLength * (q - p) = w - v
  BY <1>1, <1>2, <1>3
<1> QED
  BY <1>3, <1>5, <1>6

LEMMA MondayIs ==
  ASSUME NEW w \in Int, Multiple(w), NEW d \in Int, w <= d, d <= w + WeekLength - 1
  PROVE  Monday(d) = w
<1>1. /\ Monday(d) \in Int /\ Multiple(Monday(d))
      /\ Monday(d) <= d /\ d <= Monday(d) + WeekLength - 1
  BY MondayOfDay
<1>2. ~(w < Monday(d))
  <2>1. SUFFICES ASSUME w < Monday(d) PROVE FALSE
    OBVIOUS
  <2>2. w + WeekLength <= Monday(d)
    BY <1>1, <2>1, WeeksApart
  <2> QED
    BY <1>1, <2>2, CalendarAssumption
<1>3. ~(Monday(d) < w)
  <2>1. SUFFICES ASSUME Monday(d) < w PROVE FALSE
    OBVIOUS
  <2>2. Monday(d) + WeekLength <= w
    BY <1>1, <2>1, WeeksApart
  <2> QED
    BY <1>1, <2>2, CalendarAssumption
<1> QED
  BY <1>1, <1>2, <1>3

\* A week begins by a day just if it begins by that day's Monday.
LEMMA WeekFacts ==
  ASSUME NEW w \in Mondays
  PROVE  /\ w \in Int /\ Multiple(w) /\ Sunday(w) = w + WeekLength - 1
         /\ \A d \in Int : w <= d <=> w <= Monday(d)
<1>1. PICK e \in Days : w = Monday(e)
  BY DEF Mondays
<1>2. e \in Int
  BY DEF Days
<1>3. w \in Int /\ Multiple(w)
  BY <1>1, <1>2, MondayOfDay
<1>4. Monday(w) = w
  <2>1. w <= w /\ w <= w + WeekLength - 1
    BY <1>3, CalendarAssumption
  <2> QED
    BY <1>3, <2>1, MondayIs
<1>5. ASSUME NEW d \in Int PROVE w <= d <=> w <= Monday(d)
  <2>1. /\ Monday(d) \in Int /\ Multiple(Monday(d))
        /\ Monday(d) <= d /\ d <= Monday(d) + WeekLength - 1
    BY MondayOfDay
  <2>2. Monday(d) < w => Monday(d) + WeekLength <= w
    BY <1>3, <2>1, WeeksApart
  <2> QED
    BY <1>3, <2>1, <2>2, CalendarAssumption
<1> QED
  BY <1>3, <1>4, <1>5 DEF Sunday

LEMMA WeekOfDay ==
  ASSUME NEW d \in Days
  PROVE  Monday(d) \in Mondays /\ d \in Week(Monday(d))
<1>1. Monday(d) \in Mondays /\ d \in Int
  BY DEF Mondays, Days
<1>2. Sunday(Monday(d)) = Monday(d) + WeekLength - 1
  BY <1>1, WeekFacts
<1> QED
  BY <1>1, <1>2, MondayOfDay DEF Week, Span

LEMMA MonthFacts ==
  ASSUME NEW m \in Int
  PROVE  FirstOf(m) \in Int /\ LastOf(m) \in Int /\ FirstOf(m) <= LastOf(m)
<1>1. m * MonthLength \in Int /\ (m + 1) * MonthLength = m * MonthLength + MonthLength
  BY CalendarAssumption
<1> QED
  BY <1>1, CalendarAssumption DEF FirstOf, LastOf

\* Every day is in its month.
LEMMA MonthOfDay ==
  ASSUME NEW d \in Days
  PROVE  MonthOf(d) \in Months /\ d \in MonthDays(MonthOf(d))
<1>1. d \in Int /\ d >= 1 /\ d <= FinalDay /\ FinalDay \in Int /\ MonthLength \in Nat \ {0}
  BY CalendarAssumption DEF Days
<1>2. ASSUME NEW e \in Int
      PROVE  /\ MonthOf(e) \in Int
             /\ MonthLength * MonthOf(e) + 1 <= e
             /\ e <= MonthLength * MonthOf(e) + MonthLength
  <2>1. e - 1 = MonthLength * MonthOf(e) + ((e - 1) % MonthLength) /\ MonthOf(e) \in Int
        /\ (e - 1) % MonthLength \in 0..MonthLength - 1
    <3>1. e - 1 \in Int
      OBVIOUS
    <3> QED
      BY <1>1, <3>1, Remainder DEF MonthOf
  <2> QED
    BY <1>1, <2>1
<1>3. d \in MonthDays(MonthOf(d))
  <2>1. /\ MonthOf(d) \in Int
        /\ MonthLength * MonthOf(d) + 1 <= d
        /\ d <= MonthLength * MonthOf(d) + MonthLength
    BY <1>1, <1>2
  <2>2. FirstOf(MonthOf(d)) = MonthLength * MonthOf(d) + 1
    BY <1>1, <2>1 DEF FirstOf
  <2>3. LastOf(MonthOf(d)) = MonthLength * MonthOf(d) + MonthLength
    BY <1>1, <2>1 DEF LastOf
  <2> QED
    BY <1>1, <2>1, <2>2, <2>3 DEF MonthDays, Span
<1>4. ASSUME NEW a \in Int, NEW b \in Int, a <= b PROVE MonthOf(a) <= MonthOf(b)
  <2>1. /\ MonthOf(a) \in Int /\ MonthLength * MonthOf(a) + 1 <= a
        /\ MonthOf(b) \in Int /\ b <= MonthLength * MonthOf(b) + MonthLength
    BY <1>2
  <2>2. SUFFICES ASSUME MonthOf(a) - MonthOf(b) >= 1 PROVE FALSE
    BY <2>1
  <2>3. MonthLength * (MonthOf(a) - MonthOf(b)) >= MonthLength
    BY <1>1, <2>1, <2>2
  <2>4. MonthLength * (MonthOf(a) - MonthOf(b))
          = MonthLength * MonthOf(a) - MonthLength * MonthOf(b)
    BY <1>1, <2>1
  <2>5. MonthLength * MonthOf(a) \in Int /\ MonthLength * MonthOf(b) \in Int
    BY <1>1, <2>1
  <2> QED
    BY <1>1, <1>4, <2>1, <2>3, <2>4, <2>5
<1>5. MonthOf(1) <= MonthOf(d) /\ MonthOf(d) <= MonthOf(FinalDay) /\ MonthOf(d) \in Int
  BY <1>1, <1>2, <1>4
<1>6. MonthOf(1) \in Int /\ MonthOf(FinalDay) \in Int
  BY <1>1, <1>2
<1> QED
  BY <1>3, <1>5, <1>6 DEF Months

----------------------------------------------------------------------------
(* Which weeks are due                                                     *)

LEMMA MinOfTwo ==
  ASSUME NEW a \in Int, NEW b \in Int
  PROVE  Min({a, b}) = IF a <= b THEN a ELSE b
  BY DEF Min

\* The last day of the weeks that are due.
DueEnd == IF today >= Monday(today) + DueDay THEN Sunday(today) ELSE Monday(today) - 1

\* Up to that day the weeks are due, and none of them reaches beyond it.
LEMMA DueEndFacts ==
  ASSUME Calendar
  PROVE  /\ DueEnd \in Int
         /\ DueEnd < Monday(today) + WeekLength
         /\ \A w \in Mondays :
              /\ w <= DueEnd <=> today >= w + DueDay
              /\ w <= DueEnd => Sunday(w) <= DueEnd
<1> DEFINE M == Monday(today)
<1>1. today \in Int /\ M \in Int /\ Multiple(M) /\ M <= today /\ today <= M + WeekLength - 1
  BY MondayOfDay DEF Calendar
<1>2. DueEnd = IF today >= M + DueDay THEN M + WeekLength - 1 ELSE M - 1
  BY DEF DueEnd, Sunday
<1> HIDE DEF M
<1>3. DueEnd \in Int /\ DueEnd < M + WeekLength
  BY <1>1, <1>2, CalendarAssumption
<1>4. ASSUME NEW w \in Mondays
      PROVE  /\ w <= DueEnd <=> today >= w + DueDay
             /\ w <= DueEnd => Sunday(w) <= DueEnd
  <2>1. w \in Int /\ Multiple(w) /\ Sunday(w) = w + WeekLength - 1
    BY WeekFacts
  <2>2. w < M => w + WeekLength <= M
    BY <1>1, <2>1, WeeksApart
  <2>3. M < w => M + WeekLength <= w
    BY <1>1, <2>1, WeeksApart
  <2> QED
    BY <1>1, <1>2, <2>1, <2>2, <2>3, CalendarAssumption
<1> QED
  BY <1>3, <1>4 DEF M

LEMMA DueThroughIs ==
  ASSUME Calendar, NEW to \in Int
  PROVE  DueThrough(to) = IF to <= DueEnd THEN to ELSE DueEnd
<1>1. DueEnd \in Int
  BY DueEndFacts
<1>2. DueThrough(to) = Min({to, DueEnd})
  BY DEF DueThrough, DueEnd
<1> QED
  BY <1>1, <1>2, MinOfTwo

\* The due weeks that touch a month.
DueWeeks(m) ==
  {w \in Mondays : /\ Monday(FirstOf(m)) <= w /\ w <= Monday(LastOf(m))
                   /\ today >= w + DueDay}

AllDue(m) == \A w \in DueWeeks(m) : WeekSubmitted(w, Covered(absences), MonthDays(m))

LEMMA DueIsPast ==
  ASSUME Calendar, NEW w \in Mondays, today >= w + DueDay
  PROVE  w <= today
BY WeekFacts, CalendarAssumption DEF Calendar

\* The days of a due week that the tile judges are the days of the month.
LEMMA DueDays ==
  ASSUME Calendar, NEW m \in Int, NEW w \in Mondays, today >= w + DueDay
  PROVE  Week(w) \cap Span(FirstOf(m), DueThrough(LastOf(m))) = Week(w) \cap MonthDays(m)
<1>1. FirstOf(m) \in Int /\ LastOf(m) \in Int
  BY MonthFacts
<1>2. DueThrough(LastOf(m)) = IF LastOf(m) <= DueEnd THEN LastOf(m) ELSE DueEnd
  BY <1>1, DueThroughIs
<1>3. DueEnd \in Int /\ Sunday(w) <= DueEnd /\ Sunday(w) \in Int /\ w \in Int
  BY DueEndFacts, WeekFacts, CalendarAssumption
<1>4. ASSUME NEW d \in Week(w)
      PROVE  d \in Span(FirstOf(m), DueThrough(LastOf(m))) <=> d \in MonthDays(m)
  <2>1. d \in Days /\ d \in Int /\ d <= DueEnd
    BY <1>3 DEF Week, Span, Days
  <2> QED
    BY <1>1, <1>2, <1>3, <2>1 DEF Span, MonthDays
<1> QED
  BY <1>4

LEMMA WeekByDays ==
  ASSUME NEW w, NEW absent, NEW judged, NEW others,
         Week(w) \cap judged = Week(w) \cap others
  PROVE  WeekSubmitted(w, absent, judged) <=> WeekSubmitted(w, absent, others)
BY DEF WeekSubmitted

\* The tile calls a month submitted just if each of its due weeks is.
LEMMA TileByWeeks ==
  ASSUME Calendar, NEW m \in Int
  PROVE  MonthSubmitted(m) <=> ~HasObligation \/ AllDue(m)
<1> DEFINE to == DueThrough(LastOf(m))
           judged == Span(FirstOf(m), to)
<1>1. FirstOf(m) \in Int /\ LastOf(m) \in Int /\ FirstOf(m) <= LastOf(m)
  BY MonthFacts
<1>2. to = IF LastOf(m) <= DueEnd THEN LastOf(m) ELSE DueEnd
  BY <1>1, DueThroughIs
<1>3. DueEnd \in Int /\ to \in Int
  BY <1>1, <1>2, DueEndFacts
<1>4. MonthSubmitted(m) <=>
        ~HasObligation \/ to < FirstOf(m)
        \/ AllSubmitted(WeeksToJudge(FirstOf(m), to), Covered(absences), judged)
  BY DEF MonthSubmitted
<1> HIDE DEF to, judged
<1>5. ASSUME NEW w \in DueWeeks(m)
      PROVE  /\ WeekSubmitted(w, Covered(absences), judged)
                 <=> WeekSubmitted(w, Covered(absences), MonthDays(m))
  BY DueDays, WeekByDays DEF DueWeeks, judged, to
<1>6. WeeksToJudge(FirstOf(m), to) = DueWeeks(m)
  <2>1. ASSUME NEW w \in Mondays
        PROVE  w <= Monday(to) /\ w <= today <=> w <= Monday(LastOf(m)) /\ today >= w + DueDay
    <3>1. w \in Int /\ (w <= to <=> w <= Monday(to))
          /\ (w <= LastOf(m) <=> w <= Monday(LastOf(m)))
      BY <1>1, <1>3, WeekFacts
    <3>2. w <= DueEnd <=> today >= w + DueDay
      BY DueEndFacts
    <3>3. today >= w + DueDay => w <= today
      BY DueIsPast
    <3> QED
      BY <1>1, <1>2, <1>3, <3>1, <3>2, <3>3
  <2> QED
    BY <2>1 DEF WeeksToJudge, DueWeeks
<1>7. ASSUME to < FirstOf(m), NEW w \in DueWeeks(m)
      PROVE  WeekSubmitted(w, Covered(absences), MonthDays(m))
  <2>1. judged = {}
    BY <1>1, <1>3, <1>7 DEF judged, Span, Days
  <2>2. WeekSubmitted(w, Covered(absences), judged)
    BY <2>1 DEF WeekSubmitted
  <2> QED
    BY <1>5, <2>2
<1> QED
  BY <1>4, <1>5, <1>6, <1>7 DEF AllSubmitted, AllDue

----------------------------------------------------------------------------
(* The verdicts about one month                                            *)

LEMMA MondayGrows ==
  ASSUME NEW a \in Int, NEW b \in Int, a <= b
  PROVE  Monday(a) <= Monday(b)
<1>1. /\ Monday(a) \in Int /\ Multiple(Monday(a)) /\ Monday(a) <= a
      /\ Monday(b) \in Int /\ Multiple(Monday(b)) /\ b <= Monday(b) + WeekLength - 1
  BY MondayOfDay
<1>2. Monday(b) < Monday(a) => Monday(b) + WeekLength <= Monday(a)
  BY <1>1, WeeksApart
<1> QED
  BY <1>1, <1>2, CalendarAssumption

\* The week of a day that is due is among the month's due weeks.
LEMMA DayIsJudged ==
  ASSUME Calendar, NEW m \in Int, NEW d \in MonthDays(m), d <= DueEnd
  PROVE  /\ Monday(d) \in DueWeeks(m)
         /\ d \in Week(Monday(d)) \cap MonthDays(m)
<1>1. /\ d \in Days /\ d \in Int /\ FirstOf(m) <= d /\ d <= LastOf(m)
      /\ FirstOf(m) \in Int /\ LastOf(m) \in Int
  BY MonthFacts DEF MonthDays, Span, Days
<1>2. Monday(FirstOf(m)) <= Monday(d) /\ Monday(d) <= Monday(LastOf(m))
  BY <1>1, MondayGrows
<1>3. Monday(d) \in Mondays /\ d \in Week(Monday(d))
  BY <1>1, WeekOfDay
<1>4. Monday(d) <= DueEnd
  BY <1>1, MondayOfDay, DueEndFacts
<1> QED
  BY <1>2, <1>3, <1>4, DueEndFacts DEF DueWeeks

\* "x of y weeks" leaves out weeks before the contract, which need nothing.
LEMMA CountByWeeks ==
  ASSUME Calendar, start \in Int, NEW m \in Int
  PROVE  CountedSubmitted(m) = CountedWeeks(m) <=> AllDue(m)
<1>1. CountedWeeks(m) = {w \in DueWeeks(m) : Sunday(w) >= start}
  BY DueIsPast DEF CountedWeeks, WeeksToJudge, DueWeeks
<1>2. ASSUME NEW w \in DueWeeks(m), ~(Sunday(w) >= start)
      PROVE  WeekSubmitted(w, Covered(absences), MonthDays(m))
  <2>1. Sunday(w) \in Int
    BY WeekFacts, CalendarAssumption DEF DueWeeks
  <2>2. \A d \in Week(w) : d \in Int /\ d < start
    BY <1>2, <2>1 DEF Week, Span, Days
  <2> QED
    BY <2>2 DEF WeekSubmitted
<1> QED
  BY <1>1, <1>2 DEF CountedSubmitted, AllDue

\* Of a finished month the reminder lists its due weeks that are not submitted.
LEMMA MissingByWeeks ==
  ASSUME Calendar, NEW m \in Int, LastOf(m) < today
  PROVE  MissingWeeks(m) = {} <=> AllDue(m)
<1>1. ASSUME NEW w \in Mondays, Sunday(w) <= LastOf(m) PROVE today >= w + DueDay
  BY <1>1, WeekFacts, MonthFacts, CalendarAssumption DEF Calendar
<1>2. \A w \in Mondays : Sunday(w) \in Int /\ LastOf(m) \in Int
  BY WeekFacts, MonthFacts, CalendarAssumption
<1>3. MissingWeeks(m)
        = {w \in DueWeeks(m) : ~WeekSubmitted(w, Covered(absences), MonthDays(m))}
  BY <1>1, <1>2, DueIsPast DEF MissingWeeks, WeeksToJudge, DueWeeks
<1> QED
  BY <1>3 DEF AllDue

\* A day the card calls owing is in a due week, so the tile is not submitted.
LEMMA OwingIsTile ==
  ASSUME Calendar, NEW m \in Int, HasObligation
  PROVE  Owing(m) <=> ~MonthSubmitted(m)
<1>1. SUFFICES ASSUME NEW d \in Span(FirstOf(m), DueThrough(LastOf(m))),
                      d >= start, Incomplete(d)
               PROVE  ~AllDue(m)
  BY TileByWeeks DEF Owing
<1>2. d \in Days /\ d \in Int /\ FirstOf(m) <= d /\ d <= DueThrough(LastOf(m))
  BY DEF Span, Days
<1>3. d <= LastOf(m) /\ d <= DueEnd
  BY <1>2, MonthFacts, DueEndFacts, DueThroughIs
<1>4. d \in MonthDays(m)
  BY <1>2, <1>3, MonthFacts DEF MonthDays, Span
<1>5. Monday(d) \in DueWeeks(m) /\ d \in Week(Monday(d)) \cap MonthDays(m)
  BY <1>3, <1>4, DayIsJudged
<1>6. ~WeekSubmitted(Monday(d), Covered(absences), MonthDays(m))
  BY <1>1, <1>5 DEF WeekSubmitted
<1> QED
  BY <1>5, <1>6 DEF AllDue

LEMMA CardColours ==
  ASSUME NEW m
  PROVE  /\ Card(m) = "red" <=> Owing(m)
         /\ Card(m) = "green" => ~Owing(m) /\ ~AwaitsDecision(m)
BY DEF Card

LEMMA GreenIsApproved ==
  ASSUME Calendar, start \in Int, NEW m \in Int, Card(m) = "green", ~PreStartContent(m)
  PROVE  MonthApproved(m)
<1>1. ~Owing(m) /\ ~AwaitsDecision(m)
  BY CardColours
<1>2. MonthSubmitted(m)
  BY <1>1 DEF Owing
<1>3. ASSUME NEW d \in MonthDays(m), "submitted" \in entries[d] PROVE FALSE
  <2>1. d \in Int /\ FirstOf(m) <= d /\ FirstOf(m) \in Int
    BY MonthFacts DEF MonthDays, Span, Days
  <2>2. ~(d >= start)
    BY <1>1, <1>3 DEF AwaitsDecision
  <2>3. d < start /\ start > FirstOf(m)
    BY <2>1, <2>2
  <2>4. entries[d] \ {"rejected"} # {}
    BY <1>3
  <2> QED
    BY <2>3, <2>4 DEF PreStartContent
<1> QED
  BY <1>2, <1>3 DEF MonthApproved

----------------------------------------------------------------------------
(* The archive and the reminder's list                                     *)

States == {"draft", "submitted", "approved", "rejected"}

\* Nobody has entries on days to come.
NoneAhead ==
  /\ today \in Int /\ start \in Int
  /\ entries \in [Days -> SUBSET States]
  /\ \A d \in Days : d > today => entries[d] = {}

LEMMA JudgedEndIs ==
  ASSUME Calendar, NEW to \in Int
  PROVE  /\ Sunday(today) \in Int /\ today <= Sunday(today) /\ DueEnd <= Sunday(today)
         /\ JudgedEnd(to) = IF to <= Sunday(today) THEN to ELSE Sunday(today)
<1>1. today \in Int /\ Sunday(today) = Monday(today) + WeekLength - 1
      /\ Monday(today) \in Int /\ today <= Monday(today) + WeekLength - 1
  BY MondayOfDay DEF Calendar, Sunday
<1>2. Sunday(today) \in Int /\ today <= Sunday(today) /\ DueEnd <= Sunday(today)
  BY <1>1, DueEndFacts, CalendarAssumption
<1>3. Min({to, Sunday(today)}) = IF to <= Sunday(today) THEN to ELSE Sunday(today)
  BY <1>2, MinOfTwo
<1> QED
  BY <1>1, <1>2, <1>3 DEF JudgedEnd

\* The gate judges no day less than the tile, and counts no more absences.
LEMMA ReadyIsSubmitted ==
  ASSUME Calendar, NoneAhead, NEW m \in Int, active, FirstOf(m) <= today, ExportReady(m)
  PROVE  MonthSubmitted(m) /\ MonthApproved(m) /\ Card(m) # "red"
<1>1. FirstOf(m) \in Int /\ LastOf(m) \in Int /\ FirstOf(m) <= LastOf(m) /\ today \in Int
  BY MonthFacts DEF Calendar
<1>2. /\ Sunday(today) \in Int /\ today <= Sunday(today) /\ DueEnd <= Sunday(today)
      /\ JudgedEnd(LastOf(m)) = IF LastOf(m) <= Sunday(today) THEN LastOf(m) ELSE Sunday(today)
  BY <1>1, JudgedEndIs
<1>3. ~(JudgedEnd(LastOf(m)) < FirstOf(m))
  BY <1>1, <1>2
<1>4. WeeksReady(m) /\ Settled(m)
  BY <1>3 DEF ExportReady
<1>5. ASSUME NEW d \in MonthDays(m), d <= Sunday(today) PROVE entries[d] \subseteq {"approved"}
  <2>1. d \in Span(FirstOf(m), JudgedEnd(LastOf(m)))
    BY <1>1, <1>2, <1>5 DEF MonthDays, Span
  <2> QED
    BY <1>4, <2>1 DEF Settled, Unresolved
<1>6. ASSUME HasObligation, NEW w \in DueWeeks(m)
      PROVE  WeekSubmitted(w, Covered(absences), MonthDays(m))
  <2> DEFINE absent == Covered(Finalized \cup {a \in absences : ReachesOutside(a, m)})
  <2>1. w \in WeeksToJudge(FirstOf(m), LastOf(m))
    BY <1>6, DueIsPast DEF DueWeeks, WeeksToJudge
  <2>2. WeekSubmitted(w, absent, MonthDays(m))
    BY <1>4, <1>6, <2>1 DEF WeeksReady, AllSubmitted
  <2>3. absent \subseteq Covered(absences)
    BY DEF Covered, Finalized
  <2> HIDE DEF absent
  <2> QED
    BY <2>2, <2>3 DEF WeekSubmitted
<1>7. MonthSubmitted(m)
  BY <1>6, TileByWeeks DEF AllDue
<1>8. ASSUME NEW d \in MonthDays(m), "submitted" \in entries[d] PROVE FALSE
  <2>1. d \in Days /\ d \in Int
    BY DEF MonthDays, Span, Days
  <2>2. d <= today
    BY <1>1, <1>8, <2>1 DEF NoneAhead
  <2> QED
    BY <1>1, <1>2, <1>5, <1>8, <2>1, <2>2
<1>9. ~Owing(m)
  <2>1. ASSUME NEW d \in Span(FirstOf(m), DueThrough(LastOf(m))), Incomplete(d) PROVE FALSE
    <3>1. d \in Days /\ d \in Int /\ FirstOf(m) <= d /\ d <= LastOf(m) /\ d <= DueEnd
      BY <1>1, DueThroughIs, DueEndFacts DEF Span, Days
    <3>2. d \in MonthDays(m) /\ d <= Sunday(today)
      BY <1>1, <1>2, <3>1, DueEndFacts DEF MonthDays, Span
    <3> QED
      BY <1>5, <2>1, <3>2 DEF Incomplete
  <2> QED
    BY <1>7, <2>1 DEF Owing
<1> QED
  BY <1>7, <1>8, <1>9, CardColours DEF MonthApproved

\* A week the reminder names is missing in the month of the day it lacks.
LEMMA NamedIsMissing ==
  ASSUME Calendar, start \in Int, HasObligation, UnsubmittedWeeks # {}
  PROVE  \E k \in Months : ~MonthSubmitted(k)
<1>1. PICK w \in Mondays : Sunday(w) < today /\ ~WeekSubmitted(w, Covered(absences), Days)
  BY DEF UnsubmittedWeeks
<1>2. w \in Int /\ Multiple(w) /\ Sunday(w) = w + WeekLength - 1
  BY WeekFacts
<1>3. today >= w + DueDay
  BY <1>1, <1>2, CalendarAssumption DEF Calendar
<1>4. ASSUME NEW d \in Week(w)
      PROVE  /\ d \in Days /\ d \in Int /\ Monday(d) = w
             /\ MonthOf(d) \in Months /\ MonthOf(d) \in Int /\ d \in MonthDays(MonthOf(d))
             /\ w \in DueWeeks(MonthOf(d))
  <2>1. d \in Days /\ d \in Int /\ w <= d /\ d <= Sunday(w)
    BY <1>2 DEF Week, Span, Days
  <2>2. Monday(d) = w
    BY <1>2, <2>1, MondayIs
  <2>3. MonthOf(d) \in Months /\ d \in MonthDays(MonthOf(d)) /\ MonthOf(d) \in Int
    BY <2>1, MonthOfDay DEF Months
  <2>4. d <= DueEnd
    <3>1. Sunday(w) <= DueEnd /\ DueEnd \in Int
      BY <1>1, <1>3, DueEndFacts
    <3> QED
      BY <1>2, <2>1, <3>1, CalendarAssumption
  <2>5. Monday(d) \in DueWeeks(MonthOf(d))
    BY <2>3, <2>4, DayIsJudged
  <2> QED
    BY <2>1, <2>2, <2>3, <2>5
<1>5. PICK d \in Week(w) :
        ~WeekSubmitted(w, Covered(absences), MonthDays(MonthOf(d)))
  <2>1. CASE \E d \in Week(w) : d >= start /\ Incomplete(d)
    <3>1. PICK d \in Week(w) : d >= start /\ Incomplete(d)
      BY <2>1
    <3> QED
      BY <1>4, <3>1 DEF WeekSubmitted
  <2>2. CASE ~\E d \in Week(w) : d >= start /\ Incomplete(d)
    <3>1. /\ \A d \in Week(w) : ~HandedIn(d)
          /\ \E d \in Week(w) :
               ~(d \notin WorkDays \/ d < start \/ d \in Holidays \/ d \in Covered(absences))
      BY <1>1, <1>4, <2>2 DEF WeekSubmitted
    <3> QED
      BY <1>4, <3>1 DEF WeekSubmitted
  <2> QED
    BY <2>1, <2>2
<1>6. ~AllDue(MonthOf(d))
  BY <1>4, <1>5 DEF AllDue
<1> QED
  BY <1>4, <1>6, TileByWeeks

LEMMA VerdictsMeet ==
  ASSUME NoneAhead
  PROVE  VerdictsAgree
<1>1. Calendar /\ start \in Int
  BY DEF NoneAhead, Calendar, Days
<1>2. ASSUME NEW m \in Months, Started(m)
      PROVE  /\ HasObligation =>
                  /\ MonthSubmitted(m) <=> CountedSubmitted(m) = CountedWeeks(m)
                  /\ LastOf(m) < today => (MonthSubmitted(m) <=> MissingWeeks(m) = {})
             /\ OnCard(m) =>
                  /\ HasObligation => (Card(m) = "red" <=> ~MonthSubmitted(m))
                  /\ Card(m) = "green" /\ ~PreStartContent(m) => MonthApproved(m)
             /\ ExportReady(m) => MonthSubmitted(m) /\ MonthApproved(m) /\ Card(m) # "red"
             /\ HasObligation /\ UnsubmittedWeeks # {} => \E k \in Months : ~MonthSubmitted(k)
  <2>1. m \in Int
    BY DEF Months
  <2>2. HasObligation => (MonthSubmitted(m) <=> CountedSubmitted(m) = CountedWeeks(m))
    BY <1>1, <2>1, TileByWeeks, CountByWeeks
  <2>3. HasObligation /\ LastOf(m) < today => (MonthSubmitted(m) <=> MissingWeeks(m) = {})
    BY <1>1, <2>1, TileByWeeks, MissingByWeeks
  <2>4. HasObligation => (Card(m) = "red" <=> ~MonthSubmitted(m))
    BY <1>1, <2>1, OwingIsTile, CardColours
  <2>5. Card(m) = "green" /\ ~PreStartContent(m) => MonthApproved(m)
    BY <1>1, <2>1, GreenIsApproved
  <2>6. ExportReady(m) => MonthSubmitted(m) /\ MonthApproved(m) /\ Card(m) # "red"
    BY <1>1, <1>2, <2>1, ReadyIsSubmitted DEF Started
  <2>7. HasObligation /\ UnsubmittedWeeks # {} => \E k \in Months : ~MonthSubmitted(k)
    BY <1>1, NamedIsMissing
  <2> QED
    BY <2>2, <2>3, <2>4, <2>5, <2>6, <2>7
<1> QED
  BY <1>2 DEF VerdictsAgree

LEMMA BecomesKeeps ==
  ASSUME NoneAhead, NEW w, NEW old, NEW new \in States, NEW gone, Becomes(w, old, new, gone)
  PROVE  /\ entries' \in [Days -> SUBSET States]
         /\ \A d \in Days : d > today => entries'[d] = {}
<1>1. entries' = [d \in Days |-> IF d \in Week(w) /\ entries[d] \cap old # {}
                                THEN (entries[d] \ (old \cup gone)) \cup {new} ELSE entries[d]]
  BY DEF Becomes
<1> QED
  BY <1>1 DEF NoneAhead

LEMMA NoneAheadStep == NoneAhead /\ [Next]_vars => NoneAhead'
<1> SUFFICES ASSUME NoneAhead, [Next]_vars PROVE NoneAhead'
  OBVIOUS
<1>1. CASE UNCHANGED vars
  BY <1>1 DEF NoneAhead, vars, rows
<1>2. CASE NextDay
  <2>1. today' = today + 1 /\ today \in Int /\ UNCHANGED <<start, entries>>
    BY <1>2 DEF NextDay, rows, NoneAhead
  <2>2. \A d \in Days : d > today + 1 => d > today
    BY <2>1 DEF Days
  <2> QED
    BY <2>1, <2>2 DEF NoneAhead
<1>3. ASSUME UNCHANGED <<today, start>>,
             entries' \in [Days -> SUBSET States],
             \A d \in Days : d > today => entries'[d] = {}
      PROVE  NoneAhead'
  BY <1>3 DEF NoneAhead
<1>4. ASSUME NEW d \in Days, Enter(d) PROVE NoneAhead'
  <2>1. entries' = [entries EXCEPT ![d] = @ \cup {"draft"}] /\ d <= today
    BY <1>4 DEF Enter
  <2>2. \A e \in Days : e > today => e # d
    BY <2>1 DEF NoneAhead, Days
  <2>3. entries' \in [Days -> SUBSET States]
    BY <2>1 DEF NoneAhead, States
  <2>4. \A e \in Days : e > today => entries'[e] = {}
    BY <2>1, <2>2 DEF NoneAhead
  <2> QED
    BY <1>3, <1>4, <2>3, <2>4 DEF Enter, Step
<1>5. ASSUME NEW d \in Days, Discard(d) PROVE NoneAhead'
  <2>1. entries' = [entries EXCEPT ![d] = @ \ {"draft"}]
    BY <1>5 DEF Discard
  <2> QED
    BY <1>3, <1>5, <2>1 DEF Discard, Step, NoneAhead
<1>6. ASSUME NEW w \in Mondays, Submit(w) \/ Approve(w) \/ Reject(w) \/ Reopen(w)
      PROVE  NoneAhead'
  <2>1. {"draft", "submitted", "approved", "rejected"} \subseteq States
    BY DEF States
  <2> QED
    BY <1>3, <1>6, <2>1, BecomesKeeps DEF Submit, Approve, Reject, Reopen, Step
<1>7. CASE Archive
  <2>1. entries' = [d \in Days |-> IF "submitted" \in entries[d]
                                  THEN (entries[d] \ {"submitted"}) \cup {"draft"} ELSE entries[d]]
    BY <1>7 DEF Archive
  <2>2. entries' \in [Days -> SUBSET States]
    BY <2>1 DEF NoneAhead, States
  <2>3. \A d \in Days : d > today => entries'[d] = {}
    BY <2>1 DEF NoneAhead
  <2> QED
    BY <1>3, <1>7, <2>2, <2>3 DEF Archive, Step
<1>8. CASE MoveStart
  <2>1. start' \in Int /\ UNCHANGED <<today, entries>>
    BY <1>8, CalendarAssumption DEF MoveStart, Step
  <2> QED
    BY <2>1 DEF NoneAhead
<1>9. ASSUME UNCHANGED <<today, start, entries>> PROVE NoneAhead'
  BY <1>9 DEF NoneAhead
<1>10. CASE \E w \in Mondays : AskToReopen(w)
  BY <1>9, <1>10 DEF AskToReopen, Step
<1>11. CASE \E from, to \in Days : Request(from, to)
  BY <1>9, <1>11 DEF Request, Step
<1>12. CASE \E a \in absences : \/ Advance(a, "requested", "approved")
                                \/ Advance(a, "approved", "cancellation_pending")
                                \/ Advance(a, "cancellation_pending", "approved")
                                \/ End(a)
  BY <1>9, <1>12 DEF Advance, End, Step
<1> QED
  BY <1>1, <1>2, <1>4, <1>5, <1>6, <1>7, <1>8, <1>10, <1>11, <1>12 DEF Next, Change

\* The views of a month give one verdict: tile, week count, card, the list of the
\* reminder and the gate of the archive, whatever anybody does and when.
THEOREM VerdictsAlwaysAgree ==
  /\ Spec => []VerdictsAgree
  /\ MCSpec => []VerdictsAgreeUnwatched
<1>1. Init => NoneAhead
  <2>1. SUFFICES ASSUME Init PROVE NoneAhead
    OBVIOUS
  <2>2. start \in Int
    BY <2>1, CalendarAssumption DEF Init
  <2> QED
    BY <2>1, <2>2 DEF Init, NoneAhead
<1>2. NoneAhead /\ [Next]_vars => NoneAhead'
  BY NoneAheadStep
<1>3. NoneAhead => VerdictsAgree
  BY VerdictsMeet
<1>4. Spec => []VerdictsAgree
  BY <1>1, <1>2, <1>3, PTL DEF Spec
<1> DEFINE Unwatched == ~watched => NoneAhead
<1>5. MCInit => Unwatched
  BY <1>1 DEF MCInit, ReminderInit
<1>6. Unwatched /\ [MCNext]_<<allVars, watched>> => Unwatched'
  <2>1. [MCNext]_<<allVars, watched>> /\ ~watched' => ~watched /\ [Next]_vars
    BY DEF MCNext, allVars
  <2> QED
    BY <2>1, <1>2
<1>7. Unwatched => VerdictsAgreeUnwatched
  BY <1>3 DEF VerdictsAgreeUnwatched
<1>8. MCSpec => []VerdictsAgreeUnwatched
  <2> HIDE DEF Unwatched
  <2> QED
    BY <1>5, <1>6, <1>7, PTL DEF MCSpec
<1> QED
  BY <1>4, <1>8

----------------------------------------------------------------------------
(* Which steps move the calendar                                           *)

LEMMA ChangeToday ==
  ASSUME Change
  PROVE  UNCHANGED <<today, role>>
BY DEF Change, Enter, Discard, Submit, Approve, Reject, AskToReopen, Reopen, Request,
       Advance, End, MoveStart, Archive, Step

\* What the loops do is nothing to the rows, and midnight is the passing of a day.
LEMMA StepIsStep ==
  ASSUME [ReminderNext]_allVars
  PROVE  [Next]_vars
<1>1. CASE \E loop \in Loops :
             \/ QueueMail(loop) \/ DeleteAll(loop)
             \/ \E kind \in KindsOf(loop) : Notify(loop, kind)
  BY <1>1 DEF QueueMail, Notify, DeleteAll
<1>2. CASE Stop \/ Start \/ NextHour \/ UNCHANGED allVars
  BY <1>2 DEF Stop, Start, NextHour, allVars
<1>3. CASE Midnight
  BY <1>3 DEF Midnight, Next
<1>4. CASE Change
  BY <1>4 DEF Next
<1> QED
  BY <1>1, <1>2, <1>3, <1>4 DEF ReminderNext

\* The reminders only watch: what holds of the rows and the calendar holds with
\* the loops beside them.
THEOREM RemindersOnlyWatch == ReminderSpec => Spec
<1>1. ReminderInit => Init
  BY DEF ReminderInit
<1>2. [ReminderNext]_allVars => [Next]_vars
  BY StepIsStep
<1> QED
  BY <1>1, <1>2, PTL DEF ReminderSpec, Spec

LEMMA CalendarStep == Calendar /\ [Next]_vars => Calendar'
  BY ChangeToday DEF Calendar, Next, NextDay, vars

----------------------------------------------------------------------------
(* A finished month stays ready                                            *)

\* The weeks of a month gone by, and its end, no longer depend on today.
LEMMA WeeksOfPast ==
  ASSUME NEW m \in Int, today \in Int, today' = today + 1, LastOf(m) < today
  PROVE  /\ LastOf(m) \in Int
         /\ JudgedEnd(LastOf(m)) = LastOf(m) /\ JudgedEnd(LastOf(m))' = LastOf(m)
         /\ WeeksToJudge(FirstOf(m), LastOf(m))' = WeeksToJudge(FirstOf(m), LastOf(m))
<1>1. LastOf(m) \in Int /\ FirstOf(m) \in Int
  BY CalendarAssumption DEF LastOf, FirstOf
<1>2. JudgedEnd(LastOf(m)) = LastOf(m) /\ JudgedEnd(LastOf(m))' = LastOf(m)
  BY <1>1 DEF JudgedEnd, LastOf
<1>3. Monday(LastOf(m)) \in Int /\ Monday(LastOf(m)) <= LastOf(m)
  <2>1. LastOf(m) % WeekLength \in 0..WeekLength - 1
    BY <1>1, CalendarAssumption, Remainder
  <2> QED
    BY <1>1, <2>1, CalendarAssumption DEF Monday
<1>4. \A w \in Mondays : w \in Int
  <2>1. ASSUME NEW d \in Days PROVE Monday(d) \in Int
    <3>1. d \in Int /\ d % WeekLength \in 0..WeekLength - 1
      BY CalendarAssumption, Remainder DEF Days
    <3> QED
      BY <3>1, CalendarAssumption DEF Monday
  <2> QED
    BY <2>1 DEF Mondays
<1>5. ASSUME NEW w \in Mondays, w <= Monday(LastOf(m)) PROVE w <= today /\ w <= today + 1
  BY <1>1, <1>3, <1>4, <1>5
<1> QED
  BY <1>1, <1>2, <1>5 DEF WeeksToJudge, LastOf, FirstOf, Monday, Mondays

LEMMA ReadyStep ==
  ASSUME Calendar, NextDay, NEW m \in Months, LastOf(m) < today, ExportReady(m)
  PROVE  ExportReady(m)'
<1>1. UNCHANGED <<start, role, active, entries, absences, reopens>> /\ today' = today + 1
  BY DEF NextDay, rows
<1>2. m \in Int
  BY DEF Months
<1>3. /\ JudgedEnd(LastOf(m)) = LastOf(m) /\ JudgedEnd(LastOf(m))' = LastOf(m)
      /\ WeeksToJudge(FirstOf(m), LastOf(m))' = WeeksToJudge(FirstOf(m), LastOf(m))
  BY <1>1, <1>2, WeeksOfPast DEF Calendar
<1>4. PreStartContent(m)' = PreStartContent(m)
  BY <1>1 DEF PreStartContent, Finalized, Requested, Touches, Within
<1>5. Settled(m)' = Settled(m)
  BY <1>1, <1>3 DEF Settled, Unresolved
<1>6. \A weeks, absent, judged :
        AllSubmitted(weeks, absent, judged)' = AllSubmitted(weeks, absent, judged)
  BY <1>1 DEF AllSubmitted, WeekSubmitted, HandedIn, Incomplete
<1>7. WeeksReady(m)' = WeeksReady(m)
  BY <1>1, <1>3, <1>6
     DEF WeeksReady, Covered, Finalized, Requested, ReachesOutside, HasObligation, Touches,
         Within
<1> QED
  BY <1>1, <1>3, <1>4, <1>5, <1>7 DEF ExportReady, Requested, Touches, Within

\* A finished month that may be archived stays so while only time passes.
THEOREM ReadyStays == Spec => ReadyStaysReady
<1>1. Init => Calendar
  BY DEF Init, Calendar
<1>2. Calendar /\ [Next]_vars => Calendar'
  BY CalendarStep
<1>3. Calendar /\ [Next]_vars =>
        [today' # today =>
           \A m \in Months : LastOf(m) < today /\ ExportReady(m) => ExportReady(m)']_vars
  BY ChangeToday, ReadyStep DEF Next
<1> QED
  BY <1>1, <1>2, <1>3, PTL DEF Spec, ReadyStaysReady

----------------------------------------------------------------------------
(* A second reminder of a day only to those who cleared the first          *)

\* E-mails of one kind that were queued today, and the one about to be.
Sent(loop, kind) == mails[kind] + IF sending[loop] = kind THEN 1 ELSE 0

\* 1 while the row of the day keeps the reminder from being written again.
Held(kind) == IF <<kind, <<today>>>> \in notified THEN 1 ELSE 0

\* Every e-mail had a row of its own: the one that is there, or one that was cleared.
Paid(loop, kind) == Sent(loop, kind) <= cleared[loop] + Held(kind)

\* The row of a day is not there before the day.
NoRowAhead == \A kind \in Kinds : \A d \in Int : d > today => <<kind, <<d>>>> \notin notified

Delivered ==
  /\ mails \in [Kinds -> Nat] /\ cleared \in [Loops -> Nat]
  /\ sending \in [Loops -> Kinds \cup {None}]
  /\ \A loop \in Loops : sending[loop] # None => up /\ sending[loop] \in KindsOf(loop)
  /\ NoRowAhead
  /\ \A loop \in Loops : \A kind \in KindsOf(loop) : Paid(loop, kind)

\* The loops have no kind of reminder in common.
LEMMA KindsApart ==
  /\ \A loop \in Loops : KindsOf(loop) \subseteq Kinds
  /\ \A a, b \in Loops : a # b => KindsOf(a) \cap KindsOf(b) = {}
  /\ None \notin Kinds
BY DEF KindsOf, Kinds, SubmissionKinds, ApprovalKinds, Loops, None

LEMMA DeliveredInit == ReminderInit => Delivered
<1> SUFFICES ASSUME ReminderInit PROVE Delivered
  OBVIOUS
<1>1. /\ notified = {} /\ mails = [kind \in Kinds |-> 0]
      /\ cleared = [loop \in Loops |-> 0] /\ sending = [loop \in Loops |-> None]
  BY DEF ReminderInit
<1>2. ASSUME NEW loop \in Loops, NEW kind \in KindsOf(loop) PROVE Paid(loop, kind)
  BY <1>1, KindsApart DEF Paid, Sent, Held
<1> QED
  BY <1>1, <1>2 DEF Delivered, NoRowAhead

LEMMA NotifyKeeps ==
  ASSUME Delivered, Calendar, NEW loop \in Loops, NEW kind \in KindsOf(loop),
         Notify(loop, kind)
  PROVE  Delivered'
<1>1. /\ notified' = notified \cup {<<kind, <<today>>>>} /\ <<kind, <<today>>>> \notin notified
      /\ sending[loop] = None /\ sending' = [sending EXCEPT ![loop] = kind]
      /\ UNCHANGED <<today, up, mails, cleared>> /\ up
  BY DEF Notify, Key, vars
<1>2. kind \in Kinds /\ kind # None
  BY KindsApart
<1>3. ASSUME NEW l \in Loops, NEW k \in KindsOf(l) PROVE Paid(l, k)'
  <2>1. k \in Kinds /\ k # None /\ Paid(l, k) /\ mails[k] \in Nat /\ cleared[l] \in Nat
    BY KindsApart DEF Delivered
  <2>2. CASE l = loop /\ k = kind
    <3>1. Sent(l, k) = mails[k] /\ Held(k) = 0
      BY <1>1, <1>2, <2>1, <2>2 DEF Sent, Held
    <3>2. Sent(l, k)' = mails[k] + 1 /\ Held(k)' = 1
      BY <1>1, <1>2, <2>2 DEF Sent, Held, Delivered
    <3> QED
      BY <1>1, <2>1, <3>1, <3>2 DEF Paid
  <2>3. CASE ~(l = loop /\ k = kind)
    <3>1. k # kind
      BY <2>3, KindsApart
    <3>2. (sending[l] = k)' => sending[l] = k
      BY <1>1, <3>1 DEF Delivered
    <3>3. Held(k)' = Held(k)
      BY <1>1, <3>1 DEF Held
    <3> QED
      BY <1>1, <2>1, <3>2, <3>3 DEF Paid, Sent, Held
  <2> QED
    BY <2>2, <2>3
<1>4. NoRowAhead'
  BY <1>1, <1>2 DEF Delivered, NoRowAhead, Calendar
<1>5. ASSUME NEW l \in Loops, sending'[l] # None PROVE up' /\ sending'[l] \in KindsOf(l)
  BY <1>1, <1>5 DEF Delivered
<1> QED
  BY <1>1, <1>2, <1>3, <1>4, <1>5 DEF Delivered

LEMMA QueueMailKeeps ==
  ASSUME Delivered, NEW loop \in Loops, QueueMail(loop)
  PROVE  Delivered'
<1> DEFINE kind == sending[loop]
<1>1. /\ up /\ kind # None
      /\ mails' = [mails EXCEPT ![kind] = @ + 1]
      /\ sending' = [sending EXCEPT ![loop] = None]
      /\ UNCHANGED <<today, up, notified, cleared>>
  BY DEF QueueMail, vars
<1>2. kind \in KindsOf(loop) /\ kind \in Kinds
  BY <1>1, KindsApart DEF Delivered
<1>3. sending[loop] = kind
  OBVIOUS
<1> HIDE DEF kind
<1>4. ASSUME NEW l \in Loops, NEW k \in KindsOf(l) PROVE Paid(l, k)'
  <2>1. k \in Kinds /\ k # None /\ Paid(l, k) /\ mails[k] \in Nat /\ cleared[l] \in Nat
    BY KindsApart DEF Delivered
  <2>2. Held(k)' = Held(k)
    BY <1>1 DEF Held
  <2>3. CASE l = loop /\ k = kind
    <3>1. Sent(l, k) = mails[k] + 1
      BY <1>3, <2>3 DEF Sent
    <3>2. Sent(l, k)' = mails[k] + 1
      BY <1>1, <1>2, <2>1, <2>3 DEF Sent, Delivered
    <3> QED
      BY <1>1, <2>1, <2>2, <3>1, <3>2 DEF Paid
  <2>4. CASE ~(l = loop /\ k = kind)
    <3>1. k # kind
      BY <1>2, <2>4, KindsApart
    <3>2. mails'[k] = mails[k] /\ ((sending[l] = k)' => sending[l] = k)
      BY <1>1, <2>1, <3>1 DEF Delivered
    <3> QED
      BY <1>1, <2>1, <2>2, <3>2 DEF Paid, Sent, Held
  <2> QED
    BY <2>3, <2>4
<1>5. NoRowAhead'
  BY <1>1 DEF Delivered, NoRowAhead
<1>6. ASSUME NEW l \in Loops, sending'[l] # None PROVE up' /\ sending'[l] \in KindsOf(l)
  BY <1>1, <1>6 DEF Delivered
<1> QED
  BY <1>1, <1>2, <1>4, <1>5, <1>6 DEF Delivered

\* A clearing pays for the row it takes.
LEMMA DeleteAllKeeps ==
  ASSUME Delivered, NEW loop \in Loops, DeleteAll(loop)
  PROVE  Delivered'
<1>1. /\ notified' = {row \in notified : row[1] \notin KindsOf(loop)}
      /\ cleared' = [cleared EXCEPT ![loop] = @ + 1]
      /\ UNCHANGED <<today, up, sending, mails>>
  BY DEF DeleteAll, vars
<1>2. ASSUME NEW l \in Loops, NEW k \in KindsOf(l) PROVE Paid(l, k)'
  <2>1. k \in Kinds /\ Paid(l, k) /\ mails[k] \in Nat /\ cleared[l] \in Nat
    BY KindsApart DEF Delivered
  <2>2. Sent(l, k)' = Sent(l, k) /\ Sent(l, k) \in Nat
    BY <1>1, <2>1 DEF Sent
  <2>3. CASE l = loop
    <3>1. cleared'[l] = cleared[l] + 1
      BY <1>1, <2>3 DEF Delivered
    <3>2. Held(k) <= 1 /\ Held(k) \in Nat /\ Held(k)' \in Nat
      BY DEF Held
    <3> QED
      BY <2>1, <2>2, <3>1, <3>2 DEF Paid
  <2>4. CASE l # loop
    <3>1. k \notin KindsOf(loop)
      BY <2>4, KindsApart
    <3>2. Held(k)' = Held(k) /\ cleared'[l] = cleared[l]
      BY <1>1, <2>4, <3>1 DEF Held, Delivered
    <3> QED
      BY <2>1, <2>2, <3>2 DEF Paid
  <2> QED
    BY <2>3, <2>4
<1>3. NoRowAhead'
  BY <1>1 DEF Delivered, NoRowAhead
<1> QED
  BY <1>1, <1>2, <1>3 DEF Delivered

\* A crash forgets e-mails, and never one that was not paid for.
LEMMA StopKeeps ==
  ASSUME Delivered, Stop
  PROVE  Delivered'
<1>1. sending' = [loop \in Loops |-> None] /\ UNCHANGED <<today, notified, cleared, mails>>
  BY DEF Stop, vars
<1>2. ASSUME NEW l \in Loops, NEW k \in KindsOf(l) PROVE Paid(l, k)'
  <2>1. k # None /\ k \in Kinds /\ Paid(l, k) /\ mails[k] \in Nat /\ cleared[l] \in Nat
    BY KindsApart DEF Delivered
  <2> QED
    BY <1>1, <2>1 DEF Paid, Sent, Held
<1> QED
  BY <1>1, <1>2 DEF Delivered, NoRowAhead

\* At midnight nothing is under way, and the new day has no rows yet.
LEMMA MidnightKeeps ==
  ASSUME Delivered, Calendar, Midnight
  PROVE  Delivered'
<1>1. /\ today' = today + 1 /\ today \in Int
      /\ mails' = [kind \in Kinds |-> 0] /\ cleared' = [loop \in Loops |-> 0]
      /\ UNCHANGED <<up, notified, sending>>
  BY DEF Midnight, NextDay, Calendar
<1>2. \A loop \in Loops : sending[loop] = None
  BY DEF Midnight, LoopsAreDone, Delivered
<1>3. ASSUME NEW l \in Loops, NEW k \in KindsOf(l) PROVE Paid(l, k)'
  BY <1>1, <1>2, KindsApart DEF Paid, Sent, Held
<1>4. NoRowAhead'
  <2>1. ASSUME NEW d \in Int, d > today + 1 PROVE d > today
    BY <1>1, <2>1
  <2> QED
    BY <1>1, <2>1 DEF Delivered, NoRowAhead
<1> QED
  BY <1>1, <1>2, <1>3, <1>4 DEF Delivered

LEMMA DeliveredStep == Delivered /\ Calendar /\ [ReminderNext]_allVars => Delivered'
<1> SUFFICES ASSUME Delivered, Calendar, [ReminderNext]_allVars PROVE Delivered'
  OBVIOUS
<1>1. CASE \E loop \in Loops :
             QueueMail(loop) \/ \E kind \in KindsOf(loop) : Notify(loop, kind)
  BY <1>1, QueueMailKeeps, NotifyKeeps
<1>2. CASE \E loop \in Loops : DeleteAll(loop)
  BY <1>2, DeleteAllKeeps
<1>3. CASE Start \/ NextHour \/ UNCHANGED allVars \/ (Change /\ UNCHANGED reminderVars)
  <2>1. UNCHANGED <<today, notified, cleared, sending, mails>> /\ (up => up')
    BY <1>3, ChangeToday DEF Start, NextHour, allVars, vars, reminderVars
  <2> QED
    BY <2>1 DEF Delivered, NoRowAhead, Paid, Sent, Held
<1> QED
  BY <1>1, <1>2, <1>3, StopKeeps, MidnightKeeps DEF ReminderNext

\* The same reminder comes again on one day only to somebody who cleared their
\* notifications in between, at most once for each time, whenever the process stops and
\* starts and whatever is handed in.
THEOREM RemindedOnceAlways == ReminderSpec => []RemindedOnce
<1>1. ReminderInit => Calendar /\ Delivered
  BY DeliveredInit DEF ReminderInit, Init, Calendar
<1>2. Calendar /\ Delivered /\ [ReminderNext]_allVars => Calendar' /\ Delivered'
  BY StepIsStep, CalendarStep, DeliveredStep
<1>3. Delivered => RemindedOnce
  <2> SUFFICES ASSUME Delivered, NEW loop \in Loops, NEW kind \in KindsOf(loop)
               PROVE  mails[kind] <= 1 + cleared[loop]
    BY DEF RemindedOnce
  <2>1. kind \in Kinds /\ mails[kind] \in Nat /\ cleared[loop] \in Nat /\ Paid(loop, kind)
    BY KindsApart DEF Delivered
  <2> QED
    BY <2>1 DEF Paid, Sent, Held
<1> QED
  BY <1>1, <1>2, <1>3, PTL DEF ReminderSpec

----------------------------------------------------------------------------
(* The run's two scenarios                                                 *)

\* The watched instance has the calendar and the views of the unwatched one.
LEMMA WatchedCalendar ==
  /\ Watched!Days = Days /\ Watched!Mondays = Mondays
  /\ \A w : Watched!Week(w) = Week(w)
  /\ \A d, a : Watched!Within(d, a) = Within(d, a)
  /\ \A S : Watched!Covered(S) = Covered(S)
  /\ Watched!Finalized = Finalized
BY DEF Watched!Days, Days, Watched!Mondays, Mondays, Watched!Monday, Monday, Watched!Week,
       Week, Watched!Span, Span, Watched!Sunday, Sunday, Watched!Within, Within,
       Watched!Covered, Covered, Watched!Finalized, Finalized, Watched!Requested, Requested

LEMMA WatchedBecomes ==
  \A w, old, new, gone : Watched!Becomes(w, old, new, gone) => Becomes(w, old, new, gone)
BY WatchedCalendar DEF Watched!Becomes, Becomes

LEMMA WatchedStep ==
  ASSUME steps \in Nat, Watched!Step
  PROVE  Step
BY MCAssumption DEF Watched!Step, Step

\* Beside the loops nobody takes a step that is not taken without them.
LEMMA WatchedChange ==
  ASSUME steps \in Nat, Watched!Change
  PROVE  Change
<1>1. ASSUME NEW d \in Days, Watched!Enter(d) \/ Watched!Discard(d)
      PROVE  Enter(d) \/ Discard(d)
  BY <1>1, WatchedStep, WatchedCalendar DEF Watched!Enter, Enter, Watched!Discard, Discard
<1>2. ASSUME NEW w \in Mondays,
             \/ Watched!Submit(w) \/ Watched!Approve(w) \/ Watched!Reject(w)
             \/ Watched!AskToReopen(w) \/ Watched!Reopen(w)
      PROVE  Submit(w) \/ Approve(w) \/ Reject(w) \/ AskToReopen(w) \/ Reopen(w)
  BY <1>2, WatchedStep, WatchedCalendar, WatchedBecomes
     DEF Watched!Submit, Submit, Watched!Approve, Approve, Watched!Reject, Reject,
         Watched!AskToReopen, AskToReopen, Watched!Reopen, Reopen
<1>3. ASSUME NEW from \in Days, NEW to \in Days, Watched!Request(from, to)
      PROVE  Request(from, to)
  BY <1>3, WatchedStep DEF Watched!Request, Request
<1>4. ASSUME NEW a \in absences, NEW old, NEW new, Watched!Advance(a, old, new)
      PROVE  Advance(a, old, new)
  BY <1>4, WatchedStep, WatchedCalendar DEF Watched!Advance, Advance
<1>5. ASSUME NEW a \in absences, Watched!End(a) PROVE End(a)
  BY <1>5, WatchedStep DEF Watched!End, End
<1>6. Watched!MoveStart => MoveStart
  BY WatchedStep, MCAssumption DEF Watched!MoveStart, MoveStart
<1>7. Watched!Archive => Archive
  BY WatchedStep, WatchedCalendar DEF Watched!Archive, Archive
<1> QED
  BY <1>1, <1>2, <1>3, <1>4, <1>5, <1>6, <1>7, WatchedCalendar DEF Watched!Change, Change

\* The instance sees the same weeks missing, and so the same reminders due.
LEMMA WatchedViews ==
  /\ Watched!UnsubmittedWeeks = UnsubmittedWeeks
  /\ \A m : /\ Watched!MonthDays(m) = MonthDays(m)
            /\ Watched!MissingWeeks(m) = MissingWeeks(m)
<1>1. \A d : Watched!Monday(d) = Monday(d) /\ Watched!Sunday(d) = Sunday(d)
  BY DEF Watched!Monday, Monday, Watched!Sunday, Sunday
<1>2. \A m : /\ Watched!FirstOf(m) = FirstOf(m) /\ Watched!LastOf(m) = LastOf(m)
             /\ Watched!MonthDays(m) = MonthDays(m)
  BY WatchedCalendar
     DEF Watched!FirstOf, FirstOf, Watched!LastOf, LastOf, Watched!MonthDays, MonthDays,
         Watched!Span, Span
<1>3. \A from, to : Watched!WeeksToJudge(from, to) = WeeksToJudge(from, to)
  BY <1>1, WatchedCalendar DEF Watched!WeeksToJudge, WeeksToJudge
<1>4. \A w, absent, judged :
        Watched!WeekSubmitted(w, absent, judged) = WeekSubmitted(w, absent, judged)
  BY WatchedCalendar
     DEF Watched!WeekSubmitted, WeekSubmitted, Watched!Incomplete, Incomplete,
         Watched!HandedIn, HandedIn
<1>5. Watched!UnsubmittedWeeks = UnsubmittedWeeks
  BY <1>1, <1>4, WatchedCalendar DEF Watched!UnsubmittedWeeks, UnsubmittedWeeks
<1>6. \A m : Watched!MissingWeeks(m) = MissingWeeks(m)
  BY <1>1, <1>2, <1>3, <1>4, WatchedCalendar DEF Watched!MissingWeeks, MissingWeeks
<1> QED
  BY <1>2, <1>5, <1>6

LEMMA WatchedDue == \A kind \in Kinds : Watched!Due(kind) <=> Due(kind)
<1>1. /\ Watched!DayOfMonth = DayOfMonth /\ Watched!PreviousMonth = PreviousMonth
      /\ Watched!AsksForWeeks <=> AsksForWeeks
  BY DEF Watched!DayOfMonth, DayOfMonth, Watched!PreviousMonth, PreviousMonth,
         Watched!MonthOf, MonthOf, Watched!AsksForWeeks, AsksForWeeks
<1>2. Watched!SubmissionDeadline = SubmissionDeadline
  BY DEF Watched!SubmissionDeadline, SubmissionDeadline
<1>3. /\ Watched!DeadlineIsDueNow <=> DeadlineIsDueNow
      /\ Watched!MondayIsDueNow <=> MondayIsDueNow
      /\ Watched!MonthReminderIsDueNow <=> MonthReminderIsDueNow
  BY <1>1
     DEF Watched!DeadlineIsDueNow, DeadlineIsDueNow, Watched!MondayIsDueNow, MondayIsDueNow,
         Watched!Monday, Monday, Watched!MonthReminderIsDueNow, MonthReminderIsDueNow
<1>4. Watched!MonthWeeksDue <=> MonthWeeksDue
  BY <1>1, <1>2, <1>3, WatchedViews DEF Watched!MonthWeeksDue, MonthWeeksDue
<1>5. Watched!Pending <=> Pending
  BY WatchedCalendar DEF Watched!Pending, Pending
<1>6. \A d : Watched!Incomplete(d) <=> Incomplete(d)
  BY DEF Watched!Incomplete, Incomplete
<1>7. Watched!Requested = Requested
  BY DEF Watched!Requested, Requested
<1>8. \A a, S : Watched!Touches(a, S) <=> Touches(a, S)
  BY WatchedCalendar DEF Watched!Touches, Touches
<1> SUFFICES ASSUME NEW kind \in Kinds PROVE Watched!Due(kind) <=> Due(kind)
  OBVIOUS
<1>9. CASE kind = "submission_reminder"
  BY <1>1, <1>2, <1>3, <1>4, <1>9, WatchedViews DEF Watched!Due, Due
<1>10. CASE kind = "month_weeks_reminder"
  BY <1>1, <1>2, <1>4, <1>10 DEF Watched!Due, Due
<1>11. CASE kind = "month_end_submission_reminder"
  BY <1>1, <1>2, <1>3, <1>6, <1>11, WatchedViews DEF Watched!Due, Due
<1>12. CASE kind = "approval_reminder"
  BY <1>3, <1>5, <1>12 DEF Watched!Due, Due
<1>13. CASE kind = "month_end_approval_reminder"
  BY <1>1, <1>3, <1>7, <1>8, <1>13, WatchedViews DEF Watched!Due, Due
<1> QED
  BY <1>9, <1>10, <1>11, <1>12, <1>13 DEF Kinds, SubmissionKinds, ApprovalKinds

\* What the watched part does, people and loops do.
LEMMA WatchedNext ==
  ASSUME steps \in Nat, Watched!ReminderNext
  PROVE  ReminderNext
<1>1. Watched!Loops = Loops /\ Watched!None = None /\ Watched!Kinds = Kinds
      /\ Watched!reminderVars = reminderVars /\ Watched!vars = vars
  BY DEF Watched!Loops, Loops, Watched!None, None, Watched!Kinds, Kinds,
         Watched!SubmissionKinds, SubmissionKinds, Watched!ApprovalKinds, ApprovalKinds,
         Watched!reminderVars, reminderVars, Watched!vars, vars, Watched!rows, rows
<1>2. \A loop : Watched!KindsOf(loop) = KindsOf(loop)
  BY DEF Watched!KindsOf, KindsOf, Watched!SubmissionKinds, SubmissionKinds,
         Watched!ApprovalKinds, ApprovalKinds
<1>3. \A kind : Watched!Key(kind) = Key(kind)
  BY DEF Watched!Key, Key
<1>10. \A loop \in Loops : KindsOf(loop) \subseteq Kinds
  BY DEF KindsOf, Kinds
<1>4. Watched!LoopsAreDone <=> LoopsAreDone
  BY <1>1, <1>2, <1>3, <1>10, WatchedDue DEF Watched!LoopsAreDone, LoopsAreDone
<1>5. Watched!Midnight => Midnight
  BY <1>1, <1>4, WatchedViews
     DEF Watched!Midnight, Midnight, Watched!NextDay, NextDay, Watched!rows, rows,
         Watched!AsksForWeeks, AsksForWeeks, Watched!PreviousMonth, PreviousMonth,
         Watched!MonthOf, MonthOf, Watched!AskedToday, AskedToday
<1>6. Watched!NextHour => NextHour
  BY <1>1, <1>4 DEF Watched!NextHour, NextHour, Watched!vars, vars, Watched!rows, rows
<1>7. (Watched!Stop => Stop) /\ (Watched!Start => Start)
  BY <1>1 DEF Watched!Stop, Stop, Watched!Start, Start, Watched!vars, vars, Watched!rows, rows
<1>8. ASSUME NEW loop \in Loops, Watched!QueueMail(loop) PROVE QueueMail(loop)
  BY <1>1, <1>8 DEF Watched!QueueMail, QueueMail, Watched!vars, vars, Watched!rows, rows
<1>9. ASSUME NEW loop \in Loops, NEW kind \in KindsOf(loop), Watched!Notify(loop, kind)
      PROVE  Notify(loop, kind)
  BY <1>1, <1>3, <1>9, <1>10, WatchedDue
     DEF Watched!Notify, Notify, Watched!vars, vars, Watched!rows, rows
<1>11. ASSUME NEW loop \in Loops, Watched!DeleteAll(loop) PROVE DeleteAll(loop)
  BY <1>1, <1>2, <1>11 DEF Watched!DeleteAll, DeleteAll, Watched!vars, vars, Watched!rows, rows
<1> QED
  BY <1>1, <1>2, <1>5, <1>6, <1>7, <1>8, <1>9, <1>11, WatchedChange
     DEF Watched!ReminderNext, ReminderNext, Watched!reminderVars, reminderVars

LEMMA StepsCount ==
  ASSUME steps \in Nat, [Next]_vars
  PROVE  steps' \in Nat
<1>1. Change => steps' = steps + 1
  BY DEF Change, Enter, Discard, Submit, Approve, Reject, AskToReopen, Reopen, Request,
         Advance, End, MoveStart, Archive, Step
<1> QED
  BY <1>1 DEF Next, NextDay, vars

----------------------------------------------------------------------------
(* Whoever waits for a decision is heard of on Monday                      *)

\* What the card counts as waiting, the reminder counts as pending.
LEMMA AmberIsPending ==
  ASSUME NEW m \in Months, OnCard(m), Card(m) = "amber"
  PROVE  Pending
<1>1. active
  BY DEF OnCard
<1>2. AwaitsDecision(m)
  BY DEF Card
<1>3. ASSUME NEW w \in reopens PROVE Pending
  BY <1>1, <1>3 DEF Pending, Week, Span
<1> QED
  BY <1>1, <1>2, <1>3 DEF AwaitsDecision, Pending, MonthDays, Span

LEMMA HeardStep == Calendar /\ [ReminderNext]_allVars => [HeardOnMonday]_allVars
<1> SUFFICES ASSUME Calendar, [ReminderNext]_allVars, today' # today, up, Monday(today) = today,
                    NEW m \in Months, OnCard(m), Card(m) = "amber"
             PROVE  <<"approval_reminder", Key("approval_reminder")>> \in notified
  BY DEF HeardOnMonday
<1>1. Midnight
  BY ChangeToday
     DEF ReminderNext, QueueMail, Notify, DeleteAll, Stop, Start, NextHour, allVars, vars
<1>2. "approval_reminder" \in KindsOf("approval") /\ "approval" \in Loops
  BY DEF KindsOf, ApprovalKinds, Loops
<1>3. Due("approval_reminder")
  BY <1>1, AmberIsPending DEF Due, MondayIsDueNow, Midnight
<1> QED
  BY <1>1, <1>2, <1>3 DEF Midnight, LoopsAreDone

\* Whatever the approvers' card shows as waiting on a Monday, an approver has been
\* reminded of by its end.
THEOREM WaitingHeard ==
  /\ ReminderSpec => WaitingIsHeard
  /\ MCSpec => WaitingIsHeardWatched
<1>1. ReminderInit => Calendar /\ steps \in Nat
  BY DEF ReminderInit, Init, Calendar
<1>2. Calendar /\ [Next]_vars => Calendar'
  BY CalendarStep
<1>3. Calendar /\ [ReminderNext]_allVars => [HeardOnMonday]_allVars
  BY HeardStep
<1>4. ReminderSpec => WaitingIsHeard
  <2>1. Calendar /\ [ReminderNext]_allVars => Calendar'
    BY <1>2, StepIsStep
  <2> QED
    BY <1>1, <1>3, <2>1, PTL DEF ReminderSpec, WaitingIsHeard
<1> DEFINE Inv == Calendar /\ steps \in Nat
<1>5. MCInit => Inv
  BY <1>1 DEF MCInit
<1>6. Inv /\ [MCNext]_<<allVars, watched>> => Inv'
  <2> SUFFICES ASSUME Inv, [MCNext]_<<allVars, watched>> PROVE Inv'
    OBVIOUS
  <2>1. [Next]_vars
    BY WatchedNext, StepIsStep DEF MCNext, allVars
  <2>2. (steps \in Nat)'
    BY <2>1, StepsCount
  <2> QED
    BY <1>2, <2>1, <2>2
<1>7. Inv /\ [MCNext]_<<allVars, watched>> => [watched => HeardOnMonday]_<<allVars, watched>>
  <2> SUFFICES ASSUME Inv, MCNext, watched PROVE HeardOnMonday
    OBVIOUS
  <2>1. ReminderNext
    BY WatchedNext DEF MCNext
  <2>2. CASE UNCHANGED allVars
    BY <2>2 DEF HeardOnMonday, allVars, vars
  <2>3. CASE ~UNCHANGED allVars
    BY <1>3, <2>1, <2>3
  <2> QED
    BY <2>2, <2>3
<1>8. MCSpec => WaitingIsHeardWatched
  <2> HIDE DEF Inv
  <2> QED
    BY <1>5, <1>6, <1>7, PTL DEF MCSpec, WaitingIsHeardWatched
<1> QED
  BY <1>4, <1>8

----------------------------------------------------------------------------
(* What is missing is asked for in time                                    *)

\* How long ago a reminder was due, in days.
SinceDue == (DayOfMonth - 1) % Interval

\* The silence began after the last day a reminder was due.
Quiet ==
  /\ quiet \in Nat
  /\ SubmissionDeadline # 0 =>
       quiet < Interval /\ (SinceDue # 0 => quiet < SinceDue)

\* On the days between, the count since the last due day goes on; each month starts
\* it anew.
LEMMA SinceDueNext ==
  ASSUME today \in Int, today' = today + 1
  PROVE  /\ SinceDue \in 0..Interval - 1
         /\ SinceDue' \in {0, SinceDue + 1}
<1>1. Interval \in Nat \ {0} /\ MonthLength \in Nat \ {0}
  BY ReminderAssumption, CalendarAssumption
<1> DEFINE a == (today - 1) % MonthLength
           b == today % MonthLength
<1>2. a \in 0..MonthLength - 1 /\ b \in {0, a + 1}
  <2>1. today - 1 \in Int /\ (today - 1) + 1 = today
    OBVIOUS
  <2>2. a \in 0..MonthLength - 1
    BY <1>1, <2>1, Remainder
  <2>3. a = MonthLength - 1 => b = 0
    BY <1>1, <2>1, RemainderNext
  <2>4. a # MonthLength - 1 => b = a + 1
    BY <1>1, <2>1, RemainderNext
  <2> QED
    BY <2>2, <2>3, <2>4
<1>3. SinceDue = a % Interval
  <2>1. DayOfMonth - 1 = a
    BY <1>2 DEF DayOfMonth
  <2> QED
    BY <2>1 DEF SinceDue
<1>4. SinceDue' = b % Interval
  <2>1. (today + 1) - 1 = today
    OBVIOUS
  <2>2. DayOfMonth' - 1 = b
    BY <1>2, <2>1 DEF DayOfMonth
  <2> QED
    BY <2>2 DEF SinceDue
<1> HIDE DEF a, b
<1>5. a % Interval \in 0..Interval - 1
  BY <1>1, <1>2, Remainder
<1>6. (a + 1) % Interval \in {0, (a % Interval) + 1}
  <2>1. a \in Int
    BY <1>2
  <2>2. a % Interval = Interval - 1 => (a + 1) % Interval = 0
    BY <1>1, <2>1, RemainderNext
  <2>3. a % Interval # Interval - 1 => (a + 1) % Interval = (a % Interval) + 1
    BY <1>1, <2>1, RemainderNext
  <2> QED
    BY <2>2, <2>3
<1>7. 0 % Interval = 0
  <2>1. 0 = Interval * (0 \div Interval) + (0 % Interval) /\ 0 \div Interval \in Int
        /\ 0 % Interval \in 0..Interval - 1
    BY <1>1, Remainder
  <2>2. Interval * 0 + 0 = Interval * (0 \div Interval) + (0 % Interval)
    BY <1>1, <2>1
  <2> QED
    BY <1>1, <2>1, <2>2, RemainderUnique
<1> QED
  BY <1>2, <1>3, <1>4, <1>5, <1>6, <1>7

\* On a due day the silence ends.
LEMMA DueIsAsked ==
  ASSUME Calendar, Midnight, up, AsksForWeeks, SubmissionDeadline # 0,
         MissingWeeks(PreviousMonth) # {}, SinceDue = 0
  PROVE  AskedToday
<1>1. MonthWeeksDue /\ up /\ hour = 8
  BY DEF Midnight, MonthWeeksDue, MonthReminderIsDueNow, SinceDue
<1>2. PICK kind \in {"submission_reminder", "month_weeks_reminder"} : Due(kind)
  <2>1. DayOfMonth \in Int
    <3>1. today - 1 \in Int
      BY DEF Calendar
    <3>2. (today - 1) % MonthLength \in 0..MonthLength - 1
      BY <3>1, CalendarAssumption, Remainder
    <3> QED
      BY <3>2 DEF DayOfMonth
  <2>2. SubmissionDeadline \in Int
    BY ReminderAssumption DEF SubmissionDeadline
  <2>3. DayOfMonth > SubmissionDeadline \/ DayOfMonth <= SubmissionDeadline
    BY <2>1, <2>2
  <2> QED
    BY <1>1, <2>3 DEF Due, MonthWeeksDue
<1>3. kind \in KindsOf("submission") /\ "submission" \in Loops
  BY DEF KindsOf, SubmissionKinds, Loops
<1>4. <<kind, <<today>>>> \in notified
  BY <1>1, <1>2, <1>3 DEF Midnight, LoopsAreDone, Key
<1> QED
  BY <1>4 DEF AskedToday

LEMMA QuietStep == Quiet /\ Calendar /\ [ReminderNext]_allVars => Quiet'
<1> SUFFICES ASSUME Quiet, Calendar, [ReminderNext]_allVars PROVE Quiet'
  OBVIOUS
<1>1. CASE UNCHANGED <<today, quiet>>
  BY <1>1 DEF Quiet, SinceDue, DayOfMonth, SubmissionDeadline
<1>2. CASE Midnight
  <2>1. today' = today + 1 /\ today \in Int
    BY <1>2 DEF Midnight, NextDay, Calendar
  <2>2. SinceDue \in 0..Interval - 1 /\ SinceDue' \in {0, SinceDue + 1}
    BY <2>1, SinceDueNext
  <2>3. Interval \in Nat \ {0}
    BY ReminderAssumption
  <2>4. \/ quiet' = 0
        \/ /\ quiet' = quiet + 1
           /\ up /\ AsksForWeeks /\ MissingWeeks(PreviousMonth) # {} /\ ~AskedToday
    BY <1>2 DEF Midnight
  <2>5. quiet \in Nat /\ quiet' \in Nat
    BY <2>4 DEF Quiet
  <2>6. ASSUME SubmissionDeadline # 0
        PROVE  quiet' < Interval /\ (SinceDue' # 0 => quiet' < SinceDue')
    <3>1. quiet < Interval /\ (SinceDue # 0 => quiet < SinceDue)
      BY <2>6 DEF Quiet
    <3>2. CASE quiet' = 0
      BY <2>2, <2>3, <3>2
    <3>3. CASE quiet' = quiet + 1 /\ SinceDue # 0
      BY <2>2, <2>3, <2>5, <3>1, <3>3
    <3>4. quiet' # 0 => SinceDue # 0
      BY <1>2, <2>4, <2>6, DueIsAsked
    <3> QED
      BY <2>4, <3>2, <3>3, <3>4
  <2>7. SubmissionDeadline' = SubmissionDeadline
    BY DEF SubmissionDeadline
  <2> QED
    BY <2>5, <2>6, <2>7 DEF Quiet
<1>3. ASSUME ~Midnight PROVE UNCHANGED <<today, quiet>>
  BY <1>3, ChangeToday
     DEF ReminderNext, QueueMail, Notify, DeleteAll, Stop, Start, NextHour, allVars, vars,
         reminderVars
<1> QED
  BY <1>1, <1>2, <1>3

\* While weeks of the finished month are missing and the process is up, fewer than
\* Interval days pass between two reminders about them.
THEOREM MissingIsAlwaysAsked == ReminderSpec => []MissingIsAsked
<1>1. ReminderInit => Calendar /\ Quiet
  <2>1. SUFFICES ASSUME ReminderInit PROVE Calendar /\ Quiet
    OBVIOUS
  <2>2. today = 1 /\ quiet = 0
    BY <2>1 DEF ReminderInit, Init
  <2>3. Calendar
    BY <2>2 DEF Calendar
  <2>4. Interval \in Nat \ {0} /\ SinceDue \in 0..Interval - 1
    <3>1. today - 1 \in Int
      BY <2>2
    <3>2. (today - 1) % MonthLength \in 0..MonthLength - 1
      BY <3>1, CalendarAssumption, Remainder
    <3>3. DayOfMonth - 1 \in Int
      BY <3>2 DEF DayOfMonth
    <3> QED
      BY <3>3, ReminderAssumption, Remainder DEF SinceDue
  <2>5. Quiet
    BY <2>2, <2>4 DEF Quiet
  <2> QED
    BY <2>3, <2>5
<1>2. Calendar /\ Quiet /\ [ReminderNext]_allVars => Calendar' /\ Quiet'
  BY StepIsStep, CalendarStep, QuietStep
<1>3. Quiet => MissingIsAsked
  BY DEF Quiet, MissingIsAsked
<1> QED
  BY <1>1, <1>2, <1>3, PTL DEF ReminderSpec

=============================================================================
