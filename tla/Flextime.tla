------------------------------ MODULE Flextime ------------------------------
(***************************************************************************)
(* The flextime account of one person.  Its balance is stored nowhere: it  *)
(* is added up from the approved weeks and the admin's bookings whenever   *)
(* somebody asks, by three pieces of code that start adding in different   *)
(* places (the ledger from any day, the monthly rows, the balance at a     *)
(* month's end), and the rule that protects the floor uses one of them.    *)
(*                                                                         *)
(* Weeks do not end where months do.  An entry is a day's work; drafts,    *)
(* submitted entries and open rejections are all "open".  The workflow     *)
(* behind them is in DayLedger and WeekWorkflow.                           *)
(***************************************************************************)
EXTENDS Integers, FiniteSetsExt

CONSTANTS
  FinalDay,     \* bound: days 1, 2, ... FinalDay
  WeekLength,
  MonthLength,
  YearMonths,
  WorkDays,     \* the days the contract works
  Holidays,
  DayMinutes,   \* the target of a working day
  EntryMinutes, \* what an entry credits, breaks deducted
  Bookable,     \* minutes of an admin's booking
  Floor,        \* the setting flextime_min_balance_min
  Starts,       \* contract starts
  MaxSteps      \* bound: steps other than the passing of days

Days == 1..FinalDay
WeekOf(d) == d \div WeekLength
Week(w) == {d \in Days : WeekOf(d) = w}
MonthOf(d) == (d - 1) \div MonthLength
FirstOf(m) == m * MonthLength + 1
LastOf(m) == (m + 1) * MonthLength
YearOf(m) == m \div YearMonths
Months == MonthOf(1)..MonthOf(FinalDay)

VARIABLES
  today, start,
  entries,  \* the work recorded for each day: "none", "open" or "approved"
  booked,   \* absences that are requested or approved
  adjusted, \* rows of flextime_adjustments; undoes is the row reversed, or 0
  steps

vars == <<today, start, entries, booked, adjusted, steps>>

SumOver(f(_), S) == MapThenSumSet(f, S)
Minutes(rows) == SumOver(LAMBDA r : r.minutes, rows)

Within(d, b) == b.from <= d /\ d <= b.to
Approved(kind, d) == \E b \in booked : b.kind = kind /\ b.status = "approved" /\ Within(d, b)

-----------------------------------------------------------------------------
(* The weeks that count. *)

\* One approved day carries its week; a week without any must have had
\* nothing to hand in.
AccountedFor(w) ==
  \/ \E d \in Week(w) : entries[d] = "approved"
  \/ \A d \in Week(w) :
       d \notin WorkDays \/ d < start \/ d \in Holidays \/ Approved("leave", d) \/ Approved("flextime", d)

\* Only weeks that are over, and none before a whole one is.
ApprovedWeeks ==
  IF WeekOf(today) * WeekLength - WeekLength < start THEN {}
  ELSE {w \in WeekOf(start)..(WeekOf(today) - 1) :
          AccountedFor(w) /\ \A d \in Week(w) : entries[d] # "open"}

Cutoff ==
  IF ApprovedWeeks = {} THEN start - 1 ELSE (Max(ApprovedWeeks) + 1) * WeekLength - 1

-----------------------------------------------------------------------------
(* Work against target, of the weeks that count. *)

Target(d) ==
  IF d < start \/ d \notin WorkDays \/ d \in Holidays \/ Approved("leave", d) THEN 0 ELSE DayMinutes

Actual(d) == IF d >= start /\ entries[d] = "approved" THEN EntryMinutes ELSE 0

RangeDiff(from, to) ==
  LET weeks == ApprovedWeeks
  IN SumOver(LAMBDA d : Actual(d) - Target(d), {d \in from..to : WeekOf(d) \in weeks})

-----------------------------------------------------------------------------
(* The admin's bookings, which no approval holds back. *)

EffectiveThrough == Max({today, start})

\* A row from before the contract counts on its first day.
Effective(r) == Max({r.day, start})

Through(d) == Minutes({r \in adjusted : Effective(r) <= d})
Between(from, to) == Minutes({r \in adjusted : from <= Effective(r) /\ Effective(r) <= to})
From(d) == Minutes({r \in adjusted : d <= Effective(r)})

OfMonth(m) == Minutes({r \in adjusted : Effective(r) <= EffectiveThrough /\ MonthOf(Effective(r)) = m})

-----------------------------------------------------------------------------
(* The monthly rows and the balance at the end of a month. *)

Contribution(m) == RangeDiff(FirstOf(m), Min({LastOf(m), Cutoff}))

Cumulative(m) == SumOver(LAMBDA k : Contribution(k) + OfMonth(k), MonthOf(start)..m)

\* The months of year y that have a row.
Rows(y) ==
  {m \in Months : YearOf(m) = y /\ MonthOf(start) <= m /\ m <= MonthOf(today)}

\* Mutant: the last row's bookings are not exchanged for the month's.
AtMonthEndStale(m) ==
  LET through == Through(Min({LastOf(m), EffectiveThrough}))
      rows == Rows(Min({YearOf(m), YearOf(MonthOf(Cutoff))}))
  IN CASE m < MonthOf(start) \/ Cutoff < start \/ rows = {} -> through
       [] OTHER -> Cumulative(Min({m, Max(rows)}))

AtMonthEnd(m) ==
  LET through == Through(Min({LastOf(m), EffectiveThrough}))
      rows == Rows(Min({YearOf(m), YearOf(MonthOf(Cutoff))}))
      last == Max(rows)
  IN CASE m < MonthOf(start) \/ Cutoff < start \/ rows = {} -> through
       [] m >= MonthOf(start) /\ Cutoff >= start /\ rows # {} /\ m > MonthOf(Cutoff) ->
            Cumulative(last) - Through(Min({LastOf(last), EffectiveThrough})) + through
       [] OTHER -> IF m \in rows THEN Cumulative(m) ELSE through

-----------------------------------------------------------------------------
(* The ledger from any day on. *)

Seed(from) ==
  IF from <= start THEN 0
  ELSE LET end == Min({from - 1, Cutoff})
           first == FirstOf(MonthOf(end))
           before == IF first <= start THEN 0 ELSE AtMonthEnd(MonthOf(first - 1))
           seedFrom == Max({first, start})
       IN before + RangeDiff(seedFrom, end) + Between(seedFrom, Min({from - 1, EffectiveThrough}))

\* The cumulative balance of day `to` in the ledger of from..to.
Ledger(from, to) ==
  Seed(from) + RangeDiff(from, to) + Between(from, Min({to, EffectiveThrough}))

AccountBalance == Ledger(EffectiveThrough, EffectiveThrough)

-----------------------------------------------------------------------------
(* The floor. *)

Cost(from, to) ==
  DayMinutes * Cardinality((Max({from, start})..to) \cap (WorkDays \ Holidays))

CommittedCost(others, from) ==
  SumOver(LAMBDA b : Cost(Max({b.from, from}), b.to), {b \in others : b.kind = "flextime"})

Fits(range, others) ==
  LET open == Cutoff + 1
      balance == IF Cutoff < start THEN 0 ELSE Ledger(Cutoff, Cutoff)
  IN balance + From(open) - CommittedCost(others, open) - Cost(Max({range.from, open}), range.to) >= Floor

Acceptable(range, others) ==
  /\ start <= range.from /\ range.from <= range.to
  /\ \E d \in WorkDays \ Holidays : Within(d, range)
  /\ \A b \in others : b.to < range.from \/ range.to < b.from
  /\ range.kind = "flextime" => Fits(range, others)

-----------------------------------------------------------------------------
Init ==
  /\ today = 1 /\ start \in Starts
  /\ entries = [d \in Days |-> "none"]
  /\ booked = {} /\ adjusted = {}
  /\ steps = 0

Step == steps < MaxSteps /\ steps' = steps + 1 /\ UNCHANGED today

NextDay == today < FinalDay /\ today' = today + 1 /\ UNCHANGED <<start, entries, booked, adjusted, steps>>

Enter(d) ==
  /\ Step
  /\ start <= d /\ d <= today /\ entries[d] = "none"
  /\ ~\E b \in booked : Within(d, b)
  /\ entries' = [entries EXCEPT ![d] = "open"]
  /\ UNCHANGED <<start, booked, adjusted>>

SetWeek(w, old, new) ==
  /\ Step
  /\ \E d \in Week(w) : entries[d] = old
  /\ entries' = [d \in Days |-> IF d \in Week(w) /\ entries[d] = old THEN new ELSE entries[d]]
  /\ UNCHANGED <<start, booked, adjusted>>

ApproveWeek(w) == SetWeek(w, "open", "approved")
Reopen(w) == SetWeek(w, "approved", "open")

Request ==
  /\ Step
  /\ \E from, to \in Days, kind \in {"leave", "flextime"} :
       LET range == [from |-> from, to |-> to, kind |-> kind, status |-> "requested"]
       IN Acceptable(range, booked) /\ booked' = booked \cup {range}
  /\ UNCHANGED <<start, entries, adjusted>>

Change(b) ==
  /\ Step
  /\ b.status = "requested"
  /\ \E from, to \in Days :
       LET range == [b EXCEPT !.from = from, !.to = to]
       IN Acceptable(range, booked \ {b}) /\ booked' = (booked \ {b}) \cup {range}
  /\ UNCHANGED <<start, entries, adjusted>>

ApproveAbsence(b) ==
  /\ Step
  /\ b.status = "requested"
  /\ \A d \in Days : Within(d, b) => entries[d] = "none"
  /\ b.kind = "flextime" => Fits(b, booked \ {b})
  /\ booked' = (booked \ {b}) \cup {[b EXCEPT !.status = "approved"]}
  /\ UNCHANGED <<start, entries, adjusted>>

\* Withdrawn, rejected, cancelled or revoked.
End(b) == Step /\ booked' = booked \ {b} /\ UNCHANGED <<start, entries, adjusted>>

Row(day, minutes, undoes) ==
  [id |-> Cardinality(adjusted) + 1, day |-> day, minutes |-> minutes, undoes |-> undoes]

CreateAdjustment ==
  /\ Step
  /\ \E day \in start..FinalDay, minutes \in Bookable \ {0} :
       adjusted' = adjusted \cup {Row(day, minutes, 0)}
  /\ UNCHANGED <<start, entries, booked>>

Reverse(r) ==
  /\ Step
  /\ r.undoes = 0 /\ \A s \in adjusted : s.undoes # r.id
  /\ adjusted' = adjusted \cup {Row(r.day, -r.minutes, r.id)}
  /\ UNCHANGED <<start, entries, booked>>

MoveStart ==
  /\ Step
  /\ start' \in Starts \ {start}
  /\ UNCHANGED <<entries, booked, adjusted>>

Next ==
  \/ NextDay
  \/ \E d \in Days : Enter(d)
  \/ \E w \in 0..WeekOf(FinalDay) : ApproveWeek(w) \/ Reopen(w)
  \/ Request
  \/ \E b \in booked : Change(b) \/ ApproveAbsence(b) \/ End(b)
  \/ CreateAdjustment
  \/ \E r \in adjusted : Reverse(r)
  \/ MoveStart

Spec == Init /\ [][Next]_vars

-----------------------------------------------------------------------------
(* Properties. *)

(* What every day up to d of an approved week and every booking in effect  *)
(* by then add up to.                                                      *)
Balance(d) == RangeDiff(start, d) + Through(Min({d, EffectiveThrough}))

(* The ledger gives one balance per day wherever it is opened, the account *)
(* shows it, and so does the month that ends on that day: they never       *)
(* disagree about a week that straddles months, a booking dated ahead, a   *)
(* contract yet to begin or a start moved past what was already booked.    *)
ViewsAgree ==
  /\ \A d \in start..FinalDay : Ledger(d, d) = Balance(d)
  /\ \A m \in MonthOf(start)..MonthOf(FinalDay) :
       LastOf(m) <= FinalDay => AtMonthEnd(m) = Balance(LastOf(m))
  /\ AccountBalance = Balance(EffectiveThrough)
=============================================================================
