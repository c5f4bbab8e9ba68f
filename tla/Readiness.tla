------------------------------ MODULE Readiness ------------------------------
(***************************************************************************)
(* Who has handed in what, as seen by one person's month.  Nothing of it   *)
(* is stored: the employee's tile, the count of weeks beside it, the       *)
(* approvers' card, the list a reminder names and the gate of the          *)
(* timesheet archive each judge the same rows, with their own idea of      *)
(* which weeks are due and which days of them belong to the month.         *)
(*                                                                         *)
(* Weeks do not end where months do, and a week is due from its Friday.    *)
(* The workflow behind the rows is in DayLedger and WeekWorkflow.          *)
(***************************************************************************)
EXTENDS Integers, FiniteSetsExt

CONSTANTS
  FinalDay,     \* bound: days 1, 2, ... FinalDay
  WeekLength,
  DueDay,       \* Friday: 4 days after Monday in the code
  MonthLength,
  WorkDays,     \* the days the contract works
  Holidays,
  Starts,       \* contract starts
  Roles,        \* of "employee", "zero hours" and "assistant"
  MaxSteps      \* bound: steps other than the passing of days

ASSUME CalendarAssumption ==
  /\ FinalDay \in Nat /\ WeekLength \in Nat \ {0} /\ MonthLength \in Nat \ {0}
  /\ DueDay \in 0..WeekLength - 1 /\ Starts \subseteq Int

Days == 1..FinalDay
Monday(d) == d - (d % WeekLength)
Sunday(d) == Monday(d) + WeekLength - 1
Mondays == {Monday(d) : d \in Days}
Span(from, to) == Days \cap (from..to)
Week(w) == Span(w, Sunday(w))
FirstOf(m) == m * MonthLength + 1
LastOf(m) == (m + 1) * MonthLength
MonthDays(m) == Span(FirstOf(m), LastOf(m))
MonthOf(d) == (d - 1) \div MonthLength
Months == MonthOf(1)..MonthOf(FinalDay)

VARIABLES
  today, start, role,
  active,    \* not archived
  entries,   \* per day, what its entries are: "draft", "submitted", "approved" or
             \* "rejected", as long as no correction has closed the rejection
  absences,  \* that are requested, approved or about to be cancelled
  reopens,   \* weeks somebody asked to reopen
  steps

rows == <<start, role, active, entries, absences, reopens>>
vars == <<today, rows, steps>>

Within(d, a) == a.from <= d /\ d <= a.to
Touches(a, days) == \E d \in days : Within(d, a)
Covered(S) == {d \in Days : \E a \in S : Within(d, a)}

Requested == {a \in absences : a.status = "requested"}
Finalized == absences \ Requested
HandedIn(d) == entries[d] \cap {"submitted", "approved"} # {}
Incomplete(d) == entries[d] \cap {"draft", "rejected"} # {}
Unresolved(d) == entries[d] \ {"approved"} # {}

HasObligation == role = "employee"

-----------------------------------------------------------------------------
(* Which weeks, and which of their days. *)

WeeksToJudge(from, to) == {w \in Mondays : Monday(from) <= w /\ w <= Monday(to) /\ w <= today}

JudgedEnd(to) == IF to < today THEN to ELSE Min({to, Sunday(today)})

DueThrough(to) ==
  Min({to, IF today >= Monday(today) + DueDay THEN Sunday(today) ELSE Monday(today) - 1})

(* One day handed in carries the week; without any, nothing may have been  *)
(* due.  Only the days of judged count.                                    *)
WeekSubmitted(w, absent, judged) ==
  LET days == Week(w) \cap judged
  IN /\ ~\E d \in days : d >= start /\ Incomplete(d)
     /\ \/ \E d \in days : HandedIn(d)
        \/ \A d \in days : d \notin WorkDays \/ d < start \/ d \in Holidays \/ d \in absent

AllSubmitted(weeks, absent, judged) == \A w \in weeks : WeekSubmitted(w, absent, judged)

-----------------------------------------------------------------------------
(* The employee's tile and the team report's column. *)

\* Mutant: the running week counts from its Monday.
MonthSubmittedFromMonday(m) ==
  LET to == JudgedEnd(LastOf(m))
  IN ~HasObligation \/ to < FirstOf(m)
     \/ AllSubmitted(WeeksToJudge(FirstOf(m), to), Covered(absences), Span(FirstOf(m), to))

MonthSubmitted(m) ==
  LET to == DueThrough(LastOf(m))
  IN ~HasObligation \/ to < FirstOf(m)
     \/ AllSubmitted(WeeksToJudge(FirstOf(m), to), Covered(absences), Span(FirstOf(m), to))

MonthApproved(m) ==
  ~HasObligation \/ (MonthSubmitted(m) /\ ~\E d \in MonthDays(m) : "submitted" \in entries[d])

\* "x of y weeks".
CountedWeeks(m) ==
  {w \in WeeksToJudge(FirstOf(m), LastOf(m)) : Sunday(w) >= start /\ today >= w + DueDay}
CountedSubmitted(m) ==
  {w \in CountedWeeks(m) : WeekSubmitted(w, Covered(absences), MonthDays(m))}

-----------------------------------------------------------------------------
(* What the reminders name: the weeks missing from a finished month, and   *)
(* all weeks gone by that are not handed in as a whole.                    *)

MissingWeeks(m) ==
  {w \in WeeksToJudge(FirstOf(m), LastOf(m)) :
     /\ Sunday(w) > LastOf(m) => today >= w + DueDay
     /\ ~WeekSubmitted(w, Covered(absences), MonthDays(m))}

UnsubmittedWeeks ==
  {w \in Mondays : /\ Monday(start) <= w /\ Sunday(w) < today
                   /\ ~WeekSubmitted(w, Covered(absences), Days)}

-----------------------------------------------------------------------------
(* The approvers' card. *)

AwaitsDecision(m) ==
  \/ \E d \in MonthDays(m) : d >= start /\ "submitted" \in entries[d]
  \/ \E a \in absences : a.status # "approved" /\ a.from <= LastOf(m) /\ a.to >= Max({FirstOf(m), start})
  \/ \E w \in reopens : w <= LastOf(m) /\ Sunday(w) >= Max({FirstOf(m), start})

OnCard(m) ==
  /\ active /\ start <= Min({LastOf(m), today})
  /\ role = "assistant" =>
       AwaitsDecision(m) \/ \E d \in MonthDays(m) : entries[d] # {}

Owing(m) ==
  \/ \E d \in Span(FirstOf(m), DueThrough(LastOf(m))) : d >= start /\ Incomplete(d)
  \/ ~MonthSubmitted(m)

Card(m) ==
  CASE Owing(m) -> "red"
    [] ~Owing(m) /\ AwaitsDecision(m) -> "amber"
    [] OTHER -> "green"

-----------------------------------------------------------------------------
(* The gate of the timesheet archive. *)

PreStartContent(m) ==
  /\ start > FirstOf(m)
  /\ \/ \E d \in MonthDays(m) : d < start /\ entries[d] \ {"rejected"} # {}
     \/ \E a \in Finalized : a.from < start /\ Touches(a, MonthDays(m))

ReachesOutside(a, m) == a.from < FirstOf(m) \/ a.to > LastOf(m)

\* Mutant: the archive waits for due weeks only, like the tile.
WeeksReadyWhenDue(m) ==
  LET to == DueThrough(LastOf(m))
  IN ~HasObligation \/ AllSubmitted(WeeksToJudge(FirstOf(m), to), Covered(absences), Span(FirstOf(m), to))

\* An undecided request holds the month back before it could excuse a day in it.
WeeksReady(m) ==
  LET absent == Covered(Finalized \cup {a \in absences : ReachesOutside(a, m)})
      weeks == WeeksToJudge(FirstOf(m), LastOf(m))
  IN \/ weeks = {} \/ ~HasObligation
     \/ /\ ~\E a \in Requested : Touches(a, Span(FirstOf(m), JudgedEnd(LastOf(m))))
        /\ AllSubmitted(weeks, absent, MonthDays(m))

Settled(m) == ~\E d \in Span(FirstOf(m), JudgedEnd(LastOf(m))) : Unresolved(d)

ExportReady(m) ==
  /\ ~PreStartContent(m)
  /\ \/ JudgedEnd(LastOf(m)) < FirstOf(m)
     \/ ~active /\ Settled(m)
     \/ /\ active
        /\ ~\E a \in Requested : Touches(a, Span(FirstOf(m), JudgedEnd(LastOf(m))))
        /\ WeeksReady(m) /\ Settled(m)

-----------------------------------------------------------------------------
Init ==
  /\ today = 1 /\ start \in Starts /\ role \in Roles /\ active = TRUE
  /\ entries = [d \in Days |-> {}]
  /\ absences = {} /\ reopens = {} /\ steps = 0

Step == steps < MaxSteps /\ steps' = steps + 1 /\ UNCHANGED <<today, role>>

NextDay == today < FinalDay /\ today' = today + 1 /\ UNCHANGED <<rows, steps>>

Enter(d) ==
  /\ Step /\ active
  /\ start <= d /\ d <= today /\ d \notin Covered(absences)
  /\ entries[d] \subseteq {"rejected"}
  /\ entries' = [entries EXCEPT ![d] = @ \cup {"draft"}]
  /\ UNCHANGED <<start, active, absences, reopens>>

Discard(d) ==
  /\ Step /\ active
  /\ "draft" \in entries[d]
  /\ entries' = [entries EXCEPT ![d] = @ \ {"draft"}]
  /\ UNCHANGED <<start, active, absences, reopens>>

\* The entries of old on days of w become new, and nothing of gone stays beside them.
Becomes(w, old, new, gone) ==
  /\ \E d \in Week(w) : entries[d] \cap old # {}
  /\ entries' = [d \in Days |-> IF d \in Week(w) /\ entries[d] \cap old # {}
                                THEN (entries[d] \ (old \cup gone)) \cup {new} ELSE entries[d]]

Submit(w) ==
  /\ Step /\ active
  /\ Becomes(w, {"draft"}, "submitted", {})
  /\ UNCHANGED <<start, active, absences, reopens>>

\* An approved correction closes the rejection it overlaps.
Approve(w) ==
  /\ Step /\ active
  /\ Becomes(w, {"submitted"}, "approved", {"rejected"})
  /\ UNCHANGED <<start, active, absences, reopens>>

Reject(w) ==
  /\ Step /\ active
  /\ Becomes(w, {"submitted"}, "rejected", {})
  /\ UNCHANGED <<start, active, absences, reopens>>

AskToReopen(w) ==
  /\ Step /\ active
  /\ w \notin reopens /\ \E d \in Week(w) : entries[d] \ {"draft"} # {}
  /\ reopens' = reopens \cup {w}
  /\ UNCHANGED <<start, active, entries, absences>>

Reopen(w) ==
  /\ Step /\ active
  /\ w \in reopens /\ reopens' = reopens \ {w}
  /\ Becomes(w, {"submitted", "approved", "rejected"}, "draft", {})
  /\ UNCHANGED <<start, active, absences>>

Request(from, to) ==
  /\ Step /\ active
  /\ start <= from /\ from <= to
  /\ \E d \in WorkDays \ Holidays : from <= d /\ d <= to
  /\ \A a \in absences : a.to < from \/ to < a.from
  /\ absences' = absences \cup {[from |-> from, to |-> to, status |-> "requested"]}
  /\ UNCHANGED <<start, active, entries, reopens>>

\* Approved, asked to be cancelled, or kept after all.
Advance(a, old, new) ==
  /\ Step /\ active
  /\ a.status = old
  /\ old = "requested" => \A d \in Days : Within(d, a) => entries[d] \subseteq {"rejected"}
  /\ absences' = (absences \ {a}) \cup {[a EXCEPT !.status = new]}
  /\ UNCHANGED <<start, active, entries, reopens>>

\* Withdrawn, rejected, cancelled or revoked.
End(a) ==
  /\ Step /\ active
  /\ absences' = absences \ {a}
  /\ UNCHANGED <<start, active, entries, reopens>>

MoveStart ==
  /\ Step
  /\ start' \in Starts \ {start}
  /\ UNCHANGED <<active, entries, absences, reopens>>

\* What waited for a decision is closed with it.
Archive ==
  /\ Step /\ active
  /\ active' = FALSE
  /\ entries' = [d \in Days |-> IF "submitted" \in entries[d]
                                THEN (entries[d] \ {"submitted"}) \cup {"draft"} ELSE entries[d]]
  /\ absences' = {[a EXCEPT !.status = "approved"] : a \in Finalized}
  /\ reopens' = {}
  /\ UNCHANGED start

Change ==
  \/ \E d \in Days : Enter(d) \/ Discard(d)
  \/ \E w \in Mondays : \/ Submit(w) \/ Approve(w) \/ Reject(w)
                        \/ AskToReopen(w) \/ Reopen(w)
  \/ \E from, to \in Days : Request(from, to)
  \/ \E a \in absences : \/ Advance(a, "requested", "approved")
                         \/ Advance(a, "approved", "cancellation_pending")
                         \/ Advance(a, "cancellation_pending", "approved")
                         \/ End(a)
  \/ MoveStart \/ Archive

Next == NextDay \/ Change

Spec == Init /\ [][Next]_vars

-----------------------------------------------------------------------------
(* Properties. *)

Started(m) == active /\ FirstOf(m) <= today

(* Every view gives the same verdict about a month: the tile, its count of  *)
(* weeks, the card and, once the month is over, the reminder's list; what   *)
(* the card calls done is approved; a month goes into the archive only when *)
(* all of them call it submitted and approved; and nobody is reminded of a  *)
(* week that no tile calls missing.  Days from before the contract, which a *)
(* moved start hides, are left out: the card and the tile differ there.     *)
VerdictsAgree ==
  \A m \in Months : Started(m) =>
    /\ HasObligation =>
         /\ MonthSubmitted(m) <=> CountedSubmitted(m) = CountedWeeks(m)
         /\ LastOf(m) < today => (MonthSubmitted(m) <=> MissingWeeks(m) = {})
    /\ OnCard(m) =>
         /\ HasObligation => (Card(m) = "red" <=> ~MonthSubmitted(m))
         /\ Card(m) = "green" /\ ~PreStartContent(m) => MonthApproved(m)
    /\ ExportReady(m) => MonthSubmitted(m) /\ MonthApproved(m) /\ Card(m) # "red"
    /\ HasObligation /\ UnsubmittedWeeks # {} => \E k \in Months : ~MonthSubmitted(k)

(* A finished month that may go into the archive never stops being ready    *)
(* because time passes: only a step somebody takes can open it again.       *)
ReadyStaysReady ==
  [][today' # today =>
       \A m \in Months : LastOf(m) < today /\ ExportReady(m) => ExportReady(m)']_vars
=============================================================================
