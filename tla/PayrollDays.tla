---------------------------- MODULE PayrollDays ----------------------------
(***************************************************************************)
(* The absence days of the payroll report (services/payroll_report.rs): one *)
(* employee's sick notes and unpaid leave over a few months, the report of  *)
(* each month, and the days of continued pay it claims.  Up to a day the    *)
(* contract knows how many days a week are worked and not which, so a week  *)
(* holds at most Cap days; from PatternFrom on the weekdays are recorded.   *)
(* A month's report may wait, held back by somebody's open month, while a   *)
(* later one goes out.  Building a report is one step here: what changes    *)
(* between its steps is in PayrollLedger.                                   *)
(***************************************************************************)
EXTENDS Integers, Sequences, FiniteSets, FiniteSetsExt, SequencesExt

CONSTANTS
  FinalDay, WeekLength, MonthLength,
  Holidays,       \* days that are public holidays
  ContractStart,  \* users.start_date
  PatternFrom,    \* the first day of the recorded weekdays
  Pattern,        \* the working days from then on
  Cap,            \* workdays_per_week before it
  Categories, Tracked,  \* payroll-relevant categories; those with a certificate
  Threshold,      \* medical_certificate_threshold_days
  MaxAbsences     \* bound on the absences ever filed

VARIABLES
  absences,  \* id -> the absence, in the order they were filed
  sent,      \* the months whose report has gone out, in that order
  charged    \* <<month, day>>: the days each report claimed

vars == <<absences, sent, charged>>

Days == 1..FinalDay
WeekOf(d) == (d - 1) \div WeekLength + 1
MonthOf(d) == (d - 1) \div MonthLength + 1
Months == 1..MonthOf(FinalDay)
FirstDay(p) == (p - 1) * MonthLength + 1
LastDay(p) == Min({p * MonthLength, FinalDay})

\* The last day of a week is the weekend.
Weekend(d) == d % WeekLength = 0

Approved == {a \in DOMAIN absences : absences[a].status = "approved"}
SpanOf(a) == absences[a].from .. absences[a].to

-----------------------------------------------------------------------------
(* Which days the contract works, and how many of them a week may cost. *)

Recorded(d) == d >= PatternFrom
Covers(d) == IF Recorded(d) THEN d \in Pattern ELSE ~Weekend(d)
Capped(d) == ~Recorded(d)
Counts(d) == d >= ContractStart /\ Covers(d) /\ d \notin Holidays

\* Of the days the rows cover, each recorded working day, and of a week without
\* a pattern the first Cap days.
LeaveDays(rows) ==
  LET away == {d \in Days : Counts(d) /\ \E r \in rows : d \in r.from .. r.to}
      before(d) == {e \in away : e < d /\ Capped(e) /\ WeekOf(e) = WeekOf(d)}
  IN {d \in away : Capped(d) => Cardinality(before(d)) < Cap}

\* The rows of one person share one quota, each day being that of its row.
DaysOf(row, rows) == Cardinality(LeaveDays(rows) \cap (row.from .. row.to))

-----------------------------------------------------------------------------
(* The rows of a month's report: the month's own, and what earlier months   *)
(* that were reported before it was filed never showed.                     *)

RowOf(a, from, to) == [id |-> a, cat |-> absences[a].cat, from |-> from, to |-> to]

RegularRows(p) ==
  {r \in {RowOf(a, Max({absences[a].from, FirstDay(p), ContractStart}),
                   Min({absences[a].to, LastDay(p)})) : a \in Approved} :
     r.from <= r.to}

\* A month not reported yet prints its own days.
Owed(p) == {q \in Months : q < p} \ ToSet(sent)

Unreported(p) ==
  {a \in Approved : absences[a].mark = 0 /\ absences[a].from < FirstDay(p)}

ReportableSegments(a, p) ==
  LET open == {d \in SpanOf(a) : /\ ContractStart <= d /\ d < FirstDay(p)
                                 /\ MonthOf(d) \notin Owed(p)}
  IN {s \in open \X open : /\ s[1] <= s[2] /\ s[1] .. s[2] \subseteq open
                           /\ s[1] - 1 \notin open /\ s[2] + 1 \notin open}

\* What the catch-up section covers of them.
LateRows(p) ==
  UNION {{RowOf(a, s[1], s[2]) : s \in ReportableSegments(a, p)} : a \in Unreported(p)}

\* Absences an earlier report declared something of, whatever became of them.
Earlier(p) ==
  {a \in DOMAIN absences : absences[a].mark # 0 /\ absences[a].from < FirstDay(p)}

\* Mutant: only absences that had ended before the month count as reported.
NeedsReviewIfOver(p, rows) ==
  \E r \in rows : \E d \in r.from .. r.to :
    /\ Capped(d) /\ Covers(d) /\ d \notin Holidays
    /\ \E a \in Earlier(p) :
         /\ absences[a].to < FirstDay(p)
         /\ WeekOf(absences[a].from) <= WeekOf(d)
         /\ WeekOf(d) <= WeekOf(absences[a].to)

\* A row in a week an earlier report may have spent leaves all rows to a human.
NeedsReview(p, rows) ==
  \E r \in rows : \E d \in r.from .. r.to :
    /\ Capped(d) /\ Covers(d) /\ d \notin Holidays
    /\ \E a \in Earlier(p) :
         /\ WeekOf(absences[a].from) <= WeekOf(d)
         /\ WeekOf(d) <= WeekOf(Min({absences[a].to, FirstDay(p) - 1}))

Claimed(p) ==
  LET rows == RegularRows(p) \cup LateRows(p)
  IN IF NeedsReview(p, rows) THEN {} ELSE LeaveDays(rows)

\* Every absence with a row is marked, its own days being none or not.
Declared(p) == {r.id : r \in RegularRows(p) \cup LateRows(p)}

-----------------------------------------------------------------------------
(* Certificates: an illness goes on over weekends and holidays. *)

Bridgeable(d) == Weekend(d) \/ d \in Holidays

\* Mutant: only the next day continues an illness.
BridgesNextDay(end, start) == start <= end + 1

Bridges(end, start) == start <= end \/ \A d \in end + 1 .. start - 1 : Bridgeable(d)

\* Rows in the order they begin, cut where one does not go on from those before
\* it: what the loops that build the chains and merge the lines come to.
Firsts(rows) ==
  {r \in rows : \A q \in rows : q.from < r.from => ~Bridges(q.to, r.from)}

RunOf(first, rows) ==
  {r \in rows : /\ first.from <= r.from
                /\ \A f \in Firsts(rows) : f.from <= r.from => f.from <= first.from}

Runs(rows) == {RunOf(first, rows) : first \in Firsts(rows)}

Begin(run) == Min({r.from : r \in run})
End(run) == Max({r.to : r \in run})

\* The illnesses, over all categories with certificates.
Sick == {a \in Approved : absences[a].cat \in Tracked}
Chains == Runs({RowOf(a, absences[a].from, absences[a].to) : a \in Sick})

ChainSpan(chain) == End(chain) - Begin(chain) + 1

Required(a) ==
  \E chain \in Chains : ChainSpan(chain) >= Threshold /\ \E r \in chain : r.id = a

Line(r, days) ==
  [cat |-> r.cat, from |-> r.from, to |-> r.to, days |-> days,
   required |-> r.cat \in Tracked /\ Required(r.id)]

\* One line for each illness of a category: a line that continues the one before
\* it is folded into it.
Merged(cat, run) ==
  [cat |-> cat, from |-> Begin(run), to |-> End(run),
   days |-> MapThenSumSet(LAMBDA r : r.days, run),
   required |-> \E r \in run : r.required]

MergedRows(lines) ==
  {r \in lines : r.cat \notin Tracked}
    \cup UNION {{Merged(cat, run) : run \in Runs({r \in lines : r.cat = cat})} : cat \in Tracked}

\* The sections of the document: a row without a day has no effect on the pay.
Sections(p) ==
  LET rows == RegularRows(p) \cup LateRows(p)
      printed(part) ==
        MergedRows({Line(r, DaysOf(r, rows)) : r \in {q \in part : DaysOf(q, rows) > 0}})
  IN IF NeedsReview(p, rows)
       THEN [regular |-> {}, late |-> {}, review |-> MergedRows({Line(r, 0) : r \in rows})]
       ELSE [regular |-> printed(RegularRows(p)), late |-> printed(LateRows(p)),
             review |-> {}]

-----------------------------------------------------------------------------
(* The employee's absences change and reports go out. *)

\* A sick note, or unpaid leave with its approval.
File(from, to, cat) ==
  /\ Len(absences) < MaxAbsences
  /\ \A a \in Approved : to < absences[a].from \/ absences[a].to < from
  /\ absences' = Append(absences, [from |-> from, to |-> to, cat |-> cat,
                                   status |-> "approved", mark |-> 0])
  /\ UNCHANGED <<sent, charged>>

\* A mark stays on a cancelled absence.
Cancel(a) ==
  /\ a \in Approved
  /\ absences' = [absences EXCEPT ![a].status = "cancelled"]
  /\ UNCHANGED <<sent, charged>>

Send(p) ==
  /\ p \notin ToSet(sent)
  /\ sent' = Append(sent, p)
  /\ charged' = charged \cup ({p} \X Claimed(p))
  /\ LET declared == Declared(p)
     IN absences' = [a \in DOMAIN absences |->
          IF a \in declared /\ absences[a].mark = 0
            THEN [absences[a] EXCEPT !.mark = p] ELSE absences[a]]

Init == absences = <<>> /\ sent = <<>> /\ charged = {}

Next ==
  \/ \E from, to \in Days, cat \in Categories : from <= to /\ File(from, to, cat)
  \/ \E a \in DOMAIN absences : Cancel(a)
  \/ \E p \in Months : Send(p)

Spec == Init /\ [][Next]_vars

-----------------------------------------------------------------------------
\* A week over the end of a month, whose later report went out first: that the
\* earlier one asks only for absences that began before its own month.
SentBackwards(w) ==
  \E i, j \in DOMAIN sent :
    /\ i < j /\ sent[j] < sent[i]
    /\ \E d, e \in Days : /\ WeekOf(d) = w /\ MonthOf(d) = sent[i]
                          /\ WeekOf(e) = w /\ MonthOf(e) = sent[j]

\* Reported absences over d that were cancelled afterwards: a report has told of it.
TakenBack(d) ==
  {a \in DOMAIN absences : /\ absences[a].status = "cancelled" /\ absences[a].mark # 0
                           /\ d \in SpanOf(a)}

\* All reports together claim a day once, and once more for each absence over it
\* that was reported and cancelled; of a week without recorded weekdays no more
\* days than the contract works, however its absences were split, filed late or
\* cancelled, and no day of it twice (finish_absence_rows).  A week over two
\* months reported in the wrong order is excepted.
PaidOnce ==
  /\ \A d \in Days : Cardinality({c \in charged : c[2] = d}) <= 1 + Cardinality(TakenBack(d))
  /\ \A c1, c2 \in charged : c1[2] = c2[2] /\ Capped(c1[2]) => c1 = c2
  /\ \A w \in {WeekOf(d) : d \in Days} :
       \/ Cardinality({c \in charged : WeekOf(c[2]) = w /\ Capped(c[2])}) <= Cap
       \/ SentBackwards(w)

\* The days of one illness, found day by day.
IllnessOf(d) ==
  LET sick == UNION {SpanOf(a) : a \in Sick}
      goesOn(x, y) == \A z \in x .. y : z \in sick \/ Weekend(z) \/ z \in Holidays
  IN {e \in sick : goesOn(d, e) /\ goesOn(e, d)}

\* Every row a report prints for a category with certificates is a part of one
\* illness, and asks for the certificate exactly if that illness has reached the
\* threshold (merge_continuous_illness_rows, required_map_for_user).
JudgesIllness ==
  \A p \in Months : sent' = Append(sent, p) =>
       LET doc == Sections(p)
       IN \A row \in doc.regular \cup doc.late \cup doc.review :
            row.cat \in Tracked =>
              LET ill == IllnessOf(row.from)
              IN /\ row.to \in ill
                 /\ row.required = (Max(ill) - Min(ill) + 1 >= Threshold)
=============================================================================
