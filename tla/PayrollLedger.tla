---------------------------- MODULE PayrollLedger ----------------------------
(***************************************************************************)
(* The monthly payroll report: its queue, the nightly run that builds,     *)
(* mails and accounts for one document per month, and the ledger of what   *)
(* was declared, from which later reports carry corrections.               *)
(*                                                                         *)
(* One person.  An assistant's hours are printed and no absences, an       *)
(* employee's absences and no hours: the settings as delivered.  Whether   *)
(* somebody else has something to report is a constant of the behaviour.   *)
(* A row's version (updated_at, xmin) is modelled by what it is read for:  *)
(* a write that changes it takes the row out of the running report's       *)
(* snapshot.                                                               *)
(***************************************************************************)
EXTENDS Integers, FiniteSets, FiniteSetsExt

CONSTANTS
  Days,       \* the days on which work is booked and absences fall
  MonthOf,    \* the month of each day
  LastMonth,  \* bound: the clock stops in the month after it
  Entries,    \* ids of time entries
  Absences,   \* ids of absences
  Minutes,    \* lengths of shifts
  BreakAfter, \* work beyond this costs a minute of automatic break
  MaxWrites,  \* bound: writes to entries and absences
  MaxFaults   \* bound: crashes, failing mails, failing statements

ASSUME PayrollAssumption ==
  /\ LastMonth \in Nat \ {0} /\ Days \subseteq Nat
  /\ IsFiniteSet(Days) /\ IsFiniteSet(Entries)
  /\ MonthOf \in [Days -> 1..LastMonth]
  /\ Minutes \subseteq Nat \ {0} /\ BreakAfter \in Nat
  /\ MaxWrites \in Nat /\ MaxFaults \in Nat

Months == 1..LastMonth

NoMark == 0
History == -1        \* '0000-00'
Marks == Months \cup {NoMark, History}

NoRow == [status |-> "none"]
Entry == [status : {"open", "approved"}, day : Days, min : Minutes, mark : Marks]
AbsenceStatus == {"requested", "approved", "cancellation_pending", "cancelled", "rejected"}
Absence == [status : AbsenceStatus, from : Days, to : Days, mark : Marks, review : BOOLEAN]

VARIABLES
  kind,      \* "assistant" or "employee"
  others,    \* whether the report always has somebody else in it
  month,     \* the running month
  reached,   \* whether its send day has come
  entries,   \* time_entries
  absences,  \* absences in payroll-relevant categories
  first,     \* payroll_report_first_period, 0 if unset
  marker,    \* payroll_report_queue_period, 0 if unset
  queue,     \* payroll_report_queue
  delivered, \* payroll_reported_periods
  ledger,    \* payroll_reported_days: [period, day, min]
  run,       \* the nightly run
  doc,       \* the document it is sending
  mailed,    \* history: the last document of each month the server accepted
  unsent,    \* history: months settled without a document
  used       \* how much of each bound is used up

vars == <<kind, others, month, reached, entries, absences, first, marker, queue, delivered,
          ledger, run, doc, mailed, unsent, used>>

clock == <<month, reached>>
books == <<first, marker, queue, delivered, ledger, mailed, unsent>>
setup == <<kind, others>>
work == <<run, doc>>

EmptyDoc == [minutes |-> {}, late |-> {}, shown |-> {}, withdrawn |-> {}]
NoDoc == [none |-> TRUE]

Idle == [at |-> "idle", target |-> 0, due |-> FALSE, left |-> {}, snap |-> {}, owed |-> {},
         member |-> FALSE, stale |-> FALSE]

Period == Min(run.left)
Held == run.at \in {"send", "record"}

Live(rows) == {id \in DOMAIN rows : rows[id].status # "none"}
Write == used.writes < MaxWrites /\ used' = [used EXCEPT !.writes = @ + 1]
Fault == used.faults < MaxFaults /\ used' = [used EXCEPT !.faults = @ + 1]

----------------------------------------------------------------------------
(* What a day comes to, and what a report would still have to declare      *)

EntriesOn(d) == {e \in Live(entries) : entries[e].day = d}
WorkOn(d) == {e \in EntriesOn(d) : entries[e].status = "approved"}
MarkedOn(d) == {e \in WorkOn(d) : entries[e].mark # NoMark}

\* The minutes of pairs <<id, minutes>>.
Total(figures) == MapThenSumSet(LAMBDA f : f[2], figures)

\* compute_day_auto_break over the whole day, never below nothing.
Net(ids) ==
  LET raw == Total({<<e, entries[e].min>> : e \in ids})
  IN  IF raw > BreakAfter THEN raw - 1 ELSE raw

DeclaredRows(d) == {row \in ledger : row.day = d}
Declared(d) == Total({<<row.period, row.min>> : row \in DeclaredRows(d)})

\* carried_day_entries_before: a day with rows in the ledger or unmarked approved
\* work, and nothing on it undecided.
Blocked(d) == \E e \in EntriesOn(d) : entries[e].status = "open"

Wanted(d) ==
  /\ DeclaredRows(d) # {} \/ WorkOn(d) \ MarkedOn(d) # {}
  /\ ~Blocked(d)

\* late_entry_deltas
LedgerBacked(d) ==
  DeclaredRows(d) # {} \/ (MonthOf[d] \in delivered /\ MarkedOn(d) = {})
DeltaPricedAlone(d) ==  \* mutant: the break of the new shift alone
  IF DeclaredRows(d) # {} THEN Net(WorkOn(d) \ MarkedOn(d)) ELSE Net(WorkOn(d))
Delta(d) ==
  IF LedgerBacked(d) THEN Net(WorkOn(d)) - Declared(d)
                     ELSE Net(WorkOn(d)) - Net(MarkedOn(d))

\* carry_over_boundary: older days, unless their own report is still to come.
LateDays(p, owed) ==
  {d \in Days : MonthOf[d] < p /\ MonthOf[d] \notin owed /\ Wanted(d) /\ Delta(d) # 0}

----------------------------------------------------------------------------
(* Time entries, each write under the owner's lock                         *)

\* A write that changes updated_at.
Touch(e) == run' = [run EXCEPT !.snap = @ \ {e}]

CreateEntry(e, d, n) ==
  /\ ~Held /\ kind = "assistant" /\ entries[e].status = "none" /\ MonthOf[d] <= month /\ Write
  /\ entries' = [entries EXCEPT ![e] =
       [status |-> "open", day |-> d, min |-> n, mark |-> NoMark]]
  /\ UNCHANGED <<setup, clock, absences, books, work>>

\* Submission and approval leave updated_at alone.
ApproveEntry(e) ==
  /\ ~Held /\ entries[e].status = "open" /\ Write
  /\ entries' = [entries EXCEPT ![e].status = "approved"]
  /\ UNCHANGED <<setup, clock, absences, books, work>>

ReopenEntry(e) ==
  /\ ~Held /\ entries[e].status = "approved" /\ Write
  /\ entries' = [entries EXCEPT ![e].status = "open"]
  /\ Touch(e)
  /\ UNCHANGED <<setup, clock, absences, books, doc>>

\* update_checked: the employee's draft, or an admin's correction of approved work.
MarkAfter(e, d) ==
  IF DeclaredRows(entries[e].day) = {} /\ MonthOf[d] = MonthOf[entries[e].day]
  THEN entries[e].mark ELSE NoMark

UpdateEntry(e, d, n) ==
  /\ ~Held /\ entries[e].status # "none" /\ MonthOf[d] <= month /\ Write
  /\ <<d, n>> # <<entries[e].day, entries[e].min>>
  /\ entries' = [entries EXCEPT ![e].day = d, ![e].min = n, ![e].mark = MarkAfter(e, d)]
  /\ Touch(e)
  /\ UNCHANGED <<setup, clock, absences, books, doc>>

DeleteEntry(e) ==
  /\ ~Held /\ entries[e].status = "open" /\ Write
  /\ entries' = [entries EXCEPT ![e] = NoRow]
  /\ Touch(e)
  /\ UNCHANGED <<setup, clock, absences, books, doc>>

----------------------------------------------------------------------------
(* Absences, under the same lock except for archiving                      *)

DaysOf(a) == {d \in Days : absences[a].from <= d /\ d <= absences[a].to}
Counts(a) == absences[a].status \in {"approved", "cancellation_pending"}

SetAbsence(a, status) == absences' = [absences EXCEPT ![a].status = status]

CreateAbsence(a, from, to, status) ==
  /\ ~Held /\ kind = "employee" /\ absences[a].status = "none" /\ from <= to /\ Write
  /\ status \in {"requested", "approved"}
  /\ status = "approved" => MonthOf[from] <= month
  /\ absences' = [absences EXCEPT ![a] =
       [status |-> status, from |-> from, to |-> to, mark |-> NoMark, review |-> FALSE]]
  /\ UNCHANGED <<setup, clock, entries, books, work>>

DecideAbsence(a, status) ==
  /\ ~Held /\ absences[a].status = "requested" /\ status \in {"approved", "rejected"} /\ Write
  /\ SetAbsence(a, status)
  /\ UNCHANGED <<setup, clock, entries, books, work>>

RequestCancellation(a) ==
  /\ ~Held /\ absences[a].status = "approved" /\ Write
  /\ SetAbsence(a, "cancellation_pending")
  /\ UNCHANGED <<setup, clock, entries, books, work>>

KeepAbsence(a) ==
  /\ ~Held /\ absences[a].status = "cancellation_pending" /\ Write
  /\ SetAbsence(a, "approved")
  /\ UNCHANGED <<setup, clock, entries, books, work>>

\* CANCELLATION_NEEDS_PAYROLL_REVIEW
NeedsReviewIfOver(a) ==  \* mutant: asks for the last month of the absence only
  /\ absences[a].mark \in Months
  /\ LET m == MonthOf[absences[a].to] IN m <= marker /\ m \notin queue

NeedsReview(a) ==
  /\ absences[a].mark \in Months
  /\ \E d \in DaysOf(a) : MonthOf[d] <= marker /\ MonthOf[d] \notin queue

\* approve_cancellation_tx and revoke_tx
CancelAbsence(a) ==
  /\ ~Held /\ Counts(a) /\ Write
  /\ absences' = [absences EXCEPT ![a].status = "cancelled", ![a].review = NeedsReview(a)]
  /\ UNCHANGED <<setup, clock, entries, books, work>>

\* reject_pending_for_user_tx, which takes no lock: what the report has read changes.
ArchiveOwner ==
  /\ Write
  /\ \E a \in Absences : absences[a].status \in {"requested", "cancellation_pending"}
  /\ absences' = [a \in Absences |->
       CASE absences[a].status = "requested" -> [absences[a] EXCEPT !.status = "rejected"]
         [] absences[a].status = "cancellation_pending" ->
              [absences[a] EXCEPT !.status = "approved"]
         [] OTHER -> absences[a]]
  /\ run' = [run EXCEPT !.stale = @ \/ \E a \in Absences :
       absences[a].status = "cancellation_pending" /\ \E d \in Days : <<a, d>> \in doc.shown]
  /\ UNCHANGED <<setup, clock, entries, books, doc>>

----------------------------------------------------------------------------
(* The nightly run                                                         *)

\* initialize_payroll_history: what is approved before the first month is settled.
Initialize(p) ==
  /\ first' = p
  /\ entries' = [e \in Entries |->
       IF /\ entries[e].status = "approved" /\ entries[e].mark = NoMark
          /\ MonthOf[entries[e].day] < p
       THEN [entries[e] EXCEPT !.mark = History] ELSE entries[e]]
  /\ absences' = [a \in Absences |->
       IF Counts(a) /\ absences[a].mark = NoMark /\ MonthOf[absences[a].from] < p
       THEN [absences[a] EXCEPT !.mark = History] ELSE absences[a]]

Begin ==
  /\ run.at = "idle" /\ month > 1
  /\ IF marker = 0 /\ first = 0 THEN Initialize(month - 1)
                                ELSE UNCHANGED <<first, entries, absences>>
  /\ run' = [run EXCEPT !.at = "queue", !.target = month - 1, !.due = reached]
  /\ UNCHANGED <<setup, clock, marker, queue, delivered, ledger, mailed, unsent, used, doc>>

\* periods_to_backfill
BackfillAgain(target) ==  \* mutant: from the last queued month on
  IF marker = 0 THEN {target} ELSE {m \in Months : marker <= m /\ m <= target}

Backfill(target) ==
  IF marker = 0 \/ marker > target THEN {target}
                                   ELSE {m \in Months : marker < m /\ m <= target}

Enqueue ==
  /\ run.at = "queue"
  /\ queue' = queue \cup Backfill(run.target)
  /\ run' = [run EXCEPT !.at = "mark"]
  /\ UNCHANGED <<setup, clock, entries, absences, first, marker, delivered, ledger, mailed,
                 unsent, used, doc>>

NextPeriod(left) ==
  IF left = {} THEN Idle
  ELSE [Idle EXCEPT !.at = "check", !.left = left, !.target = run.target, !.due = run.due]

\* Saves the marker and lists the queue.
List ==
  /\ run.at = "mark"
  /\ marker' = run.target
  /\ run' = NextPeriod(queue)
  /\ UNCHANGED <<setup, clock, entries, absences, first, queue, delivered, ledger, mailed,
                 unsent, used, doc>>

Skip == run' = NextPeriod(run.left \ {Period}) /\ doc' = EmptyDoc

\* process_through_period
DeferredUntilNextMonth(p) == p >= run.target  \* mutant: the send day never comes
Deferred(p) == ~run.due /\ p >= run.target
Defer ==
  /\ run.at = "check" /\ Deferred(Period)
  /\ Skip
  /\ UNCHANGED <<setup, clock, entries, absences, books, used>>

\* payroll_entry_snapshot, then carry_over_boundary.
Snapshot ==
  /\ run.at = "check" /\ ~Deferred(Period)
  /\ run' = [run EXCEPT !.at = "members", !.owed = queue \cup Backfill(month - 1),
       !.snap = {e \in Live(entries) : MonthOf[entries[e].day] = Period}]
  /\ UNCHANGED <<setup, clock, entries, absences, books, used, doc>>

\* payroll_members: an assistant needs an entry of the month or a correction.
Member ==
  \/ kind = "employee"
  \/ \E e \in Live(entries) : MonthOf[entries[e].day] = Period
  \/ LateDays(Period, run.owed) # {}

\* month_export_readiness, for what this document would print.
Ready(p) ==
  IF kind = "assistant"
  THEN ~\E e \in Live(entries) : MonthOf[entries[e].day] = p /\ entries[e].status = "open"
  ELSE ~\E a \in Live(absences) :
          absences[a].status = "requested" /\ \E d \in DaysOf(a) : MonthOf[d] = p

HoldBack ==
  /\ run.at = "members" /\ Member /\ ~Ready(Period)
  /\ Skip
  /\ UNCHANGED <<setup, clock, entries, absences, books, used>>

\* Settled without a lock or a document if nobody is covered.
Evaluate ==
  /\ run.at = "members" /\ (Member => Ready(Period))
  /\ run' = [run EXCEPT !.at = IF others \/ Member THEN "build" ELSE "settle",
                        !.member = Member]
  /\ UNCHANGED <<setup, clock, entries, absences, books, used, doc>>

\* build_hours_rows: one figure for every day of the month with approved work.
HoursRows(p) == {<<d, Net(WorkOn(d))>> : d \in {day \in Days : MonthOf[day] = p /\ WorkOn(day) # {}}}

\* build_late_entry_rows: what older days have gained or lost since they were declared.
CorrectionRows(late) == {<<d, Delta(d)>> : d \in {day \in late : LedgerBacked(day)}}

HoursDoc(p) ==
  LET late == LateDays(p, run.owed)
  IN  [EmptyDoc EXCEPT !.minutes = HoursRows(p) \cup CorrectionRows(late), !.late = late]

\* build_absence_rows
AbsenceRows(p) == {row \in Live(absences) \X Days :
  Counts(row[1]) /\ row[2] \in DaysOf(row[1]) /\ MonthOf[row[2]] = p}

\* unreported_payroll_absences_before
Unreported(a) == absences[a].mark = NoMark

\* build_late_absence_rows: older days of absences no report has shown.
LateAbsenceRows(p) == {row \in Live(absences) \X Days :
  /\ Counts(row[1]) /\ Unreported(row[1]) /\ row[2] \in DaysOf(row[1])
  /\ MonthOf[row[2]] < p /\ MonthOf[row[2]] \notin run.owed}

\* build_cancelled_absence_rows
CancelledRows == {a \in Live(absences) : absences[a].review}

AbsenceDoc(p) ==
  [EmptyDoc EXCEPT !.shown = AbsenceRows(p) \cup LateAbsenceRows(p), !.withdrawn = CancelledRows]

Document(p) == IF kind = "assistant" THEN HoursDoc(p) ELSE AbsenceDoc(p)

\* people_in_report
CoversPrinted(d) == others \/ d.shown # {} \/ d.withdrawn # {}  \* mutant: forgets the hours

Covers(d) ==
  \/ others \/ d.late # {} \/ d.shown # {} \/ d.withdrawn # {}
  \/ \E row \in d.minutes : row[2] # 0

\* Under the locks of everybody included, held until the document is accounted for.
Build ==
  /\ run.at = "build"
  /\ doc' = IF run.member THEN Document(Period) ELSE EmptyDoc
  /\ run' = [run EXCEPT !.at = IF Covers(doc') THEN "send" ELSE "record"]
  /\ UNCHANGED <<setup, clock, entries, absences, books, used>>

\* The server accepts the mail; its answer may be lost.
Send ==
  /\ run.at = "send"
  /\ mailed' = [mailed EXCEPT ![Period] = doc]
  /\ \/ run' = [run EXCEPT !.at = "record"] /\ UNCHANGED <<doc, used>>
     \/ Skip /\ Fault
  /\ UNCHANGED <<setup, clock, entries, absences, first, marker, queue, delivered, ledger,
                 unsent>>

\* The server refuses, or mail is not configured any more.
FailToSend ==
  /\ run.at = "send" /\ Fault
  /\ Skip
  /\ UNCHANGED <<setup, clock, entries, absences, books>>

\* record_declared_days_tx: a day's row of this month is replaced.
RecordDays(p) == ledger' =
  {row \in ledger : row.period # p \/ ~\E new \in doc.minutes : new[1] = row.day}
  \cup {[period |-> p, day |-> new[1], min |-> new[2]] : new \in doc.minutes}

MarkEntries(p) == entries' = [e \in Entries |->
  IF /\ entries[e].status # "none" /\ entries[e].mark = NoMark
     /\ \/ MonthOf[entries[e].day] = p /\ e \in run.snap
        \/ entries[e].status = "approved" /\ entries[e].day \in doc.late
  THEN [entries[e] EXCEPT !.mark = p] ELSE entries[e]]

MarkAbsences(p) == absences' = [a \in Absences |->
  IF absences[a].status = "none" THEN absences[a]
  ELSE IF \E d \in Days : <<a, d>> \in doc.shown /\ Counts(a)
             /\ absences[a].mark \in {NoMark, History}
       THEN [absences[a] EXCEPT !.mark = p]
       ELSE IF a \in doc.withdrawn THEN [absences[a] EXCEPT !.review = FALSE]
                                       ELSE absences[a]]

\* record_payroll_report_delivery, one transaction.
Account(p) ==
  /\ delivered' = delivered \cup {p}
  /\ RecordDays(p)
  /\ MarkEntries(p) /\ MarkAbsences(p)
  /\ queue' = queue \ {p}
  /\ unsent' = IF run.at = "record" /\ Covers(doc) THEN unsent ELSE unsent \cup {p}
  /\ Skip

Record ==
  /\ run.at \in {"record", "settle"} /\ ~run.stale
  /\ Account(Period)
  /\ UNCHANGED <<setup, clock, first, marker, mailed, used>>

\* A version has changed: nothing is written and the month stays queued.
RecordRefused ==
  /\ run.at = "record" /\ run.stale
  /\ Skip
  /\ UNCHANGED <<setup, clock, entries, absences, books, used>>

RecordFails ==
  /\ run.at \in {"record", "settle"} /\ Fault
  /\ Skip
  /\ UNCHANGED <<setup, clock, entries, absences, books>>

Restart ==
  /\ run.at # "idle" /\ Fault
  /\ run' = Idle /\ doc' = EmptyDoc
  /\ UNCHANGED <<setup, clock, entries, absences, books>>

----------------------------------------------------------------------------

SendDay ==
  /\ ~reached
  /\ reached' = TRUE
  /\ UNCHANGED <<setup, month, entries, absences, books, work, used>>

NextMonth ==
  /\ month <= LastMonth
  /\ month' = month + 1 /\ reached' = FALSE
  /\ UNCHANGED <<setup, entries, absences, books, work, used>>

Init ==
  /\ kind \in {"assistant", "employee"} /\ others \in BOOLEAN
  /\ month = 2 /\ reached = FALSE
  /\ entries = [e \in Entries |-> NoRow] /\ absences = [a \in Absences |-> NoRow]
  /\ first = 0 /\ marker = 0 /\ queue = {} /\ delivered = {} /\ ledger = {}
  /\ run = Idle /\ doc = EmptyDoc /\ mailed = [m \in Months |-> NoDoc] /\ unsent = {}
  /\ used = [writes |-> 0, faults |-> 0]

Hours ==
  \E e \in Entries :
    \/ \E d \in Days, n \in Minutes : CreateEntry(e, d, n) \/ UpdateEntry(e, d, n)
    \/ ApproveEntry(e) \/ ReopenEntry(e) \/ DeleteEntry(e)

Leave ==
  \/ \E a \in Absences :
       \/ \E from, to \in Days, s \in AbsenceStatus : CreateAbsence(a, from, to, s)
       \/ \E s \in AbsenceStatus : DecideAbsence(a, s)
       \/ RequestCancellation(a) \/ KeepAbsence(a) \/ CancelAbsence(a)
  \/ ArchiveOwner

Work ==
  \/ Enqueue \/ List \/ Defer \/ Snapshot \/ HoldBack \/ Evaluate \/ Build
  \/ Send \/ FailToSend \/ Record \/ RecordRefused \/ RecordFails

Next == Hours \/ Leave \/ Begin \/ Work \/ Restart \/ SendDay \/ NextMonth

\* The loop of main.rs runs every night and each of its steps ends.
Spec == Init /\ [][Next]_vars /\ WF_vars(Begin) /\ WF_vars(Work) /\ WF_vars(SendDay)

----------------------------------------------------------------------------

Docs ==
  [minutes : SUBSET (Days \X Int), late : SUBSET Days,
   shown : SUBSET (Absences \X Days), withdrawn : SUBSET Absences]

\* Every variable keeps its type (the tables of migrations 001 and 010 to 015).
TypeOK ==
  /\ kind \in {"assistant", "employee"} /\ others \in BOOLEAN
  /\ month \in 1..LastMonth + 1 /\ reached \in BOOLEAN
  /\ entries \in [Entries -> Entry \cup {NoRow}]
  /\ absences \in [Absences -> Absence \cup {NoRow}]
  /\ first \in 0..LastMonth /\ marker \in 0..LastMonth
  /\ queue \subseteq Months /\ delivered \subseteq Months
  /\ ledger \subseteq [period : Months, day : Days, min : Int]
  /\ run.at \in {"idle", "queue", "mark", "check", "members", "build", "send", "record", "settle"}
  /\ run.left \subseteq Months /\ run.snap \subseteq Entries /\ run.owed \subseteq Months
  /\ run.stale \in BOOLEAN
  /\ doc \in Docs /\ mailed \in [Months -> Docs \cup {NoDoc}]
  /\ unsent \subseteq Months

\* The ledger holds, for every month accounted for, exactly what the last document
\* mailed for it says, and of a month without a document nothing but zeroes.
BooksMatch ==
  /\ \A row \in ledger : row.period \in delivered
  /\ \A p \in delivered \ unsent :
       /\ mailed[p] # NoDoc
       /\ {<<row.day, row.min>> : row \in {r \in ledger : r.period = p}}
            = mailed[p].minutes
  /\ \A p \in unsent : \A row \in ledger : row.period = p => row.min = 0

\* The hours of a month accounted for are declared to the minute: what the reports have
\* said of a decided day and what the next would still say add up to the day's work.
HoursAccountedFor ==
  kind = "assistant" => \A d \in Days :
    MonthOf[d] \in delivered /\ ~Blocked(d) =>
      Declared(d) + (IF Wanted(d) THEN Delta(d) ELSE 0) = Net(WorkOn(d))

\* No month accounted for is queued again: apart from a mail that was accepted and not
\* recorded, a month is reported once.
AccountedOnce == delivered \cap queue = {}

\* user-guide.md, on an absence across a month boundary: a day of a month already
\* reported is carried by the report that first shows the absence.  It is not when a
\* later month was reported before an earlier one: the earlier report prints its own
\* days, and its mark keeps the rest from ever being carried.
AbsenceDaysReported ==
  kind = "employee" => \A a \in Live(absences) : \A d \in DaysOf(a) :
    Counts(a) /\ absences[a].mark \in Months /\ MonthOf[d] \in delivered
    => \E p \in delivered : mailed[p] # NoDoc /\ <<a, d>> \in mailed[p].shown

\* A cancelled absence that a document has shown is withdrawn by a later one, or still
\* marked to be.
CancellationsHeard ==
  \A a \in Live(absences) :
    absences[a].status = "cancelled"
    /\ (\E p \in delivered \ unsent, d \in Days : <<a, d>> \in mailed[p].shown)
    => absences[a].review \/ \E p \in delivered : mailed[p] # NoDoc /\ a \in mailed[p].withdrawn

\* A queued month whose hours and absences are decided does not stay queued.
ReadyIsReported == \A p \in Months : ~<>[](p \in queue /\ Ready(p))

=============================================================================
