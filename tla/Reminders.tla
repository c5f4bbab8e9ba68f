------------------------------ MODULE Reminders ------------------------------
(***************************************************************************)
(* The two loops that ask people to hand in their weeks and approvers to   *)
(* decide, over the verdicts of Readiness.  Each wakes every minute, looks *)
(* at the clock and delivers what is due: a row that is not written again  *)
(* while the day's is there, then an e-mail if the row is new.  Between    *)
(* any two of these writes the process may stop and start, and whoever is  *)
(* reminded may clear their list of notifications.                         *)
(***************************************************************************)
EXTENDS Readiness

CONSTANTS
  DeadlineDay,  \* submission_deadline_day, a day of the month; 0 when unset
  PayrollDay,   \* the day the payroll report is sent; 0 when it is off
  Interval,     \* REMINDER_INTERVAL_DAYS, 3 in the code
  MaxClears     \* bound: how often a day somebody clears their notifications

ASSUME ReminderAssumption ==
  /\ DeadlineDay \in Nat /\ PayrollDay \in Nat /\ Interval \in Nat \ {0}
  /\ MaxClears \in Nat

Loops == {"submission", "approval"}

SubmissionKinds == {"submission_reminder", "month_weeks_reminder", "month_end_submission_reminder"}
ApprovalKinds == {"approval_reminder", "month_end_approval_reminder"}
Kinds == SubmissionKinds \cup ApprovalKinds
KindsOf(loop) == IF loop = "submission" THEN SubmissionKinds ELSE ApprovalKinds

VARIABLES
  hour,      \* 0 before 07:00, 7 before 08:00, 8 from then on
  up,        \* the process runs
  notified,  \* rows of notifications: kind and dedupe key
  cleared,   \* history: per loop, how often today its recipient cleared their rows
  sending,   \* per loop, a kind whose row is written and whose e-mail is not queued
  mails,     \* e-mails queued today, per kind
  quiet      \* days in a row that ended with weeks missing, the process up and no reminder

reminderVars == <<hour, up, notified, cleared, sending, mails, quiet>>
allVars == <<vars, reminderVars>>

None == "none"

-----------------------------------------------------------------------------
(* When, and to whom. *)

DayOfMonth == ((today - 1) % MonthLength) + 1
PreviousMonth == MonthOf(today) - 1

DeadlineIsDueNow == DayOfMonth = DeadlineDay /\ hour >= 7
MondayIsDueNow == Monday(today) = today /\ hour >= 7

\* Mutant: only on the first of the month.
MonthReminderIsDueOnce == hour >= 8 /\ DayOfMonth = 1

MonthReminderIsDueNow == hour >= 8 /\ (DayOfMonth - 1) % Interval = 0

\* The deadline day, or the day before the payroll report; 0 without either.
SubmissionDeadline ==
  CASE DeadlineDay # 0 -> DeadlineDay
    [] DeadlineDay = 0 /\ PayrollDay > 1 -> PayrollDay - 1
    [] OTHER -> 0

AsksForWeeks == active /\ role = "employee"

MonthWeeksDue ==
  /\ AsksForWeeks /\ SubmissionDeadline # 0
  /\ MonthReminderIsDueNow /\ MissingWeeks(PreviousMonth) # {}

\* Mutant: only weeks count.
PendingWeeks ==
  active /\ (reopens # {} \/ \E d \in Days : "submitted" \in entries[d])

Pending ==
  active /\ \/ \E d \in Days : "submitted" \in entries[d]
            \/ \E a \in absences : a.status # "approved"
            \/ \E w \in reopens : ~\E d \in Week(w) : "submitted" \in entries[d]

Due(kind) ==
  CASE kind = "submission_reminder" ->
         \/ DeadlineIsDueNow /\ AsksForWeeks /\ UnsubmittedWeeks # {}
         \/ MonthWeeksDue /\ DayOfMonth > SubmissionDeadline
    [] kind = "month_weeks_reminder" -> MonthWeeksDue /\ DayOfMonth <= SubmissionDeadline
    [] kind = "month_end_submission_reminder" ->
         /\ active /\ role = "assistant" /\ SubmissionDeadline # 0 /\ MonthReminderIsDueNow
         /\ \E d \in MonthDays(PreviousMonth) : Incomplete(d)
    [] kind = "approval_reminder" -> MondayIsDueNow /\ Pending
    [] kind = "month_end_approval_reminder" ->
         /\ MonthReminderIsDueNow
         /\ \/ \E d \in MonthDays(PreviousMonth) : "submitted" \in entries[d]
            \/ \E a \in Requested : Touches(a, MonthDays(PreviousMonth))

-----------------------------------------------------------------------------
(* Delivery. *)

\* Mutant: the key holds what is missing, not the day.
KeyOfWeeks(kind) == <<today, UnsubmittedWeeks>>

Key(kind) == <<today>>

\* A row that was there before brings no e-mail.
Notify(loop, kind) ==
  /\ up /\ sending[loop] = None
  /\ Due(kind) /\ <<kind, Key(kind)>> \notin notified
  /\ notified' = notified \cup {<<kind, Key(kind)>>}
  /\ sending' = [sending EXCEPT ![loop] = kind]
  /\ UNCHANGED <<vars, hour, up, cleared, mails, quiet>>

QueueMail(loop) ==
  /\ up /\ sending[loop] # None
  /\ mails' = [mails EXCEPT ![sending[loop]] = @ + 1]
  /\ sending' = [sending EXCEPT ![loop] = None]
  /\ UNCHANGED <<vars, hour, up, notified, cleared, quiet>>

\* A crash forgets the e-mail that was about to be queued.
Stop ==
  /\ up /\ up' = FALSE
  /\ sending' = [loop \in Loops |-> None]
  /\ UNCHANGED <<vars, hour, notified, cleared, mails, quiet>>

Start ==
  /\ ~up /\ up' = TRUE
  /\ UNCHANGED <<vars, hour, notified, cleared, sending, mails, quiet>>

\* The one who is reminded deletes all their notifications: the rows that keep
\* today's reminders from being written again are gone with the others.  (A list
\* without one of today has nothing the loops look at.)
DeleteAll(loop) ==
  /\ up /\ cleared[loop] < MaxClears
  /\ \E row \in notified : row[1] \in KindsOf(loop) /\ row[2][1] = today
  /\ notified' = {row \in notified : row[1] \notin KindsOf(loop)}
  /\ cleared' = [cleared EXCEPT ![loop] = @ + 1]
  /\ UNCHANGED <<vars, hour, up, sending, mails, quiet>>

-----------------------------------------------------------------------------
(* The clock and the people. *)

\* The loops wake every minute: no hour passes on a running process before
\* they have delivered what is due.
LoopsAreDone ==
  up => \A loop \in Loops :
          /\ sending[loop] = None
          /\ \A kind \in KindsOf(loop) : Due(kind) => <<kind, Key(kind)>> \in notified

NextHour ==
  /\ LoopsAreDone /\ hour < 8
  /\ hour' = IF hour = 0 THEN 7 ELSE 8
  /\ UNCHANGED <<vars, up, notified, cleared, sending, mails, quiet>>

AskedToday == \E row \in notified : row[1] \in {"submission_reminder", "month_weeks_reminder"} /\ row[2][1] = today

Midnight ==
  /\ LoopsAreDone /\ hour = 8
  /\ NextDay
  /\ hour' = 0
  /\ mails' = [kind \in Kinds |-> 0]
  /\ cleared' = [loop \in Loops |-> 0]
  /\ quiet' = IF up /\ AsksForWeeks /\ MissingWeeks(PreviousMonth) # {} /\ ~AskedToday THEN quiet + 1 ELSE 0
  /\ UNCHANGED <<up, notified, sending>>

ReminderInit ==
  /\ Init
  /\ hour = 0 /\ up = TRUE /\ notified = {} /\ quiet = 0
  /\ cleared = [loop \in Loops |-> 0]
  /\ sending = [loop \in Loops |-> None]
  /\ mails = [kind \in Kinds |-> 0]

ReminderNext ==
  \/ Change /\ UNCHANGED reminderVars
  \/ \E loop \in Loops : QueueMail(loop) \/ \E kind \in KindsOf(loop) : Notify(loop, kind)
  \/ \E loop \in Loops : DeleteAll(loop)
  \/ Stop \/ Start
  \/ NextHour \/ Midnight

ReminderSpec == ReminderInit /\ [][ReminderNext]_allVars

-----------------------------------------------------------------------------
(* Properties. *)

(* Nobody gets the same reminder twice on one day, except that clearing     *)
(* their notifications may bring it once more: not because the loop looks   *)
(* again every minute, not after a restart, not because they handed in one  *)
(* of several missing weeks in between.                                     *)
RemindedOnce ==
  \A loop \in Loops : \A kind \in KindsOf(loop) : mails[kind] <= 1 + cleared[loop]

(* While weeks of the finished month are missing, the process runs and a    *)
(* deadline is known, no Interval of days passes without a reminder: not    *)
(* when the process was down on the first, nor when a week was rejected or  *)
(* reopened after the last reminder went out.                               *)
MissingIsAsked == SubmissionDeadline # 0 => quiet < Interval

(* Whoever the approvers' card shows as waiting for a decision, an approver *)
(* has been reminded of by the end of a Monday, whatever is waiting.        *)
HeardOnMonday ==
  today' # today /\ up /\ Monday(today) = today /\ (\E m \in Months : OnCard(m) /\ Card(m) = "amber")
    => <<"approval_reminder", Key("approval_reminder")>> \in notified
WaitingIsHeard == [][HeardOnMonday]_allVars
=============================================================================
