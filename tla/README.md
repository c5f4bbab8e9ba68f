# Zerf: models, checks and proofs

Zerf is a time and absence management server: a Rust backend (axum, sqlx,
PostgreSQL) under `src/backend/src`, a Svelte frontend, and shell scripts for
deployment and backup. This directory holds TLA+ models of the backend, the TLC
configurations that check them on small instances, and proofs checked by TLAPS.

## 1. The system

All state is in PostgreSQL. Every HTTP request runs as its own task over a pool of
connections, and a handful of background loops run beside them, so any two handlers
interleave between their SQL statements. Transactions run at READ COMMITTED. What
keeps them apart is explicit: `pg_advisory_xact_lock(owner)` for everything that
writes one user's entries and absences, `SELECT ... FOR UPDATE` on single rows, one
advisory lock for the user graph, status guards in `UPDATE ... WHERE status = ...`,
and a few unique indexes.

| Component | State | Operations | Hard behaviour |
|---|---|---|---|
| Time entries (`repository/time_entries.rs`, `services/time_entries.rs`, `handlers/time_entries.rs`) | `time_entries`: owner, day, interval, status draft/submitted/approved/rejected, resolved flag, reviewer, payroll mark | create, update (own draft or admin correction), delete, submit (reviewed or auto-approved), batch approve, batch reject | checks and writes of concurrent requests, rejected rows that come back to life, batches that apply in part |
| Absences (`services/absences.rs`, `repository/absences.rs`) | `absences`: range, category, status requested/approved/rejected/cancelled/cancellation_pending | create, update, cancel, approve, reject, decide cancellation, revoke | overlap with entries and with other absences, category read before the lock |
| Reopen requests (`handlers/reopen_requests.rs`, `repository/reopen_requests.rs`) | `reopen_requests`: week, status pending/approved/rejected/auto_approved; one pending per week | create (pending or auto-approved), approve, reject, cancel zombies, clean up | decisions on counts read outside the lock, a submission racing a request |
| Notifications (`services/notifications.rs`) | `notifications`: kind, reference, is_read | create, clear for a reference, clear a week's submission, delete all of one's own | cleared after the commit they belong to, best effort; deleted rows were deduplication keys |
| E-mail queue (`background/email_queue.rs`) | `email_queue`, circuit breaker in memory | enqueue, list, send, delete, record failure | at-least-once delivery, a poison message, failing server |
| Error notifications (`background/error_notifications.rs`) | `error_notifications` | record, deliver, deduplicate | failures while reporting failures |
| Timesheet export (`background/report_upload.rs`, `repository/timesheet_export_queue.rs`) | `timesheet_export_queue` | enqueue, requeue, upload, mark done | a change committed while an upload runs |
| Payroll report (`background/payroll_report.rs`, `services/payroll_report.rs`) | declarations, reported days, reported marks on entries and absences | declare, prepare, send, mark reported, carry corrections | send then mark, edits between snapshot and mark |
| Reminders and submission status (`background/approval_reminders.rs`, `submission_reminders.rs`, `schedule.rs`, `services/submission_status.rs`, `services/reports.rs`) | deduplication keys; verdicts are computed | daily, weekly and monthly ticks; judging weeks and months | stop and start around a tick, keys that their recipient deletes, five views of one month that each choose their own days |
| Users, roles, archiving (`services/users.rs`, `repository/users.rs`) | `users`, `user_approvers` | create, update, archive, restore, delete, approvers | last admin, approver cycles, closing what is pending |
| Sessions and login (`services/auth.rs`, `repository/sessions.rs`, `middleware/auth.rs`) | `sessions`, `login_attempts`, reset tokens | login, logout, reset, timeout, lockout | counting failures, revoking while used |
| Categories, absence categories, settings | reference tables | edit, lock once used | a value read before it changes |
| Holidays (`services/holidays.rs`, `repository/holidays.rs`, `background/holidays.rs`) | `holidays` | import at start, on Mondays and with a save of the settings; add and delete by hand | a save and an import that read the country before it changed |
| Work schedules (`services/work_schedules.rs`, `repository/work_schedules.rs`) | dated weekdays and weekly hours beside the current values | user forms, archiving, restoring | a form that changes what past days asked for |
| Leave accounts (`services/absence_balance.rs`) | entitlements, overrides, access, carry-over (computed) | validate a booking, apply an admin's values | expiry boundaries, bookings of two years in either order |
| Flextime (`services/reports.rs`, `services/flextime_adjustments.rs`) | adjustments; balances are computed | book, reverse | one balance computed in three ways over weeks that straddle months |
| Time arithmetic (`time_calc.rs`) | none | breaks, work stretch, leave days of ranges | boundaries |
| Audit log, app log, PDF, i18n, Nextcloud client, router, config | logs, none | append, render, transfer | not modelled |

How they interact. Handlers call services, services call repositories, and a
repository owns the transaction. A handler commits first and then, as separate
statements that may fail on their own, writes its audit row, clears and inserts
notifications, queues mail and queues past months for a new export. The background
loops only read what handlers left in the queue tables. Memory is shared in one
place, the SMTP circuit breaker, which the e-mail worker and the payroll report both
hold.

What makes each part correct:

- **Entries and absences.** No minute is booked twice; counted work and a confirmed
  absence never share a day; absences of a user are disjoint; every decision was
  made by someone entitled to it and is undone only in the ways the rules name;
  concurrent requests amount to some sequence of whole ones.
- **Edit requests and notices.** One pending request per week; approved work reopens
  by consent only; a request is decided once, and each one is in the end.
- **Mail.** Nothing is lost, nothing is sent twice without a fault, one poison mail
  neither starves the others nor floods the admins.
- **Archive.** A month whose data changes after its upload is uploaded again; no
  month is skipped; none goes up before its day.
- **Payroll.** The ledger says what the mailed documents said; what was declared and
  what is still to be carried add up to the work; a month is accounted for once; a
  cancellation is heard of; reports claim no day twice.
- **Users and sessions.** There is always an active admin, whoever needs an approver
  has one, approvals form no cycle, the limits on attempts hold, and what a change
  revokes stays revoked.
- **Computed views.** Leave cards agree with the rule that judges bookings, all
  views of flextime give one balance, all views of a month one verdict, and what
  past days asked for stands.
- **Time arithmetic and holidays.** Boundaries of days, breaks and years; the next
  year follows the configured country.

## 2. Modules

Paths are relative to `src/backend/src` unless they begin with `docs/`.

| Module | Models | Kind |
|---|---|---|
| `DayLedger` | all writes to `time_entries` and `absences`, one committed transaction per action | state machine, the abstract specification |
| `DayLedgerTx` | the same operations as concurrent locked transactions, with archiving beside them | state machine, implements `DayLedger` |
| `WorkDay` | `DayLedger` for one day, with categories, automatic breaks and the guard on work in a row | state machine over pure calculations |
| `WeekWorkflow` | one week's entries, edit requests and notices, each handler statement by statement | state machine |
| `EmailQueue` | queue, worker, circuit breaker, payroll sender, alerts to the admin | state machine |
| `TimesheetExport` | export queue, daily and manual upload runs, handlers that change past months | state machine |
| `PayrollLedger` | the monthly report's queue and nightly run, marks, and the ledger of what was declared | state machine |
| `PayrollDays` | which absence days a month's report claims, and how illnesses are joined | calculations, one action per report |
| `Accounts` | accounts, roles and the approval graph under the user-graph lock | state machine |
| `Sessions` | login, lock-out, sessions, password changes and reset links of one account | state machine |
| `LeaveAccounts` | entitlement, carryover and its expiry, and the bookings that draw on them | calculations, one action per request |
| `Flextime` | the balance of one person, computed in the code's three ways | calculations, one action per request |
| `Contracts` | the dated histories of weekdays and hours that targets are computed from | calculations, one action per form |
| `Readiness` | who has handed in what: the five views of one person's month | calculations, one action per step |
| `Reminders` | the submission and approval reminder loops over `Readiness` | state machine |
| `Holidays` | imports and hand-made rows of the holiday table | state machine |
| `*Proofs` | theorems about the modules of a part of the system, see section 4 | proofs |
| `MC*` | instances for TLC, see section 3 | instances |

How they compose. `DayLedgerTx` and `WorkDay` extend `DayLedger`: the first splits
its actions into lock, check, write and commit and is shown to implement it, the
second adds what an entry is worth. `Reminders` extends `Readiness` and adds the
loops that read its verdicts. `Readiness` judges rows by what `DayLedger` and
`WeekWorkflow` may make of them, `TimesheetExport` abstracts its verdict to
`settled`, and `PayrollLedger` abstracts the absence days of `PayrollDays` to marks.

Operators with a comment `mutant` are plausible mistakes in the definition they
stand next to. Nothing uses them; each one, put in place of the definition, breaks
the property it is listed with in `PROJECT.json`.

### DayLedger

`entries` and `absences` are the tables as functions from ids to rows, `today` is
`app_today`. A row keeps what the rules read: owner, day, interval, status,
`rejection_resolved_at` as `resolved`, and `reviewed_by`; for absences the range,
the status and the category's `auto_approve_past`. For an operation `Op` there is
`CanOp` (the checks in the order-independent form the code's early returns amount
to) and `DoOp` (the writes), so that `DayLedgerTx` can do them at different times.

| Action | Code |
|---|---|
| `CreateEntry`, `UpdateEntry`, `DeleteEntry` | `create_checked`, `update_checked`, `delete` |
| `SubmitBatch`, `SubmitBatchAutoApproved` | `submit_batch`, `submit_batch_auto_approved` |
| `BatchApprove`, `BatchReject` | `batch_approve`, `batch_reject`: rows not submitted or not the reviewer's are skipped, a blocking absence fails the batch |
| `PerformReopen` | `perform_reopen` with `validate_entries_after_reopen` |
| `CreateAbsence` ... `RevokeAbsence` | the handlers of `services/absences.rs` |
| `ClosePending` | what `archive` and `close_pending_for_user_tx` do to pending rows |
| `NextDay` | midnight |

`InitialStatus` takes the date as the handler read it, which may be yesterday's,
because the code reads the date before it waits for the lock.

Left out here, because they only refuse (a `CanOp` may be false for them at any
time, and no property relies on an operation being accepted): comments, start dates,
inactive categories, the work-stretch rule (in `WorkDay`), and the leave and
flextime budgets (in `LeaveAccounts` and `Flextime`).

### DayLedgerTx

A request begins (`Begin`: whose rows it wants is read outside any lock), takes the
advisory locks of the owners one by one in ascending order (`Lock`), runs its checks
and selects its rows under them (`Decide`), and commits, is refused or loses its
connection. Uncommitted writes are kept as the operation to be applied: at READ
COMMITTED nobody else sees them, and whoever wants to write the same row waits
(`RowsFree`). Archiving takes no owner's lock: its `UPDATE`s for entries, requested
and cancellation-pending absences each select rows (`Scan`), wait for their row
locks and write those that still match (`WriteScanned`), and all take effect at
`CommitArchive`.

`ImplementsLedger` is `DayLedger`'s `Spec`: entries, absences and the day keep their
names, so the refinement mapping is the identity and `req`, `holder`, `archived` and
`closing` are what it hides.

### WorkDay

A break rule is a pair of a threshold and a length; `DayAutoBreak` is
`compute_day_auto_break` (entries joined to blocks, gaps counted as breaks), and
`StretchFrom` and `StretchFits` are `work_stretch_minutes_with` and
`validate_work_stretch`. The code joins and grows in loops; the model says what the
loops end with: a block begins where no earlier entry reaches and ends where no later
one has begun (`Begins`, `Ends`), and a stretch takes in the fewest entries that
leave no other in reach. `CreateWork` and `UpdateWork` are the ledger's actions with
the guard, judged by settings the request read one by one before its transaction
(`ReadLimit`); `SaveBreaks` saves the settings and `CheckCategory` and
`ChangeCategory` are the two statements by which an admin makes a category count as
work or not. `ReviewWork` is every other step of the ledger on entries. `judged` is a history variable: the limit each entry passed where it
now stands.

### WeekWorkflow

One employee's week. A handler is a record of where it stands between two statements
(`at`) and what it still holds from earlier ones (the counts it read, the request it
is about, what to notify about). `Submit` commits the entries and leaves
`NotifySubmitted` and `CancelZombie` to come; `CountReopenable`, `CountSubmitted`,
`FindPending` and one of `ReopenAtOnce`, `ReopenSubmitted` and `InsertPending` are
the `create` handler of edit requests; `DecideEntries` is a batch decision followed
by the check and the clearing of the week's notices; `ApproveReopen`, `RejectReopen`
and `CleanUp` are single transactions. `Restart` drops all handlers where they
stand: what they had committed stays, what they had yet to say is never said.

### EmailQueue

`queue` is the table; `failed` is the order in which the rows with attempts were
last attempted, which is all `list_pending` reads of `last_attempt_at`. The worker's
`at` names the statement it is about to run: choose the next mail, send, delete the
row, record the failure, report it. `breaker` and `trials` are the circuit breaker
in `email.rs` and who is in a half-open attempt. `server` goes down and up; a send
to it may be accepted, refused, unanswered, or accepted with the answer lost.
`reports`, `alerting` and `notice` are the error queue, the delivery in progress and
the admin's deduplicated notice; an alert is a mail of its own.

### TimesheetExport

Rows of different employees never touch, so it is one employee. The content of a
month is a counter of the changes committed to it, and a document is what the
counters were when it was built, so "stale" is a comparison. An upload run goes
through `Populate`, `Mark`, `List`, `Check`, `Build`, `Upload` and `Delete` with
anything in between; the daily run and "Upload now" may overlap. There are two
history variables: `missed`, the months whose requeue failed, was switched off, or
found a row that an upload under way was about to delete; and `begun`, the month
uploads begin with, which is the one queued by the last run that found no marker.

### PayrollLedger and PayrollDays

`PayrollLedger` is one person, an assistant whose hours are printed or an employee
whose absences are; `others` says whether the report always has somebody else in it.
The nightly run goes through `Enqueue`, `List`, `Defer`, `Snapshot`, `Evaluate` (or
`HoldBack`), `Build`, `Send` and one of `Record`, `RecordRefused` and `RecordFails`,
with writes to entries and absences between any two of them. A row's version
(`updated_at`, `xmin`) is modelled by its effect: a write that changes it takes the
row out of the run's snapshot (`Touch`). `ledger` is `payroll_reported_days`, `mark`
the reported month of a row; `mailed` and `unsent` are history variables: the last
document of a month the server accepted, and months settled without one.

`PayrollDays` takes a report as one step and models what the ledger leaves abstract:
weekends, holidays and caps of contracts without fixed weekdays (`DaysOf`,
`Claimed`), late and cancelled rows (`Unreported`, `LateRows`), and chains of sick
notes over days that bridge them (`Chains`, `Required`). The loops that build chains
and join lines go through rows in the order of their first days; `Runs` says what they
come to, a run for each row that none before it goes on to. `charged` holds the claims
of all reports. A working day with recorded weekdays may be in it more than once: if
an absence over it is reported, cancelled and filed again, the code tells of the
cancellation and claims the day anew (`TakenBack`); a day under a cap never is
(`PaidOnce`).

### Accounts and Sessions

In `Accounts` every mutation is one action, as the code runs each in one transaction
under the user-graph lock. What a request learned before the lock is in `req`: the
requester's row as the middleware read it (`Authenticate`), and, for a team lead's
archiving and restoring, the whole check of the assistant (`CheckAssistant`), after
which `ArchiveAssistant` and `RestoreAssistant` act on it. `Fail` drops a request
anywhere.

`Sessions` is one account. A login is `CountFailures`, `Verify`, `RecordFailure` or
`RecordSuccess`, `CreateSession`; a change of password `ReadSession`,
`DeleteOthers`, `CommitPassword`; a request for a link `CountForgots`,
`RecordForgot`, `FindAccount`, `InsertLink`. `epoch` counts the changes that end
sessions, and a session's `late` says that its login had read the account before the
last of them.

### LeaveAccounts, Flextime, Contracts, Readiness

Four computations over a person's days. None of their results is stored, so the code
computes each one in several places, and the models keep these places apart.
`LeaveAccounts` has the years' entitlements (`ProRated`, `Entitlement`), what they
carry into the next (`LeftOver`, `Carryover`, `Expired`) and the rule a booking must
pass (`Fits`) beside the card shown for it (`Available`). `Flextime` has the ledger
from any day (`Ledger`), the monthly rows (`Rows`) and the balance at a month's end
(`AtMonthEnd`), each with its own start and its own sum of bookings. `Contracts` has
`users` beside the dated histories that `Target` reads, and one action per form
(`Update`). `Readiness` has the tile (`MonthSubmitted`), the count of weeks, the
approvers' card (`Card`), the reminder's list (`MissingWeeks`) and the archive's
gate (`ExportReady`).

### Reminders and Holidays

`Notify` writes a notification unless one with its key is there, `QueueMail` queues
its e-mail, and `Stop`, `Start` and `DeleteAll` come between any two of these:
`DELETE /notifications` takes the keys of the day with the rest of the list, so the
reminder comes once more within a minute if it is still due. `cleared`, a history
variable, counts this per loop and day, with `MaxClears` as its bound. The clean-up
of rows of 90 days is left out: the loops ask for today's key only. Time moves by
`NextHour` and `Midnight` only when the loops that run have nothing due, which is
what a loop that wakes every minute amounts to.

In `Holidays` a save of the settings reads the old place (`BeginSave`), fetches
(`FetchForSave`) and then runs its transaction (`Save`); an import reads, fetches,
compares and writes in steps of their own (`Monday`, `Import`).

## 3. Runs

Every action of every module fires in some run. Several runs check more than one
module, each in its own part of the state space (a variable of the MC module says
which part a behaviour is in; variables of the other parts hold 0 or their initial
value). Where a configuration disables the deadlock check the bounds of the model
really are used up (`CHECK_DEADLOCK FALSE`).

| Run | Checks | Instance |
|---|---|---|
| `ledger` | `NoDoubleBooking`, `NoWorkOnAbsence`, `ReplacedRejectionsResolved`; `NoLongStretch`, `CreditIsByMinutes` of `WorkDay` | an employee with 2 entries and 1 absence in a week of 2 days, or a lead who submits without approval with 1 entry and 2 absences over 3 days in 2 weeks; and one day of the employee's work with 3 entries, or of the lead's with 1, at times 0..3, with 3 break settings, 2 categories and 3 changes |
| `tx_requests` | `ImplementsLedger` | 2 requests and an archiving; 2 entries, or 1 and an absence, on the second of 2 days |
| `week` | `ReopenNeedsConsent`, `PendingDecided` | 2 handlers, 2 entries, 2 requests, restarts |
| `mail` | `SentOnce`, `OneTrial`; `RetriedInTurns`, `FailureReportedInTurns` | 2 mails, 1 refused, 1 fault, an outage, a payroll report; and 2 undeliverable mails with room for 1 more |
| `export` | `StaleIsQueued`, `NoMonthSkipped`, `ReadyIsUploadedInMonths` | 2 months, both runs, 1 handler, 1 change, 1 fault; and 3 months with the daily run alone, or with both runs, 1 fault and every month ready |
| `payroll` | `BooksMatch`, `HoursAccountedFor`, `AccountedOnce`, `CancellationsHeard`, `ReadyIsReported` | 2 months of a day each, 2 entries, 1 absence, 4 writes, 1 fault |
| `payroll_absence_days` | `AbsenceDaysReported` (violated) | finding 1 |
| `accounts` | `NoApprovalCycle`, `AdminRemains`, `ApproverRemains`; `NextYearFollows` of `Holidays` | 3 accounts, 2 requests; and 2 countries, 2 saves, 2 years |
| `sessions` | `SessionsCurrent`, `LinksRetired`, `AttemptsBounded`, `LockoutEnds` | 2 logins, 1 change, 1 request for a link, 2 changes that end sessions |
| `balances` | `CardMatchesRule`, `Backed`, `LateDaysStayCovered` of `LeaveAccounts`; `ViewsAgree` of `Flextime`; `PastStands` of `Contracts`; `PaidOnce`, `JudgesIllness` of `PayrollDays` | 3 years of 2 days, 2 bookings; 6 days in 3 weeks and 2 months, 3 steps; 2 days, 2 forms; 6 days in 2 weeks and 3 months, the first 3 without recorded weekdays, 2 absences |
| `leave_across_years` | `ApprovedWithinEntitlement` (violated) | finding 2 |
| `deadlines` | `VerdictsAgree`, `ReadyStaysReady`; `RemindedOnce`, `MissingIsAsked`, `HeardOnMonday` | 7 days in 3 weeks and 3 months: 4 steps without the loops, 2 steps with them and a list cleared once a day |

What each shows is said in `PROJECT.json` beside it; a part's properties are named
there with the part (`NoLongStretchAllDay`, `RetriedInTurns`, ...) and defined in
its MC module.

### Bounds, and why they are enough

- *Rows.* Every rule on the ledger compares two rows: two entries, two absences, or
  an entry and an absence. The two focuses of `ledger` contain every pair and, with
  ids reused after deletion, every history of a pair. A stretch of work needs three
  entries: two and what is booked between. The theorems of section 4 hold for any
  number.
- *Days and times.* Three times give entries that are equal, nested, adjacent and
  apart, four give a day's work two blocks and a gap between them that a pause fits
  in or does not. Three days give ranges that touch, nest and miss, and a week boundary.
- *People.* The rules tell apart owner, assigned approver and admin; one of each.
  Three accounts are the fewest with a cycle that is no mutual approval.
- *Requests in progress.* Two, and an archiving: a conflict over a lock or a row has
  two sides. In `tx_requests` all rows are about the last day, so that midnight
  falls between the steps of a request while the rows all meet, and no state has all
  three rows.
- *Handlers of a week.* Two: every race is between two of them, and both may begin
  anew.
- *Mail.* `Threshold`, `BatchLimit` and `Persistent` stand for 5, 50 and 100;
  attempts are counted up to one past `Persistent`, beyond which all attempts are
  alike. `MaxFaults`, `MaxOutages` and `MaxPayrolls` bound the environment, never
  the code.
- *Months.* Export: with three, one is running, one is just finished and one is
  older, which is all deferral and backfill tell apart. Payroll: two months, one
  reported and one to be, with the third running; four writes are enough to enter,
  decide, change and withdraw one row.
- *Calendars.* Weeks of two or three days, months of two or three, years of two,
  chosen so that weeks straddle months, leave straddles the expiry of a carryover,
  and a public holiday and a day off lie inside. A week is due from its last day, as
  from Friday in the code. Quantities keep their order, not their size: a day owes
  2, an entry credits 3. The payroll reports have a week in two months and months
  before and after the first recorded weekdays, so that a claim is made anew under
  either kind of contract.
- *Beside the reminder loops* the contract starts on the first day and absences last
  at most two days. One clearing of a list a day (`MaxClears`) is enough for a
  reminder to come twice; on such a day the other recipient clears nothing and one
  step at most was taken, before or on it.
- *Holidays.* Two countries that share a day under different names, one with a
  region; the days added by hand at first are at most the first day of the running
  year.

### Fairness

Safety runs need none. For liveness:

- `WeekWorkflow`: a handler that has begun runs on (`WF`), which a restart may still
  cut short. Approvers get to submitted entries and to requests their list shows
  (`SF`, as other handlers may take them away in between): this is an assumption
  about people, whom `approval_reminders.rs` reminds every week. It says nothing
  about requests the list hides.
- `EmailQueue`: the loops of `main.rs` take their next step, a send ends (`SMTP`
  time-outs) and the cooldown passes. Nobody has to write mail or read a notice, no
  server has to come back.
- `TimesheetExport`: the daily loop takes its next step, the upload day comes, a
  handler ends by queueing what it changed. Nobody presses "Upload now"; uploads may
  be switched off for good.
- `PayrollLedger`: the nightly run begins and takes its next step, the send day
  comes.
- `Sessions`: a failed attempt leaves the window of the lock-out, as time passes.
- `Holidays`: Mondays come, an import runs on, and the holiday service answers now
  and then (`SF`, as its failures end the import).

### Findings

Two are runs that end in a counterexample:

1. **Days of an absence that no report shows** (`payroll_absence_days`). An absence
   has one mark for all its months. If a later month's report has gone out while an
   earlier one was held back, the earlier report marks an absence entered meanwhile,
   and its later days are never carried, as `docs/user-guide.md:2179` says they are.
2. **Two years' leave beyond both entitlements** (`leave_across_years`). A booking
   is judged by its own years, not by the later ones whose carryover it takes away.
   The comment at `services/absence_balance.rs:417` says the sum cannot exceed the
   entitlement. `Backed` says what does hold.

Others were met while modelling and are exceptions in a property or facts of a few
lines, so no run is about them:

- *Edit requests.* A submission between the counts and the insert leaves a request
  beside a submitted week (`handlers/reopen_requests.rs:161`,
  `docs/user-guide.md:1306`); `PendingDecided` says it does no lasting harm. A
  notice inserted after its commit can be overtaken by the decision it asks for
  (`handlers/time_entries.rs:336`, `docs/user-guide.md:937`). Reopening a week
  resets a rejected entry unless an approved one overlaps it, where
  `docs/user-guide.md:421` asks for a replacement on the same day.
- *Archiving* reverts submitted entries without the owner's lock, so a submission
  that commits after its scan stays submitted (`services/users.rs:1179`,
  `docs/user-guide.md:1815`); it does not violate the ledger's rules. Archived
  people keep their drafts, so months with a draft never become ready for the
  archive. A team lead's archiving and restoring of an assistant do not look at the
  role or the approvers again under the lock (`docs/user-guide.md:1790`, `:1825`):
  the exceptions in `AdminRemains` and `ApproverRemains`.
- *Timesheet archive.* An upload deletes the queue row it started from, also when a
  later change relied on it (`background/report_upload.rs:377`,
  `docs/user-guide.md:2029`): the exception `missed` in `StaleIsQueued`. Backdated
  weekly hours queue no month (`handlers/users.rs:724`). Decisions on entries queue
  only the months of their own dates, where `services/flextime_adjustments.rs:197`
  queues all later ones, because their documents show balances that include the
  change. While the marker is empty each run queues only the month just finished: if
  the first run stops between filling the queue and setting the marker, or stalls
  there for two months, the next run begins anew and a month between is skipped.
  `NoMonthSkipped` counts from `begun` for this reason.
- *Payroll.* If a later month's report goes out first, a week over both months can
  be claimed beyond the contract's days (`services/payroll_report.rs:2078`,
  `docs/user-guide.md:2197`): the exception `SentBackwards` in `PaidOnce`.
- *Leave.* Where a weekly quota spans the expiry of a carryover, a day before it can
  take the place of a later one in the quota. The comment at
  `services/absence_balance.rs:898` says that a proposal costs the difference between
  the year with it and without it. That is nothing then, but each side of the expiry
  is cut off at zero for itself (`:908`), so that the earlier day is counted and the
  booking may be refused. Conversely, moving a booking out of such a week charges the
  later days in its place, and only the years it moves to are judged. These are the
  exceptions `QuotaSpansExpiry` in `CardMatchesRule` and `LateDaysStayCovered`.
- *Flextime and hours.* Flextime days in a week before the last approved one that is
  not approved itself are in neither the ledger nor the committed cost
  (`services/absence_balance.rs:762` says they are "already reflected").
  `users.weekly_hours` is set to the newest row of the history, called the value in
  force today (`repository/work_schedules.rs:383`), though a form may date hours at
  a contract start still to come (`handlers/users.rs:724`).
- *Weeks.* A first week that the contract begins in is judged a week late. Entries
  before a moved start keep the tile pending while the card is green, the exception
  `PreStartContent` in `VerdictsAgree`. The month-end reminder for assistants
  ignores their start.
- *Settings.* A save whose old country was read before another save commits writes
  its country without refreshing the running year, which stays wrong until a restart
  (`handlers/settings.rs:152`); `NextYearFollows` is about the next year, which the
  weekly import repairs. A change of country deletes imported holidays of past years
  too (`repository/holidays.rs:286`). A change of `counts_as_work` is checked and
  made in two statements (`services/categories.rs:152`).
- *Reminders and alerts.* A notification whose e-mail was not queued before a crash
  is not mailed again. Whoever clears their notifications on the day of a reminder is
  reminded once more by row and e-mail, because the deleted row was the key
  (`repository/notifications.rs:253`), where `docs/user-guide.md:958` says "you will
  not receive the same reminder twice for the same day"; `RemindedOnce` says that
  each further one takes a clearing. A restart between counting a mail's first failure and
  reporting it keeps the failure silent until the hundredth attempt.

## 4. Proofs

Checked by TLAPS for all values of the constants that meet the modules' named
assumptions. These are weak: roles are subsets of the users, admins are leads, users
are compared by their ids, days and times are integers, bounds are naturals, weeks,
months and the reminders' interval are at least a day long and a week falls due on
one of its own days, years, weeks and months of the other calendars are at least a
day long and entitlements are naturals, a day has a first and a last moment, no two
break rules have one threshold (`build_break_rules` keeps a second only above the first), values that mean "none" are none of the rows;
and finite are only the sets that are summed over or counted (days and entries of the
payroll report, accounts, requests in progress), which a database and a pool of
connections make finite anyway. Where a run checks several modules beside each other,
the theorem states the module's property for the module's specification and the run's
property for the run's.

| Module | Theorems |
|---|---|
| `DayLedgerProofs` | `TypeCorrect`, `DoubleBookingFree`, `WorkAndAbsenceApart`, `AbsencesApart`, `RejectionsClosed`, `DecisionsEntitled`, `NoConflictAdded`, `DecisionsKept` |
| | of `DayLedgerTx`: `TransactionsImplementLedger`, `TxTypeCorrect`, `ConcurrentRequestsSafe` |
| | of `WorkDay`: `DayWorkKeepsLedger`, `NoLongStretchAlways`, `CreditAlwaysByMinutes` |
| `WeekWorkflowProofs` | `TypeCorrect`, `OnePendingAlways`, `ConsentNeeded`, `DecidedOnce` |
| `EmailQueueProofs` | `TypeCorrect`, `NothingIsLost`, `SentOnceAlways`, `OneTrialAlways` |
| `TimesheetExportProofs` | `TypeCorrect`, `StaleMonthsAreQueued`, `NoMonthIsSkipped` |
| `PayrollLedgerProofs` | `TypeCorrect`, `MonthAccountedOnce`, `LedgerMatchesDocuments`, `CancellationsAreHeard`, `HoursAreAccountedFor` |
| `AccountsProofs` | `TypeCorrect`, `ApprovalsAcyclic`, `AdminAlwaysRemains`, `ApproverAlwaysRemains` |
| | of `Sessions`: `SessionsTyped`, `RevokedSessionsEnd`, `UsedLinkRetiresOthers`, `LimitsHold` |
| `RemindersProofs` | of `Readiness`: `VerdictsAlwaysAgree`, `ReadyStays` |
| | of `Reminders`: `RemindedOnceAlways`, `MissingIsAlwaysAsked`, `WaitingHeard`, `RemindersOnlyWatch` |
| `BalancesProofs` | of `LeaveAccounts`: `LeaveTyped`, `YearsStayBacked`, `CarryoverAlwaysExpires`, `CardAlwaysMatches` |
| | of `Contracts`: `PastAlwaysStands`; of `Flextime`: `ViewsAlwaysAgree`; of `PayrollDays`: `ContinuedPayClaimedOnce`, `VerdictsOfIllness` |

**DayLedgerProofs, the ledger.** The inductive invariant is the conjunction

    Inv == TypeOK /\ NoDoubleBooking /\ NoWorkOnAbsence /\ AbsencesDisjoint
             /\ ReplacedRejectionsResolved /\ ReviewedByEntitled

and `Invariance` gives `Spec => []Inv`. Each conjunct has a lemma that it survives
every step, with one step of the proof per action. All of them read `TypeOK`.
`ReplacedRejectionsResolved` also needs `NoDoubleBooking`: an entry that is being
rejected was submitted, so it overlaps no approved one and leaves nothing to close.
The other conjuncts are inductive with `TypeOK` alone, each because of one check:
`NoDoubleBooking` survives a reopening by `validate_entries_after_reopen`, which
compares what comes back with what is there and with itself; `NoWorkOnAbsence` by
the check at submission and approval on one side and `ensure_no_time_conflict_tx` on
the other. `ResolveRejectedFacts` states once what closing rejected rows does.
`NoNewConflict` and `AbsenceLifecycle` are action properties, proved of a step from
a state in `Inv`.

**DayLedgerProofs, its transactions.** A request checks when it holds its locks and
writes when it commits, so a commit is a step of `DayLedger` only if the checks still
pass by then.
The inductive invariant `TxInv` says they do:

- `Types`;
- `OpInv`: a decided operation's owners are locked by its request, and its checks
  pass (`Decided`);
- `RowsInv`: no row is written by two transactions;
- `ClosingInv`: what an archiving has written is still pending for everybody else.

`DecidedStays` is the heart of it: the checks survive whatever others do. Others
commit only to rows of owners whose locks they hold (`EntryOfOthers`,
`AbsenceOfOthers`), and archiving, which holds none, only puts submitted entries
back to draft and settles pending absences (`EntryKept`, `AbsenceKept`), never a row
of the operation; no check of an operation tells these states of other rows apart.
`TxStepIsStep` then maps every step to a step of the ledger or a stutter, which is
`TransactionsImplementLedger`, and `ConcurrentRequestsSafe` carries the ledger's
theorems over.

**DayLedgerProofs, a day's work.** Every step of `WorkDay` is a step of the ledger or
none (`DayStepIsStep`), so `Inv` holds beside it. `NoLongStretch` is not inductive:
it is about the settings of the moment, and it excuses a stretch by an entry inside it
that was not judged, which may be deleted or rejected the next moment. `DayInv` therefore adds, beside
the types, that *any* part of a day's work that *any* one limit was asked about stays
within that limit (`Guarded`). A new entry keeps this (`NewFits`): the stretch the
guard measures is closed (`StretchIs`), so that every other entry lies inside it or a
whole pause away, and where work would now be too long there is a pause beside the
stretch; where the new entry is not between the two, the pause that was there is
still free. Entries that nothing judged are in no such part (`NothingBooked`).

`CreditIsByMinutes` compares a sum of lengths with a number of minutes. The entries
of a day do not overlap (`NoDoubleBooking`), so their lengths add up to their minutes
(`LengthIsMinutes`, the sum's equation being solved for ever larger sets of slots);
the blocks they are joined to are apart and have the same minutes (`BlocksAre`), so
what the code takes for breaks is what lies unworked between the first and the last
minute (`RestIs`). The rule that decides is one alone, as thresholds are distinct
(`RequiredIsOwed`).

**WeekWorkflowProofs.** `TypeOK` says which steps hold a request and which do not;
with `OnePending` it is inductive. `OnePending` rests on the unique index behind
`InsertPending` and on no other statement making a request pending;
`ReopenNeedsConsent` and `RequestsFinal` are action properties of the same steps.

**EmailQueueProofs.** `NothingLost` follows from `QueueInv`: while the worker is at
"delete", the server has accepted the mail it is about to delete. `OneTrial` follows
from `BreakerInv`: once the cooldown is over no trial is in progress, so whoever is
let through next is the only one. That rests on a cooldown that outlasts every trial
(five minutes against a send time-out of at most two), which `CoolDown` states as
its guard. `SentOnce` allows an acceptance nobody has paid for yet, which is why it
is not inductive. `MailInv` says where it may be: a mail that is queued and not about
to be deleted was accepted no more often than faults have happened (`Sends`). For
that the rows of a batch must stay queued until their turn, so batches and the list
of failed rows repeat nothing (`Batches`, `WithoutOne`, `AppendOne`, `TailRest`), and
a new mail must get an id of its own (`EnqueueAdds`). The invariants are about
different variables and are kept apart.

**TimesheetExportProofs.** `StaleIsQueued` is not inductive: a run that holds a
document, or has just archived one, is about to delete the row its month relies on.
`FreshInv` says that a document in hand is of the month as it is now, and so is the
archived one whose row is about to go, unless the change is noticed otherwise.
`NoMonthSkipped` needs `BackfillInv`: the months from `begun` up to the target of any
run that has yet to set the marker are queued or archived too (`Reserved`), so the
marker may be set by any of them, in any order and however late. This stands while
other runs work the queue off, because the row of a month is deleted only after its
document is in the share (`Archived`); and when a run finds no marker, `begun` moves
to the month just finished, beyond which no run has a target.

**PayrollLedgerProofs.** Five invariants, each resting on those before it.

- `Inv`: queue, marker, the run's own list and the months accounted for agree. This
  gives `AccountedOnce`.
- `Types`: every figure is a whole number. Figures are sums over finite sets of
  entries and of declared rows, so this needs that such a sum exists and is whole
  (`TotalIsInt`): of the sets for which it is not there would be one with the fewest
  elements.
- `BooksInv`: the document being accounted for is the one the server accepted. This
  gives `BooksMatch`.
- `ShownInv`: a day a document shows is of a month the marker has passed, and its
  absence is marked. Months that may still be reported are among those the run takes
  to be owed. This gives `CancellationsHeard`.
- `HoursInv`: work is marked only together with a row that declares it (`MarksInv`),
  or in a month no report will ever be made for (`Closed`); what the run has read of
  an entry still holds while it keeps it (`SnapInv`); a document has a row for all
  it will mark (`DocInv`). This gives `HoursAccountedFor`, with the sums' lemmas for
  what a late row adds.

**AccountsProofs, accounts.** A cycle of approvals is a set of accounts each of which is
approved by a member (`NoExit`); that no such set exists is inductive, as
`validate_approver_ids` walks the graph through archived accounts as well.
`AdminRemains` and `ApproverRemains` are action properties and name their two
exceptions, a team lead's archiving and restoring whose checks were overtaken.

**AccountsProofs, sessions.** `SessionsCurrent` is not inductive. `IInv` adds that a login
which has read the present account finds it active (`LoginsCurrent`), that the
account of a change is active while the session that asked for it exists
(`ChangesCurrent`), and that what a change leaves alone was created after its
`DELETE` (`DoomedComplete`). For the limits, an attempt that was counted and not
recorded yet is added to the counters (`AttemptsInv`): the sum cannot pass the limit
by more than the requests there are.

**RemindersProofs.** `VerdictsAgree` is about one state, in which nobody has entries
on days to come (`NoneAhead`, the only inductive part). Each of the five views comes
down to the same weeks, those that are due and touch the month (`DueWeeks`), and of
each week to its days inside the month: `TileByWeeks`, `CountByWeeks`,
`MissingByWeeks` and `OwingIsTile` say so of one view each. A due week ends by the
day up to which the tile judges (`DueEndFacts`), so cutting the month off there
leaves out no day of it. Below this are facts about multiples of the week's length.
For `ReadyStaysReady` nothing the gate reads of a finished month depends on the date.
`RemindedOnce` needs that each e-mail of the day, queued or about to be, had a row of
its own, which is there or was cleared (`Paid`), and that no row is dated ahead: a
clearing counts for at most the one row it takes. `MissingIsAsked` needs that the
silence began after the last day a reminder was due (`Quiet`). The loops change
nothing that `Readiness` is about (`RemindersOnlyWatch`), so its theorems hold beside
them. The run states `VerdictsAgree` for its scenario without the loops and
`WaitingIsHeard` for the one with them, which is an instance with fewer steps;
`WatchedNext` shows that each step of it is one of `Reminders`, and the theorems
state both forms.

**BalancesProofs, leave accounts.** What a year's bookings cost is a number of days
picked week by week (`ChargedIsPicked`, `PickAdd`, `PickFewer`), and how much of it
lies before and after the expiry is a split of the same days (`UsageIs`). From there
the three properties are about few numbers.

- `CardMatchesRule` holds in every typed state: with the booking's days on one side,
  the other side stays as it was (`LateFewer`, `EarlySame`), and the card's subtraction
  is the rule's comparison. That the sides stay needs the exception for a quota that
  spans the expiry.
- `Backed` compares sums over years. A year that fits (`FitsYear`) leaves the next
  year no more than what it has not used (`CarryIsLeft`), so the sum over the years
  up to a booking stays below what they give if the sum before did
  (`AcceptedIsBacked`); years before a booking keep their sums (`DrawnSame`).
- `LateDaysStayCovered` follows from the second comparison of the rule, which leaves
  the carryover out (`AcceptedExpires`).

All three need the type invariant only, in the form that sums and quotas are naturals.

**BalancesProofs, contracts.** `ContractInv` is the types, that each history has one
row per date (`Dated`), and that a contract's first day has a pattern
(`StartHasPattern`). The row in force on a past day is the latest of those dated up to
it. A form adds or changes rows of today and later (`WrittenLater`), moves the first
row back with the start (`FirstMovedBack`) or leaves out rows that repeat the one
before (`DistinctKeeps`); none of this changes that latest row's value.

**BalancesProofs, flextime.** `ViewsAgree` holds in every typed state. The differences
of the days from the start to a day are split where the view begins to add
(`RangeSplits`), the bookings likewise (`BookingsSplit`). The monthly rows are added up
by induction over months (`CumulativeBy`), as
the first month for which the sum were wrong would have one before it for which it is
right. What remains is that cutting a month off at
the day after which nothing counts leaves out no day that counts (`EarnedByCutoff`).

**BalancesProofs, payroll reports.** `PaidOnce` is not inductive. `PayInv` adds

- `AwayOnce`: approved absences share no day;
- `ClaimsAreSent`: a claimed day's month, and that of its claim, have been reported;
- `ClaimsAreShown`: there are at most as many claims of a day as reported absences
  over it, of which at most one is not cancelled;
- `CappedOnce`, `WithinCap` and `OneReport`: under a cap a day is claimed once, a
  report claims no more of a week than the cap, and, unless the months went out
  backwards, one report alone claims days of it.

That only one report does is what `NeedsReview` is for: a report with a row in a week
that an earlier absence was reported in claims nothing and leaves all its rows to a
human, so that where it claims anything the week has not been spent (`NothingSpent`).
What it then claims is cut off at the cap (`ClaimedWithinCap`). A first attempt
to prove "no day twice" failed at a recorded working day whose reported absence is
cancelled and filed again; the instance had no such day and has one now.

**BalancesProofs, illnesses.** `JudgesIllness` holds wherever `PayInv` does. It says
that two computations agree with each other, and with `IllnessOf`, which looks at
days and knows no rows: chains over whole sick notes, and the lines of a report, made
of what a month or a late section shows of those notes and joined per category. Rows
of days that do not overlap (`DayRows`) make runs with three properties: nothing
interrupts a run from its first day to its last (`RunGoesOn`, by the first row after
an interruption), every row is in one (`EachInARun`), and a run takes in every row it
goes on to (`RunTakesAll`, by `NoneBegins`). So the chain of a note begins and ends
with the illness of any of its days (`ChainIsIllness`). The rows of a report share no
day (`PayRowsAre`: notes do not, a month's rows begin where the late ones have ended,
and the late segments of a note are maximal), so what is joined to a line belongs to
one illness, and each of its rows brings the same verdict (`LinesAreJudged`).

## 5. Checked by TLC only

Liveness, which is out of the prover's reach, and properties whose counterexamples
need it: `PendingDecided`, `RetriedInTurns`, `FailureReportedInTurns`,
`ReadyIsUploadedInMonths`, `ReadyIsReported`, `LockoutEnds`,
`NextYearFollowsPlace`.

Every other property of a passing run is stated by a theorem of section 4.

The strengthened invariants of section 4 hold on these instances under TLC as well
(`PayrollLedger` with three writes); no run repeats them.

## 6. Not modelled, and the plan

Next, in this order:

1. "Send now" and the switch of the payroll report, start-date reviews and alerts of
   the timesheet archive, changes of the time zone beside the loops.
2. The order in which batches, reopen approvals and archiving take advisory locks
   and rows. PostgreSQL ends one of the transactions in a cycle, which `DayLedgerTx`
   has as a lost connection, so this would be about progress and not about data.

Not modelled for good: PDF rendering, translations, the Nextcloud and SMTP
protocols, routing and configuration, the append-only logs, the Svelte frontend
(which keeps no state the server relies on) and the deployment and backup scripts.

## 7. Running it

    tlc -config MCDayLedger.cfg MCDayLedger
    tlapm DayLedgerProofs.tla

`PROJECT.json` lists the runs with their configurations, the source lines of every
definition, the mutants, the hazards, the findings and the theorems.
