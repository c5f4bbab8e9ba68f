----------------------------- MODULE EmailQueue -----------------------------
(***************************************************************************)
(* Outbound mail: the email_queue table and the worker that drains it, the *)
(* circuit breaker it shares with the payroll report, and the alerts about *)
(* mail that cannot be delivered, which are mail themselves.               *)
(*                                                                         *)
(* Times are abstract.  Failed rows are kept in the order of their last    *)
(* attempt, and the breaker's cooldown is a state it leaves some time      *)
(* later.  SMTP is configured throughout, and there is one admin.          *)
(***************************************************************************)
EXTENDS Naturals, FiniteSets, Sequences, SequencesExt

CONSTANTS
  MaxMails,    \* bound: ids 1, 2, ... MaxMails in the order of creation
  MaxOrdinary, \* bound: how many of them are not alerts
  Refused,     \* mails whose recipient the server refuses
  Threshold,   \* failures in a row that open the breaker
  BatchLimit,  \* rows of one batch
  Persistent,  \* the attempt that is reported again
  MaxFaults,   \* bound: restarts, failing statements and lost answers
  MaxOutages,  \* bound: times the server goes down
  MaxPayrolls, \* bound: attempts to send a payroll report
  OptedIn      \* whether the admin wants alerts

Mails == 1..MaxMails

ASSUME QueueAssumption ==
  /\ MaxMails \in Nat /\ MaxOrdinary \in Nat
  /\ MaxFaults \in Nat /\ MaxOutages \in Nat /\ MaxPayrolls \in Nat
  /\ Refused \subseteq Mails /\ OptedIn \in BOOLEAN
  /\ Threshold \in Nat \ {0} /\ BatchLimit \in Nat \ {0} /\ Persistent \in Nat \ {0}

VARIABLES
  queue,    \* mails with a row in email_queue
  failed,   \* those attempted before, least recently attempted first
  mail,     \* kind, attempts and last error of each mail
  accepted, \* how often the server has accepted each mail
  server,   \* "up" or "down"
  breaker,  \* consecutive failures, and whether it is open
  trials,   \* senders whose attempt is a half-open trial
  worker,   \* the queue worker: its next step, its batch and the error it met
  payroll,  \* the payroll report: "idle" or "send"
  reports,  \* failures queued for the admin (error_notification_queue)
  notice,   \* the admin's notice on each mail: the attempt it tells of, if read
  alerting, \* the report the error worker has delivered and not yet deleted
  used      \* how much of each bound is used up

vars == <<queue, failed, mail, accepted, server, breaker, trials, worker, payroll,
          reports, notice, alerting, used>>

NoReport == [about |-> 0, attempts |-> 0]
Errors == {"none", "unreachable", "refused", "timeout"}

Created == {m \in Mails : mail[m].kind # "none"}
Ordinary == {m \in Mails : mail[m].kind = "ordinary"}

Use(what) == used' = [used EXCEPT ![what] = @ + 1]

Fault == used.faults < MaxFaults /\ Use("faults")

----------------------------------------------------------------------------
(* The queue                                                               *)

Without(rows, m) ==
  IF m \in Range(rows) THEN RemoveAt(rows, CHOOSE k \in DOMAIN rows : rows[k] = m) ELSE rows

\* ORDER BY id: all listings of the rows that do, which is one.
ById(rows) ==
  {list \in [1..Cardinality(rows) -> rows] :
     \A i, j \in 1..Cardinality(rows) : i < j => list[i] < list[j]}

FirstOf(list) == SubSeq(list, 1, IF Len(list) < BatchLimit THEN Len(list) ELSE BatchLimit)

\* list_pending: ORDER BY last_attempt_at ASC NULLS FIRST, id ASC LIMIT n
ListPendingById ==  \* mutant: ORDER BY id
  {FirstOf(list) : list \in ById(queue)}

ListPending == {FirstOf(list \o failed) : list \in ById(queue \ Range(failed))}

\* A new row.  Past the bound alerts are no longer mailed.
Enqueue(kind) ==
  LET m == Cardinality(Created) + 1
  IN  IF m \in Mails
      THEN /\ queue' = queue \cup {m}
           /\ mail' = [mail EXCEPT ![m] = [kind |-> kind, attempts |-> 0, error |-> "none"]]
      ELSE UNCHANGED <<queue, mail>>

Compose ==
  /\ Cardinality(Ordinary) < MaxOrdinary /\ Cardinality(Created) < MaxMails
  /\ Enqueue("ordinary")
  /\ UNCHANGED <<failed, accepted, server, breaker, trials, worker, payroll, reports,
                 notice, alerting, used>>

----------------------------------------------------------------------------
(* The circuit breaker                                                     *)

Closed == [failures |-> 0, opened |-> "no"]

CanAttempt == breaker.opened # "cooling"

\* allow_attempt of an open breaker grants one trial and starts the cooldown anew.
AllowUnarmed(sender) ==  \* mutant: leaves the cooldown as it is
  /\ CanAttempt
  /\ trials' = IF breaker.opened = "no" THEN trials ELSE trials \cup {sender}
  /\ UNCHANGED breaker

Allow(sender) ==
  /\ CanAttempt
  /\ IF breaker.opened = "no"
     THEN UNCHANGED <<breaker, trials>>
     ELSE /\ breaker' = [breaker EXCEPT !.opened = "cooling"]
          /\ trials' = trials \cup {sender}

RecordSuccess(sender) == breaker' = Closed /\ trials' = trials \ {sender}

RecordFailure(sender) ==
  LET n == breaker.failures + 1
  IN  /\ breaker' = IF n >= Threshold
                    THEN [failures |-> Threshold, opened |-> "cooling"]
                    ELSE [failures |-> n, opened |-> breaker.opened]
      /\ trials' = trials \ {sender}

\* The cooldown (5 minutes) outlasts a trial (30 or 120 seconds).
CoolDown ==
  /\ breaker.opened = "cooling" /\ trials = {}
  /\ breaker' = [breaker EXCEPT !.opened = "cooled"]
  /\ UNCHANGED <<queue, failed, mail, accepted, server, trials, worker, payroll, reports,
                 notice, alerting, used>>

----------------------------------------------------------------------------
(* The queue worker                                                        *)

Resting == [at |-> "idle", batch |-> <<>>, error |-> "none"]

Current == Head(worker.batch)

Goto(at, error) == worker' = [at |-> at, batch |-> worker.batch, error |-> error]

NextMail ==
  worker' = IF Len(worker.batch) = 1 THEN Resting
            ELSE [at |-> "next", batch |-> Tail(worker.batch), error |-> "none"]

Poll ==
  /\ worker.at = "idle" /\ queue # {}
  /\ \E batch \in ListPending : worker' = [at |-> "next", batch |-> batch, error |-> "none"]
  /\ UNCHANGED <<queue, failed, mail, accepted, server, breaker, trials, payroll, reports,
                 notice, alerting, used>>

\* While the breaker is open the rest of the batch waits for the next poll.
Attempt ==
  /\ worker.at = "next"
  /\ \/ Allow("queue") /\ Goto("send", "none")
     \/ ~CanAttempt /\ worker' = Resting /\ UNCHANGED <<breaker, trials>>
  /\ UNCHANGED <<queue, failed, mail, accepted, server, payroll, reports, notice,
                 alerting, used>>

Accept ==
  /\ worker.at = "send" /\ server = "up" /\ Current \notin Refused
  /\ accepted' = [accepted EXCEPT ![Current] = @ + 1]
  /\ \/ RecordSuccess("queue") /\ Goto("delete", "none") /\ UNCHANGED used
     \/ RecordFailure("queue") /\ Goto("record", "timeout") /\ Fault  \* the answer is lost
  /\ UNCHANGED <<queue, failed, mail, server, payroll, reports, notice, alerting>>

Decline ==
  /\ worker.at = "send"
  /\ \/ server = "down" /\ Goto("record", "unreachable")
     \/ server = "up" /\ Current \in Refused /\ Goto("record", "refused")
  /\ RecordFailure("queue")
  /\ UNCHANGED <<queue, failed, mail, accepted, server, payroll, reports, notice,
                 alerting, used>>

DeleteLeavesRow ==  \* mutant: the row of an accepted mail stays
  /\ worker.at = "delete"
  /\ NextMail
  /\ UNCHANGED <<queue, failed, mail, accepted, server, breaker, trials, payroll, reports,
                 notice, alerting, used>>

\* delete_with_retry, which gives up after some attempts.
Delete ==
  /\ worker.at = "delete"
  /\ \/ /\ queue' = queue \ {Current}
        /\ failed' = Without(failed, Current)
        /\ UNCHANGED used
     \/ Fault /\ UNCHANGED <<queue, failed>>
  /\ NextMail
  /\ UNCHANGED <<mail, accepted, server, breaker, trials, payroll, reports, notice,
                 alerting>>

\* is_reported_failure; a report about an alert would raise another alert.
Reported(m, attempts, error) ==
  /\ mail[m].kind = "ordinary"
  /\ attempts \in {1, Persistent} \/ error # mail[m].error

\* Attempts are counted up to Persistent + 1.
Record ==
  /\ worker.at = "record"
  /\ LET m == Current
         n == IF mail[m].attempts > Persistent THEN mail[m].attempts ELSE mail[m].attempts + 1
     IN  \/ /\ mail' = [mail EXCEPT ![m].attempts = n, ![m].error = worker.error]
            /\ failed' = Append(Without(failed, m), m)
            /\ IF Reported(m, n, worker.error) THEN Goto("report", "none") ELSE NextMail
            /\ UNCHANGED used
         \/ Fault /\ NextMail /\ UNCHANGED <<mail, failed>>
  /\ UNCHANGED <<queue, accepted, server, breaker, trials, payroll, reports, notice,
                 alerting>>

\* enqueue_error: a report about the same mail that still waits is kept instead.
ReportUnlessAny ==  \* mutant: one key for all mail
  /\ worker.at = "report"
  /\ reports' = IF reports # {} THEN reports
                ELSE {[about |-> Current, attempts |-> mail[Current].attempts]}
  /\ NextMail
  /\ UNCHANGED <<queue, failed, mail, accepted, server, breaker, trials, payroll, notice,
                 alerting, used>>

Report ==
  /\ worker.at = "report"
  /\ \/ /\ reports' = IF \E x \in reports : x.about = Current THEN reports
                      ELSE reports \cup {[about |-> Current, attempts |-> mail[Current].attempts]}
        /\ UNCHANGED used
     \/ Fault /\ UNCHANGED reports
  /\ NextMail
  /\ UNCHANGED <<queue, failed, mail, accepted, server, breaker, trials, payroll, notice,
                 alerting>>

----------------------------------------------------------------------------
(* The payroll report sends by itself, through the same breaker            *)

PayrollAttempt ==
  /\ payroll = "idle" /\ used.payrolls < MaxPayrolls
  /\ Allow("payroll")
  /\ payroll' = "send"
  /\ Use("payrolls")
  /\ UNCHANGED <<queue, failed, mail, accepted, server, worker, reports, notice, alerting>>

PayrollEnd ==
  /\ payroll = "send"
  /\ \/ server = "up" /\ RecordSuccess("payroll")
     \/ RecordFailure("payroll")
  /\ payroll' = "idle"
  /\ UNCHANGED <<queue, failed, mail, accepted, server, worker, reports, notice, alerting,
                 used>>

----------------------------------------------------------------------------
(* The error worker and the admin                                          *)

\* upsert_system_error: a notice is raised if it is new, was read or has changed.
Raised(x) == notice[x.about] # [attempts |-> x.attempts, read |-> FALSE]

\* deliver_error_to_opted_in_admins: a notice and, when it is raised, a mail; what
\* fails on the way is only logged.
DeliverReport(x) ==
  /\ alerting = NoReport
  /\ IF OptedIn /\ Raised(x)
     THEN \/ /\ notice' = [notice EXCEPT ![x.about] = [attempts |-> x.attempts, read |-> FALSE]]
             /\ \/ Enqueue("alert") /\ UNCHANGED used
                \/ Fault /\ UNCHANGED <<queue, mail>>
          \/ Fault /\ UNCHANGED <<queue, mail, notice>>
     ELSE UNCHANGED <<queue, mail, notice, used>>
  /\ alerting' = x
  /\ UNCHANGED <<failed, accepted, server, breaker, trials, worker, payroll, reports>>

DeleteReport ==
  /\ alerting # NoReport
  /\ \/ reports' = reports \ {alerting} /\ UNCHANGED used
     \/ Fault /\ UNCHANGED reports
  /\ alerting' = NoReport
  /\ UNCHANGED <<queue, failed, mail, accepted, server, breaker, trials, worker, payroll,
                 notice>>

ReadNotice(m) ==
  /\ notice[m].attempts > 0 /\ ~notice[m].read
  /\ notice' = [notice EXCEPT ![m].read = TRUE]
  /\ UNCHANGED <<queue, failed, mail, accepted, server, breaker, trials, worker, payroll,
                 reports, alerting, used>>

----------------------------------------------------------------------------
(* The environment                                                         *)

\* The breaker and the workers' progress are in memory.
Restart ==
  /\ Fault
  /\ worker' = Resting /\ payroll' = "idle" /\ alerting' = NoReport
  /\ breaker' = Closed /\ trials' = {}
  /\ UNCHANGED <<queue, failed, mail, accepted, server, reports, notice>>

ServerDown ==
  /\ server = "up" /\ used.outages < MaxOutages
  /\ server' = "down"
  /\ Use("outages")
  /\ UNCHANGED <<queue, failed, mail, accepted, breaker, trials, worker, payroll, reports,
                 notice, alerting>>

ServerUp ==
  /\ server = "down"
  /\ server' = "up"
  /\ UNCHANGED <<queue, failed, mail, accepted, breaker, trials, worker, payroll, reports,
                 notice, alerting, used>>

----------------------------------------------------------------------------
(* The specification                                                       *)

Init ==
  /\ queue = {} /\ failed = <<>>
  /\ mail = [m \in Mails |-> [kind |-> "none", attempts |-> 0, error |-> "none"]]
  /\ accepted = [m \in Mails |-> 0]
  /\ server \in {"up", "down"}
  /\ breaker = Closed /\ trials = {}
  /\ worker = Resting
  /\ payroll = "idle"
  /\ reports = {} /\ alerting = NoReport
  /\ notice = [m \in Mails |-> [attempts |-> 0, read |-> FALSE]]
  /\ used = [faults |-> 0, outages |-> 0, payrolls |-> 0]

WorkerStep ==
  Poll \/ Attempt \/ Accept \/ Decline \/ Delete \/ Record \/ Report

ErrorStep == (\E x \in reports : DeliverReport(x)) \/ DeleteReport

Next ==
  \/ Compose
  \/ CoolDown
  \/ WorkerStep
  \/ PayrollAttempt \/ PayrollEnd
  \/ ErrorStep
  \/ \E m \in Mails : ReadNotice(m)
  \/ Restart \/ ServerDown \/ ServerUp

\* The loops of main.rs run on, sends time out and the cooldown passes; nothing
\* obliges anybody to write mail, the admin to read or the server to come back.
Fairness ==
  /\ WF_vars(WorkerStep)
  /\ WF_vars(PayrollEnd)
  /\ WF_vars(ErrorStep)
  /\ WF_vars(CoolDown)

Spec == Init /\ [][Next]_vars /\ Fairness

----------------------------------------------------------------------------
(* Properties                                                              *)

\* Rows are well-formed, and the failed ones are just the queued ones that were
\* attempted, each once.
TypeOK ==
  /\ queue \subseteq Created
  /\ Range(failed) = {m \in queue : mail[m].attempts > 0}
  /\ IsInjective(failed)
  /\ mail \in [Mails -> [kind : {"none", "ordinary", "alert"},
                         attempts : 0..Persistent + 1, error : Errors]]
  /\ accepted \in [Mails -> Nat]
  /\ server \in {"up", "down"}
  /\ breaker \in [failures : 0..Threshold, opened : {"no", "cooling", "cooled"}]
  /\ breaker.opened # "no" <=> breaker.failures = Threshold
  /\ trials \subseteq {"queue", "payroll"}
  /\ worker.at \in {"idle", "next", "send", "delete", "record", "report"}
  /\ worker.at # "idle" <=> worker.batch # <<>>
  /\ Range(worker.batch) \subseteq queue
  /\ payroll \in {"idle", "send"}
  /\ \A x \in reports \cup ({alerting} \ {NoReport}) : x.about \in Ordinary

\* A mail leaves the queue only once the server has accepted it.
LeavesDelivered == \A m \in queue \ queue' : accepted[m] > 0

\* No mail is ever dropped, however often it fails and whatever is restarted.
NothingLost == [][LeavesDelivered]_vars

\* A mail goes out again only after a restart, a statement that failed or an
\* answer that was lost.
SentOnce == \A m \in Mails : accepted[m] <= 1 + used.faults

\* While the breaker is open, at most one of the senders that share it is trying
\* whether the server is back.
OneTrial == \A s, t \in trials : s = t

\* Every mail in the queue gets its turn again and again, although mail that
\* can never be delivered keeps opening the breaker.
RetriedForever ==
  \A m \in Mails : []<>(m \in queue => worker.at = "send" /\ Current = m)

\* An admin learns of every mail that failed, with no restart in between.
FailureReported ==
  \A m \in Mails :
    mail[m].kind = "ordinary" /\ mail[m].attempts > 0 ~> notice[m].attempts > 0
=============================================================================
