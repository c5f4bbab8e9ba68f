--------------------------- MODULE TimesheetExport ---------------------------
(***************************************************************************)
(* The archive of monthly timesheets: the timesheet_export_queue, the      *)
(* uploads that work it off (the daily loop and the admin's "Upload now"), *)
(* and the handlers that queue a past month again after changing it.       *)
(*                                                                         *)
(* The rows of different employees never meet, so this is one employee,    *)
(* who exists, is active and started before the first month.  The content  *)
(* of a month is the number of changes committed to it; a document shows   *)
(* its own month and, as opening and closing flextime balance, the months  *)
(* before.                                                                 *)
(***************************************************************************)
EXTENDS Naturals, FiniteSetsExt

CONSTANTS
  LastMonth,  \* bound: months 1, 2, ... LastMonth
  Uploaders,  \* upload runs: "daily", and "now" if an admin asks for it
  Editors,    \* handlers that change past months
  MaxChanges, \* bound: committed changes
  MaxFaults   \* bound: restarts, failing statements and failing uploads

ASSUME ExportAssumption ==
  /\ LastMonth \in Nat \ {0} /\ MaxChanges \in Nat /\ MaxFaults \in Nat
  /\ "daily" \in Uploaders /\ Uploaders \subseteq {"daily", "now"}

Months == 1..LastMonth

VARIABLES
  month,    \* the running month
  reached,  \* whether its upload day has come
  enabled,  \* report_upload_enabled
  ledger,   \* changes committed to each month
  settled,  \* whether month_export_readiness finds the month ready
  queue,    \* past months with a row in timesheet_export_queue
  marker,   \* report_upload_queue_period, 0 if empty
  archive,  \* the document of each month in the share, NoDoc if none
  uploader, \* what each upload run does
  editor,   \* months each handler has changed and not yet queued again
  missed,   \* history: requeues that came to nothing
  begun,    \* history: month 1, then the one queued by the last run that found no marker
  used      \* how much of each bound is used up

vars == <<month, reached, enabled, ledger, settled, queue, marker, archive, uploader,
          editor, missed, begun, used>>

NoDoc == <<>>

\* What a document of month m built now would show.
Doc(m) == [k \in 1..m |-> ledger[k]]

Idle == [at |-> "idle", target |-> 0, through |-> 0, left |-> {}, doc |-> NoDoc]

Use(what) == used' = [used EXCEPT ![what] = @ + 1]

Fault == used.faults < MaxFaults /\ Use("faults")

----------------------------------------------------------------------------
(* Handlers that change a month, then queue it again                       *)

\* Approvals, rejections, reopenings, corrections, decisions on absences.
Change(e, m) ==
  /\ editor[e] = {} /\ m <= month /\ used.changes < MaxChanges
  /\ ledger' = [ledger EXCEPT ![m] = @ + 1]
  /\ \E ready \in BOOLEAN : settled' = [settled EXCEPT ![m] = ready]
  /\ editor' = [editor EXCEPT ![e] = {m}]
  /\ Use("changes")
  /\ UNCHANGED <<month, reached, enabled, queue, marker, archive, uploader, missed,
                 begun>>

\* A flextime adjustment moves the balance of every month since.
Adjust(e, m) ==
  /\ editor[e] = {} /\ m <= month /\ used.changes < MaxChanges
  /\ ledger' = [ledger EXCEPT ![m] = @ + 1]
  /\ editor' = [editor EXCEPT ![e] = {k \in Months : m <= k /\ k <= month}]
  /\ Use("changes")
  /\ UNCHANGED <<month, reached, enabled, settled, queue, marker, archive, uploader, missed,
                 begun>>

\* Drafts keep a month from being ready and leave its document as it is.
Draft(m) ==
  /\ m <= month
  /\ settled' = [settled EXCEPT ![m] = ~@]
  /\ UNCHANGED <<month, reached, enabled, ledger, queue, marker, archive, uploader, editor,
                 missed, begun, used>>

\* Upload runs that took their snapshot of month m and have yet to delete its row.
InFlight(m) ==
  {u \in Uploaders : uploader[u].at \in {"upload", "delete"} /\ Min(uploader[u].left) = m}

\* requeue_export_for_dates: only for months that are over, and if enabled.
RequeueOlder(e, m) ==  \* mutant: takes the month just finished for a running one
  /\ m \in editor[e]
  /\ editor' = [editor EXCEPT ![e] = @ \ {m}]
  /\ queue' = IF enabled /\ m < month - 1 THEN queue \cup {m} ELSE queue
  /\ missed' = IF enabled THEN missed ELSE missed \cup {m}
  /\ UNCHANGED <<month, reached, enabled, ledger, settled, marker, archive, uploader, begun,
                 used>>

Requeue(e, m) ==
  /\ m \in editor[e]
  /\ editor' = [editor EXCEPT ![e] = @ \ {m}]
  /\ \/ /\ enabled /\ m < month
        /\ queue' = queue \cup {m}
        /\ missed' = IF InFlight(m) = {} THEN missed ELSE missed \cup {m}
        /\ UNCHANGED used
     \/ /\ enabled /\ m = month
        /\ UNCHANGED <<queue, missed, used>>
     \/ ~enabled /\ missed' = missed \cup {m} /\ UNCHANGED <<queue, used>>
     \/ Fault /\ missed' = missed \cup {m} /\ UNCHANGED queue
  /\ UNCHANGED <<month, reached, enabled, ledger, settled, marker, archive, uploader, begun>>

----------------------------------------------------------------------------
(* Upload runs                                                             *)

\* periods_to_backfill
BackfillTarget(last, target) == IF last = target THEN {} ELSE {target}  \* mutant: no backfill

Backfill(last, target) ==
  IF last = 0 THEN {target} ELSE {m \in Months : last < m /\ m <= target}

Goto(u, at) == uploader' = [uploader EXCEPT ![u].at = at]

\* The next row, or the end of the run.
NextRow(u) ==
  LET left == uploader[u].left \ {Min(uploader[u].left)}
  IN  uploader' = [uploader EXCEPT ![u] =
        IF left = {} THEN Idle ELSE [@ EXCEPT !.at = "check", !.left = left, !.doc = NoDoc]]

\* process_through_period: the month just finished waits for the upload day, unless
\* an admin asks for it.
Through(u) == IF u = "now" \/ reached THEN month - 1 ELSE month - 2

Populate(u) ==
  /\ uploader[u].at = "idle" /\ enabled /\ month > 1
  /\ LET target == month - 1
         periods == Backfill(marker, target)
     IN  /\ queue' = queue \cup periods
         /\ begun' = IF marker = 0 THEN target ELSE begun
         /\ uploader' = [uploader EXCEPT ![u] =
              [Idle EXCEPT !.at = IF periods = {} THEN "list" ELSE "mark",
                           !.target = target, !.through = Through(u)]]
  /\ UNCHANGED <<month, reached, enabled, ledger, settled, marker, archive, editor, missed,
                 used>>

Mark(u) ==
  /\ uploader[u].at = "mark"
  /\ marker' = uploader[u].target
  /\ Goto(u, "list")
  /\ UNCHANGED <<month, reached, enabled, ledger, settled, queue, archive, editor, missed,
                 begun, used>>

List(u) ==
  /\ uploader[u].at = "list"
  /\ LET left == {m \in queue : m <= uploader[u].through}
     IN  uploader' = [uploader EXCEPT ![u] =
           IF left = {} THEN Idle ELSE [@ EXCEPT !.at = "check", !.left = left]]
  /\ UNCHANGED <<month, reached, enabled, ledger, settled, queue, marker, archive, editor,
                 missed, begun, used>>

\* A month that is not ready keeps its row.
CheckStops(u) ==  \* mutant: a month that is not ready ends the run
  /\ uploader[u].at = "check"
  /\ IF settled[Min(uploader[u].left)] THEN Goto(u, "build")
     ELSE uploader' = [uploader EXCEPT ![u] = Idle]
  /\ UNCHANGED <<month, reached, enabled, ledger, settled, queue, marker, archive, editor,
                 missed, begun, used>>

Check(u) ==
  /\ uploader[u].at = "check"
  /\ IF settled[Min(uploader[u].left)] THEN Goto(u, "build") ELSE NextRow(u)
  /\ UNCHANGED <<month, reached, enabled, ledger, settled, queue, marker, archive, editor,
                 missed, begun, used>>

Build(u) ==
  /\ uploader[u].at = "build"
  /\ uploader' = [uploader EXCEPT ![u] =
       [@ EXCEPT !.at = "upload", !.doc = Doc(Min(uploader[u].left))]]
  /\ UNCHANGED <<month, reached, enabled, ledger, settled, queue, marker, archive, editor,
                 missed, begun, used>>

\* create_folder, upload_file; an upload that fails keeps the row.
Upload(u) ==
  /\ uploader[u].at = "upload"
  /\ \/ /\ archive' = [archive EXCEPT ![Min(uploader[u].left)] = uploader[u].doc]
        /\ Goto(u, "delete")
        /\ UNCHANGED used
     \/ Fault /\ NextRow(u) /\ UNCHANGED archive
  /\ UNCHANGED <<month, reached, enabled, ledger, settled, queue, marker, editor, missed,
                 begun>>

Delete(u) ==
  /\ uploader[u].at = "delete"
  /\ \/ queue' = queue \ {Min(uploader[u].left)} /\ UNCHANGED used
     \/ Fault /\ UNCHANGED queue
  /\ NextRow(u)
  /\ UNCHANGED <<month, reached, enabled, ledger, settled, marker, archive, editor, missed,
                 begun>>

----------------------------------------------------------------------------
(* The environment                                                         *)

NextMonth ==
  /\ month <= LastMonth
  /\ month' = month + 1 /\ reached' = FALSE
  /\ UNCHANGED <<enabled, ledger, settled, queue, marker, archive, uploader, editor, missed,
                 begun, used>>

UploadDay ==
  /\ ~reached
  /\ reached' = TRUE
  /\ UNCHANGED <<month, enabled, ledger, settled, queue, marker, archive, uploader, editor,
                 missed, begun, used>>

Configure ==
  /\ enabled' = ~enabled
  /\ UNCHANGED <<month, reached, ledger, settled, queue, marker, archive, uploader, editor,
                 missed, begun, used>>

\* Handlers and upload runs end with the process.
Restart ==
  /\ Fault
  /\ uploader' = [u \in Uploaders |-> Idle]
  /\ editor' = [e \in Editors |-> {}]
  /\ missed' = missed \cup UNION {editor[e] : e \in Editors}
  /\ UNCHANGED <<month, reached, enabled, ledger, settled, queue, marker, archive, begun>>

----------------------------------------------------------------------------
(* The specification                                                       *)

Init ==
  /\ month = 1 /\ reached = FALSE
  /\ enabled \in BOOLEAN
  /\ ledger = [m \in Months |-> 0]
  /\ settled = [m \in Months |-> TRUE]
  /\ queue = {} /\ marker = 0
  /\ archive = [m \in Months |-> NoDoc]
  /\ uploader = [u \in Uploaders |-> Idle]
  /\ editor = [e \in Editors |-> {}]
  /\ missed = {} /\ begun = 1
  /\ used = [changes |-> 0, faults |-> 0]

RunStep(u) ==
  Populate(u) \/ Mark(u) \/ List(u) \/ Check(u) \/ Build(u) \/ Upload(u) \/ Delete(u)

Edit(e) ==
  \E m \in Months : Change(e, m) \/ Adjust(e, m) \/ Requeue(e, m)

Next ==
  \/ \E e \in Editors : Edit(e)
  \/ \E m \in Months : Draft(m)
  \/ \E u \in Uploaders : RunStep(u)
  \/ NextMonth \/ UploadDay \/ Configure \/ Restart

\* The daily loop runs every day, days pass and handlers end; nobody has to press
\* "Upload now".
Fairness ==
  /\ WF_vars(RunStep("daily"))
  /\ WF_vars(UploadDay)
  /\ \A e \in Editors : WF_vars(\E m \in Months : Requeue(e, m))

Spec == Init /\ [][Next]_vars /\ Fairness

----------------------------------------------------------------------------
(* Properties                                                              *)

Steps == {"idle", "mark", "list", "check", "build", "upload", "delete"}

\* Rows are for months that are over, and a run holds a document just while it
\* uploads it.
TypeOK ==
  /\ month \in 1..LastMonth + 1 /\ reached \in BOOLEAN /\ enabled \in BOOLEAN
  /\ ledger \in [Months -> 0..MaxChanges] /\ settled \in [Months -> BOOLEAN]
  /\ queue \subseteq 1..month - 1
  /\ marker \in 0..month - 1
  /\ \A m \in Months : archive[m] = NoDoc \/ DOMAIN archive[m] = 1..m
  /\ \A u \in Uploaders :
       /\ uploader[u].at \in Steps /\ uploader[u].left \subseteq 1..month - 1
       /\ uploader[u].left # {} <=> uploader[u].at \in {"check", "build", "upload", "delete"}
       /\ uploader[u].doc # NoDoc <=> uploader[u].at \in {"upload", "delete"}
  /\ \A e \in Editors : editor[e] \subseteq 1..month
  /\ missed \subseteq Months /\ begun \in 1..month

\* Whether the archived document of month m shows the month as it was.
Stale(m) == archive[m] # NoDoc /\ archive[m][m] # ledger[m]

Editing(m) == \E e \in Editors : m \in editor[e]

\* An archived month that has changed since is queued, about to be queued, or one
\* whose requeue came to nothing: uploads are off, something failed, or the row it
\* found was that of an upload already under way.
StaleIsQueued ==
  \A m \in Months : Stale(m) => m \in queue \/ Editing(m) \/ m \in missed

\* From the month that was queued first, no month the marker has passed is skipped:
\* not when uploads were off for months or the server was down, nor when an upload an
\* admin asked for is overtaken by the daily one between its statements.  While no run
\* has set the marker, the next one begins anew, with the month it finds just finished.
NoMonthSkipped == \A m \in begun..marker : m \in queue \/ archive[m] # NoDoc

\* A queued month that stays ready is uploaded, whatever other months wait for.
ReadyIsUploaded ==
  \A m \in Months : []<>~(m \in queue /\ settled[m] /\ enabled)

=============================================================================
