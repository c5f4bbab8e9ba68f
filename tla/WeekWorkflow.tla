---------------------------- MODULE WeekWorkflow ----------------------------
(***************************************************************************)
(* One week of one employee: submitting it, deciding on it, asking to edit *)
(* it again (a reopen request), and the notices this leaves in the         *)
(* approvers' queue.  Every handler is several steps: transactions, which  *)
(* are atomic (DayLedgerTx), with unlocked reads before and best-effort    *)
(* clean-up after them, so handlers of the employee's browser tabs and of  *)
(* the approvers interleave between the steps.                             *)
(*                                                                         *)
(* A rejected entry is one still open to correction; one that a correction *)
(* has closed takes no part in the workflow.                               *)
(***************************************************************************)
EXTENDS Naturals, FiniteSets

CONSTANTS
  Entries,    \* ids of the week's time entries
  Requests,   \* ids of reopen requests
  Handlers,   \* HTTP handlers in progress
  NoRequest,
  Submission, \* the notice that the week was submitted (timesheet_submission:<week>)
  AutoReopen, \* the values allow_reopen_without_approval takes for the employee
  MayRestart  \* whether the server restarts and forgets handlers in progress

ASSUME WorkflowAssumption ==
  /\ AutoReopen \subseteq BOOLEAN
  /\ MayRestart \in BOOLEAN
  /\ NoRequest \notin Requests
  /\ Submission \notin Requests

VARIABLES
  status,  \* of each entry; "none" when there is no such row
  request, \* the status of each reopen request of the week
  unread,  \* notices not read: Submission, or the request they ask to review
  handler  \* what each handler does next, and what it has read so far

vars == <<status, request, unread, handler>>

EntryStates == {"none", "draft", "submitted", "approved", "rejected"}
Decided == {"approved", "rejected", "auto_approved"}
RequestStates == {"none", "pending"} \cup Decided

----------------------------------------------------------------------------
(* Reading the week                                                        *)

With(s) == {i \in Entries : status[i] = s}

\* REOPENABLE_TIME_ENTRY_CONDITION
Reopenable == {i \in Entries : status[i] \in {"submitted", "approved", "rejected"}}

Pending == {r \in Requests : request[r] = "pending"}

\* list_pending_admin and list_pending_for_lead: a request does not show while
\* the week waits for its approval.
ListedWithoutDrafts(r) ==  \* mutant: drafts hide the request as well
  r \in Pending /\ With("submitted") = {} /\ With("draft") = {}

Listed(r) == r \in Pending /\ With("submitted") = {}

----------------------------------------------------------------------------
(* The steps of a handler                                                  *)

Step(at, reopenable, submitted, about) ==
  [at |-> at, reopenable |-> reopenable, submitted |-> submitted, about |-> about]

\* The two steps about a request know which one; no other step does.
WellFormed(step) ==
  IF step.at \in {"clear_request", "notify_request"}
  THEN step.about \in Requests
  ELSE step.about = NoRequest

Idle == Step("idle", 0, 0, NoRequest)

At(h, at) == handler[h].at = at

Goto(h, at) == handler' = [handler EXCEPT ![h] = Step(at, 0, 0, NoRequest)]

GotoAbout(h, at, r) == handler' = [handler EXCEPT ![h] = Step(at, 0, 0, r)]

Finish(h) == handler' = [handler EXCEPT ![h] = Idle]

SetEntries(ids, s) == status' = [i \in Entries |-> IF i \in ids THEN s ELSE status[i]]

----------------------------------------------------------------------------
(* The employee edits and submits                                          *)

CreateDraft(i) ==
  /\ status[i] = "none"
  /\ SetEntries({i}, "draft")
  /\ UNCHANGED <<request, unread, handler>>

DeleteDraft(i) ==
  /\ status[i] = "draft"
  /\ SetEntries({i}, "none")
  /\ UNCHANGED <<request, unread, handler>>

Submit(h, ids) ==
  /\ At(h, "idle")
  /\ ids # {} /\ ids \subseteq With("draft")
  /\ SetEntries(ids, "submitted")
  /\ Goto(h, "notify")
  /\ UNCHANGED <<request, unread>>

NotifySubmitted(h) ==
  /\ At(h, "notify")
  /\ unread' = unread \cup {Submission}
  /\ Goto(h, "cancel_zombie")
  /\ UNCHANGED <<status, request>>

\* reject_pending_for_week: the submission supersedes a pending request.
CancelZombie(h) ==
  /\ At(h, "cancel_zombie")
  /\ IF Pending = {}
     THEN Finish(h) /\ UNCHANGED request
     ELSE \E r \in Pending :
            /\ request' = [request EXCEPT ![r] = "rejected"]
            /\ GotoAbout(h, "clear_request", r)
  /\ UNCHANGED <<status, unread>>

\* clear_pending_for_reference of a request that was decided.
ClearRequest(h) ==
  /\ At(h, "clear_request")
  /\ unread' = unread \ {handler[h].about}
  /\ Finish(h)
  /\ UNCHANGED <<status, request>>

----------------------------------------------------------------------------
(* The employee asks to edit the week                                      *)

CountReopenable(h) ==
  /\ At(h, "idle")
  /\ Reopenable # {}
  /\ handler' = [handler EXCEPT ![h] =
       Step("count_submitted", Cardinality(Reopenable), 0, NoRequest)]
  /\ UNCHANGED <<status, request, unread>>

CountSubmitted(h) ==
  /\ At(h, "count_submitted")
  /\ handler' = [handler EXCEPT ![h] =
       Step("find_pending", handler[h].reopenable, Cardinality(With("submitted")), NoRequest)]
  /\ UNCHANGED <<status, request, unread>>

\* A request is pending already, or the week is partly submitted: refused.  auto
\* is the setting as it was when the employee was authenticated.
FindPending(h, auto) ==
  LET read == handler[h]
  IN  /\ At(h, "find_pending")
      /\ handler' = [handler EXCEPT ![h] =
           IF Pending # {} THEN Idle
           ELSE IF auto THEN Step("reopen", 0, 0, NoRequest)
           ELSE IF read.submitted = read.reopenable THEN Step("reopen_submitted", 0, 0, NoRequest)
           ELSE IF read.submitted > 0 THEN Idle
           ELSE Step("insert_pending", 0, 0, NoRequest)]
      /\ UNCHANGED <<status, request, unread>>

\* insert_auto_approved
ReopenAtOnce(h) ==
  /\ At(h, "reopen")
  /\ IF Reopenable = {}
     THEN Finish(h) /\ UNCHANGED <<status, request>>
     ELSE \E r \in Requests :
            /\ request[r] = "none"
            /\ request' = [request EXCEPT ![r] = "auto_approved"]
            /\ SetEntries(Reopenable, "draft")
            /\ Goto(h, "check_submitted")
  /\ UNCHANGED unread

\* insert_auto_approved_if_all_reopenable_are_submitted: looks again under the
\* owner's lock, because an approver may have acted since the counts.
ReopenSubmittedUnseen(h) ==  \* mutant: relies on the counts
  /\ At(h, "reopen_submitted")
  /\ IF Reopenable = {}
     THEN Finish(h) /\ UNCHANGED <<status, request>>
     ELSE \E r \in Requests :
            /\ request[r] = "none"
            /\ request' = [request EXCEPT ![r] = "auto_approved"]
            /\ SetEntries(Reopenable, "draft")
            /\ Goto(h, "check_submitted")
  /\ UNCHANGED unread

ReopenSubmitted(h) ==
  /\ At(h, "reopen_submitted")
  /\ IF Reopenable = {} \/ Reopenable # With("submitted")
     THEN Finish(h) /\ UNCHANGED <<status, request>>
     ELSE \E r \in Requests :
            /\ request[r] = "none"
            /\ request' = [request EXCEPT ![r] = "auto_approved"]
            /\ SetEntries(Reopenable, "draft")
            /\ Goto(h, "check_submitted")
  /\ UNCHANGED unread

\* insert_pending; the unique index idx_reopen_requests_pending_unique allows
\* one pending request of a week.
InsertPending(h) ==
  /\ At(h, "insert_pending")
  /\ IF Pending # {}
     THEN Finish(h) /\ UNCHANGED request
     ELSE \E r \in Requests :
            /\ request[r] = "none"
            /\ request' = [request EXCEPT ![r] = "pending"]
            /\ GotoAbout(h, "notify_request", r)
  /\ UNCHANGED <<status, unread>>

NotifyRequest(h) ==
  /\ At(h, "notify_request")
  /\ unread' = unread \cup {handler[h].about}
  /\ Finish(h)
  /\ UNCHANGED <<status, request>>

----------------------------------------------------------------------------
(* The approvers decide                                                    *)

\* batch_approve and batch_reject
DecideEntries(h, ids, s) ==
  /\ At(h, "idle")
  /\ ids # {} /\ ids \subseteq With("submitted")
  /\ SetEntries(ids, s)
  /\ Goto(h, "check_submitted")
  /\ UNCHANGED <<request, unread>>

\* clear_submission_pending_for_weeks: the notice is marked read if nothing of
\* the week waits any more, by a read and a later write.
CheckSubmitted(h) ==
  /\ At(h, "check_submitted")
  /\ IF With("submitted") = {} THEN Goto(h, "clear_submission") ELSE Finish(h)
  /\ UNCHANGED <<status, request, unread>>

ClearSubmission(h) ==
  /\ At(h, "clear_submission")
  /\ unread' = unread \ {Submission}
  /\ Finish(h)
  /\ UNCHANGED <<status, request>>

\* approve_with_access_check
ApproveReopen(h, r) ==
  /\ At(h, "idle")
  /\ r \in Pending
  /\ Reopenable # {}
  /\ SetEntries(Reopenable, "draft")
  /\ request' = [request EXCEPT ![r] = "approved"]
  /\ GotoAbout(h, "clear_request", r)
  /\ UNCHANGED unread

\* reject_with_access_check
RejectReopen(h, r) ==
  /\ At(h, "idle")
  /\ r \in Pending
  /\ request' = [request EXCEPT ![r] = "rejected"]
  /\ GotoAbout(h, "clear_request", r)
  /\ UNCHANGED <<status, unread>>

\* An approver opens a notice.
ReadNotice(n) ==
  /\ n \in unread
  /\ unread' = unread \ {n}
  /\ UNCHANGED <<status, request, handler>>

\* cleanup_old deletes requests decided long ago, whose handlers are done.  The
\* next request gets a new id; the model uses r again and forgets its notice.
CleanUp(r) ==
  /\ request[r] \in Decided
  /\ \A h \in Handlers : handler[h].about # r
  /\ request' = [request EXCEPT ![r] = "none"]
  /\ unread' = unread \ {r}
  /\ UNCHANGED <<status, handler>>

Restart ==
  /\ MayRestart
  /\ handler' = [h \in Handlers |-> Idle]
  /\ UNCHANGED <<status, request, unread>>

----------------------------------------------------------------------------
(* The specification                                                       *)

Init ==
  /\ status = [i \in Entries |-> "none"]
  /\ request = [r \in Requests |-> "none"]
  /\ unread = {}
  /\ handler = [h \in Handlers |-> Idle]

\* The steps a handler takes by itself once it has begun.
Continue(h) ==
  \/ NotifySubmitted(h)
  \/ CancelZombie(h)
  \/ ClearRequest(h)
  \/ CountSubmitted(h)
  \/ \E auto \in AutoReopen : FindPending(h, auto)
  \/ ReopenAtOnce(h)
  \/ ReopenSubmitted(h)
  \/ InsertPending(h)
  \/ NotifyRequest(h)
  \/ CheckSubmitted(h)
  \/ ClearSubmission(h)

Next ==
  \/ \E i \in Entries : CreateDraft(i) \/ DeleteDraft(i)
  \/ \E h \in Handlers :
       \/ \E ids \in SUBSET Entries :
            \/ Submit(h, ids)
            \/ \E s \in {"approved", "rejected"} : DecideEntries(h, ids, s)
       \/ CountReopenable(h)
       \/ \E r \in Requests : ApproveReopen(h, r) \/ RejectReopen(h, r)
       \/ Continue(h)
  \/ \E n \in unread : ReadNotice(n)
  \/ \E r \in Requests : CleanUp(r)
  \/ Restart

\* Handlers run on, and approvers get to what their queue shows: submitted
\* entries and listed requests (approval_reminders.rs reminds them weekly).
Fairness ==
  /\ \A h \in Handlers : WF_vars(Continue(h))
  /\ SF_vars(\E h \in Handlers, s \in {"approved", "rejected"} :
               DecideEntries(h, With("submitted"), s))
  /\ SF_vars(\E h \in Handlers, r \in Requests :
               Listed(r) /\ (ApproveReopen(h, r) \/ RejectReopen(h, r)))

Spec == Init /\ [][Next]_vars /\ Fairness

----------------------------------------------------------------------------
(* Properties                                                              *)

\* Rows and handlers are well-formed: a handler that speaks of a request does
\* so in a step about one.
TypeOK ==
  /\ status \in [Entries -> EntryStates]
  /\ request \in [Requests -> RequestStates]
  /\ unread \subseteq Requests \cup {Submission}
  /\ DOMAIN handler = Handlers
  /\ \A h \in Handlers : WellFormed(handler[h])

\* A week never has two pending requests, although two tabs may both have found
\* none before they insert theirs.
OnePending == \A r, s \in Pending : r = s

\* A step that takes an approved entry back to draft approves a request, or ends
\* a handler that found its sender free to reopen.
ReopensByConsent ==
  (\E i \in Entries : status[i] = "approved" /\ status'[i] = "draft")
    => \/ \E r \in Pending : request'[r] = "approved"
       \/ \E h \in Handlers : At(h, "reopen") /\ ~At(h, "reopen")'

\* Work an approver has approved only becomes editable again when a request for
\* it is approved, or the employee may reopen at will: not by asking to edit a
\* submitted week while an approver approves it.
ReopenNeedsConsent == [][ReopensByConsent]_vars

\* A step that leaves decided requests decided.
KeepsDecided ==
  \A r \in Requests : request[r] \in Decided => request'[r] \in {request[r], "none"}

\* A request is decided once: an approver's decision and the cancellation by a
\* new submission never overwrite each other.
RequestsFinal == [][KeepsDecided]_vars

\* Again and again the week has no pending request: as there is one at a time,
\* each is decided or superseded in the end, also one that a submission has
\* hidden from the approvers' list.
PendingDecided == []<>(Pending = {})

=============================================================================
