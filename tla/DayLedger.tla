----------------------------- MODULE DayLedger -----------------------------
(***************************************************************************)
(* The ledger of one Zerf installation: the rows of time_entries and       *)
(* absences and every transaction that writes them                         *)
(* (backend/src/repository/time_entries.rs, repository/absences.rs,        *)
(* services/absences.rs, repository/reopen_requests.rs, services/users.rs).*)
(*                                                                         *)
(* Each action is one committed transaction.  That a transaction may be    *)
(* taken as one step is what DayLedgerTx shows: all of them but            *)
(* ClosePending first take the advisory lock of the rows' owner.           *)
(*                                                                         *)
(* For every operation Op the module has CanOp, the checks of the code     *)
(* that end in an error or in a skipped row, and DoOp, its writes.         *)
(***************************************************************************)
EXTENDS Integers

CONSTANTS
  Users,          \* users.id
  Admins,         \* users with role 'admin'
  Leads,          \* users for whom is_lead() holds: team leads and admins
  Trackers,       \* users with tracks_time
  AutoSubmitters, \* users with allow_submission_without_approval
  Approvers,      \* user_approvers: the approvers assigned to each user
  EntryIds,       \* ids of time entries (the bound on rows of time_entries)
  AbsenceIds,     \* ids of absences (the bound on rows of absences)
  Days,           \* calendar days, as integers
  Times,          \* times of day, as integers
  WeekOf,         \* the Monday's week of each day
  NoRow,          \* no row with this id
  NoUser          \* SQL NULL in a column that references a user

EntryStatus == {"draft", "submitted", "approved", "rejected"}

AbsenceStatus ==
  {"requested", "approved", "rejected", "cancelled", "cancellation_pending"}

Entry ==
  [user : Users, day : Days, start : Times, end : Times,
   status : EntryStatus, resolved : BOOLEAN, reviewer : Users \cup {NoUser}]

\* auto is the auto_approve_past flag of the absence's category, which is
\* fixed once an absence uses it (services/absence_categories.rs).
Absence ==
  [user : Users, from : Days, to : Days, auto : BOOLEAN, status : AbsenceStatus]

ASSUME UsersAssumption ==
  /\ Admins \subseteq Leads
  /\ Leads \subseteq Users
  /\ Trackers \subseteq Users
  /\ AutoSubmitters \subseteq Users
  /\ Approvers \in [Users -> SUBSET Users]
  /\ NoUser \notin Users

ASSUME CalendarAssumption ==
  /\ Days \subseteq Int
  /\ Times \subseteq Int

ASSUME NoRowAssumption == NoRow \notin Entry /\ NoRow \notin Absence

VARIABLES
  entries,   \* time_entries
  absences,  \* absences
  today      \* app_today: the current day in the configured time zone

vars == <<entries, absences, today>>

----------------------------------------------------------------------------
(* Reading the tables                                                      *)

Slot == [day : Days, start : Times, end : Times]

HasEntry(i) == entries[i] # NoRow
HasAbsence(a) == absences[a] # NoRow

SameDay(e, f) == e.user = f.user /\ e.day = f.day

Overlap(e, f) == e.start < f.end /\ f.start < e.end

Covers(ab, d) == ab.from <= d /\ d <= ab.to

\* REOPENABLE_TIME_ENTRY_CONDITION
Reopenable(e) ==
  \/ e.status \in {"submitted", "approved"}
  \/ e.status = "rejected" /\ ~e.resolved

\* The absences that count in assert_no_overlap_tx and in validate_entry.
Active(ab) == ab.status \in {"requested", "approved", "cancellation_pending"}

\* The absences no entry may be submitted or approved against
\* (validate_entries_do_not_overlap_blocking_absences).
Blocking(ab) == ab.status \in {"approved", "cancellation_pending"} /\ ~ab.auto

OnBlockingAbsence(e) ==
  \E a \in AbsenceIds :
    /\ HasAbsence(a)
    /\ absences[a].user = e.user
    /\ Blocking(absences[a])
    /\ Covers(absences[a], e.day)

\* check_direct_report_for_update, is_direct_report_for_update and the tests
\* on the requester in front of them.
MayReview(r, u) ==
  /\ r \in Leads
  /\ \/ r \in Admins
     \/ r # u /\ r \in Approvers[u] /\ u \notin Admins

\* validate_entry; id is the row being edited, which is not compared with
\* itself.
ValidEntry(u, slot, id) ==
  /\ slot.day <= today
  /\ slot.start < slot.end
  /\ \A j \in EntryIds \ {id} :
       HasEntry(j) /\ entries[j].user = u /\ entries[j].day = slot.day
         /\ entries[j].status # "rejected"
       => ~Overlap(slot, entries[j])
  /\ \A a \in AbsenceIds :
       HasAbsence(a) /\ absences[a].user = u /\ Active(absences[a])
         /\ ~absences[a].auto
       => ~Covers(absences[a], slot.day)

\* The two ways a statement writes a row of time_entries: its workflow columns
\* (status, rejection_resolved_at, reviewed_by) or its date and times.
SetReview(e, status, resolved, reviewer) ==
  [user |-> e.user, day |-> e.day, start |-> e.start, end |-> e.end,
   status |-> status, resolved |-> resolved, reviewer |-> reviewer]

SetSlot(e, slot) ==
  [user |-> e.user, day |-> slot.day, start |-> slot.start, end |-> slot.end,
   status |-> e.status, resolved |-> e.resolved, reviewer |-> e.reviewer]

\* A row put back to draft: review columns cleared.
AsDraft(e) == SetReview(e, "draft", FALSE, NoUser)

\* resolve_overlapping_rejected_entries_tx: the approved rows repl of table E
\* close the unresolved rejected rows of the same day they overlap.
ResolveRejected(E, repl) ==
  [i \in EntryIds |->
    IF /\ E[i] # NoRow
       /\ E[i].status = "rejected"
       /\ ~E[i].resolved
       /\ \E j \in repl : /\ j # i
                          /\ E[j].status = "approved"
                          /\ SameDay(E[i], E[j])
                          /\ Overlap(E[i], E[j])
    THEN SetReview(E[i], "rejected", TRUE, E[i].reviewer)
    ELSE E[i]]

----------------------------------------------------------------------------
(* Time entries                                                            *)

CanCreateEntry(u, i, slot) ==
  /\ u \in Trackers
  /\ ~HasEntry(i)
  /\ ValidEntry(u, slot, i)

DoCreateEntry(u, i, slot) ==
  /\ entries' = [entries EXCEPT ![i] =
       [user |-> u, day |-> slot.day, start |-> slot.start, end |-> slot.end,
        status |-> "draft", resolved |-> FALSE, reviewer |-> NoUser]]
  /\ UNCHANGED <<absences, today>>

CreateEntry(u, i, slot) == CanCreateEntry(u, i, slot) /\ DoCreateEntry(u, i, slot)

\* The owner edits a draft; an admin corrects another user's submitted or
\* approved entry, which keeps its status.
AdminCorrection(r, i) ==
  /\ r \in Admins
  /\ entries[i].user # r
  /\ entries[i].status \in {"approved", "submitted"}

CanUpdateEntry(r, i, slot) ==
  /\ HasEntry(i)
  /\ entries[i].user \in Trackers
  /\ \/ AdminCorrection(r, i)
     \/ entries[i].user = r /\ entries[i].status = "draft"
  /\ ValidEntry(entries[i].user, slot, i)

DoUpdateEntryUnresolved(r, i, slot) ==  \* mutant: rejections under it stay open
  /\ entries' = [entries EXCEPT ![i] = SetSlot(entries[i], slot)]
  /\ UNCHANGED <<absences, today>>

DoUpdateEntry(r, i, slot) ==
  LET moved == [entries EXCEPT ![i] = SetSlot(entries[i], slot)]
  IN  /\ entries' = IF entries[i].status = "approved"
                    THEN ResolveRejected(moved, {i})
                    ELSE moved
      /\ UNCHANGED <<absences, today>>

UpdateEntry(r, i, slot) == CanUpdateEntry(r, i, slot) /\ DoUpdateEntry(r, i, slot)

\* The owner, or an admin for another user, deletes a draft.
CanDeleteEntry(r, i) ==
  /\ HasEntry(i)
  /\ IF entries[i].user = r THEN r \in Trackers ELSE r \in Admins
  /\ entries[i].status = "draft"

DoDeleteEntry(r, i) ==
  entries' = [entries EXCEPT ![i] = NoRow] /\ UNCHANGED <<absences, today>>

DeleteEntry(r, i) == CanDeleteEntry(r, i) /\ DoDeleteEntry(r, i)

\* The rows of a submitted batch that are still drafts of the submitter.
DraftsOf(u, ids) ==
  {i \in ids : HasEntry(i) /\ entries[i].user = u /\ entries[i].status = "draft"}

CanSubmitBatch(u, ids) ==
  /\ u \in Trackers
  /\ \A i \in ids : HasEntry(i) => entries[i].user = u
  /\ DraftsOf(u, ids) # {}
  /\ \A i \in DraftsOf(u, ids) : ~OnBlockingAbsence(entries[i])

DoSubmitBatch(u, ids) ==
  /\ entries' = [i \in EntryIds |->
       IF i \in DraftsOf(u, ids)
       THEN SetReview(entries[i], "submitted", entries[i].resolved, entries[i].reviewer)
       ELSE entries[i]]
  /\ UNCHANGED <<absences, today>>

SubmitBatch(u, ids) ==
  u \notin AutoSubmitters /\ CanSubmitBatch(u, ids) /\ DoSubmitBatch(u, ids)

DoSubmitBatchAutoApproved(u, ids) ==
  LET approved == DraftsOf(u, ids)
      E == [i \in EntryIds |->
             IF i \in approved
             THEN SetReview(entries[i], "approved", entries[i].resolved, u)
             ELSE entries[i]]
  IN  entries' = ResolveRejected(E, approved) /\ UNCHANGED <<absences, today>>

SubmitBatchAutoApproved(u, ids) ==
  /\ u \in AutoSubmitters
  /\ CanSubmitBatch(u, ids)
  /\ DoSubmitBatchAutoApproved(u, ids)

\* The rows a batch decision by r applies to; the others are skipped.
Reviewable(r, ids) ==
  {i \in ids : /\ HasEntry(i)
               /\ entries[i].status = "submitted"
               /\ MayReview(r, entries[i].user)}

CanBatchApprove(r, ids) ==
  /\ Reviewable(r, ids) # {}
  /\ \A i \in Reviewable(r, ids) : ~OnBlockingAbsence(entries[i])

DoBatchApprove(r, ids) ==
  LET approved == Reviewable(r, ids)
      E == [i \in EntryIds |->
             IF i \in approved
             THEN SetReview(entries[i], "approved", entries[i].resolved, r)
             ELSE entries[i]]
  IN  entries' = ResolveRejected(E, approved) /\ UNCHANGED <<absences, today>>

BatchApprove(r, ids) == CanBatchApprove(r, ids) /\ DoBatchApprove(r, ids)

CanBatchReject(r, ids) == Reviewable(r, ids) # {}

DoBatchReject(r, ids) ==
  /\ entries' = [i \in EntryIds |->
       IF i \in Reviewable(r, ids)
       THEN SetReview(entries[i], "rejected", FALSE, r)
       ELSE entries[i]]
  /\ UNCHANGED <<absences, today>>

BatchReject(r, ids) == CanBatchReject(r, ids) /\ DoBatchReject(r, ids)

\* The rows of week w that perform_reopen puts back to draft.
ReopenTargets(u, w) ==
  {i \in EntryIds : /\ HasEntry(i)
                    /\ entries[i].user = u
                    /\ WeekOf[entries[i].day] = w
                    /\ Reopenable(entries[i])}

\* validate_entries_after_reopen: on the days of the targets, the targets and
\* the rows that are not rejected do not overlap.
ValidAfterReopenOfLive(u, targets) ==  \* mutant: revived rejections do not count
  LET kept == {i \in EntryIds :
                 HasEntry(i) /\ entries[i].user = u /\ entries[i].status # "rejected"}
  IN  \A i, j \in kept : i # j /\ entries[i].day = entries[j].day
                         => ~Overlap(entries[i], entries[j])

ValidAfterReopen(u, targets) ==
  LET kept == {i \in EntryIds :
                 /\ HasEntry(i)
                 /\ entries[i].user = u
                 /\ \E t \in targets : entries[t].day = entries[i].day
                 /\ entries[i].status # "rejected" \/ i \in targets}
  IN  \A i, j \in kept : i # j /\ entries[i].day = entries[j].day
                         => ~Overlap(entries[i], entries[j])

CanPerformReopen(u, w) ==
  /\ ReopenTargets(u, w) # {}
  /\ ValidAfterReopen(u, ReopenTargets(u, w))

DoPerformReopen(u, w) ==
  /\ entries' = [i \in EntryIds |->
       IF i \in ReopenTargets(u, w) THEN AsDraft(entries[i]) ELSE entries[i]]
  /\ UNCHANGED <<absences, today>>

PerformReopen(u, w) == CanPerformReopen(u, w) /\ DoPerformReopen(u, w)

----------------------------------------------------------------------------
(* Absences                                                                *)

\* A written row of absences keeps its owner and its category.
SetAbsence(ab, from, to, status) ==
  [user |-> ab.user, from |-> from, to |-> to, auto |-> ab.auto, status |-> status]

WithStatus(ab, status) == SetAbsence(ab, ab.from, ab.to, status)

\* create_absence and update_absence: approved at once when the category
\* auto-approves and the absence has begun by the day asOf.
InitialStatus(auto, from, asOf) ==
  IF auto /\ from <= asOf THEN "approved" ELSE "requested"

\* assert_no_overlap_tx; a is the row being edited.
NoAbsenceOverlap(u, from, to, a) ==
  \A b \in AbsenceIds \ {a} :
    HasAbsence(b) /\ absences[b].user = u /\ Active(absences[b])
    => ~(absences[b].to >= from /\ absences[b].from <= to)

\* asOf is app_today as the handler read it, before it waited for the lock:
\* midnight may have passed since.
CanCreateAbsence(u, a, auto, from, to) ==
  /\ u \in Trackers
  /\ ~HasAbsence(a)
  /\ from <= to
  /\ NoAbsenceOverlap(u, from, to, a)

DoCreateAbsence(u, a, auto, from, to, asOf) ==
  /\ absences' = [absences EXCEPT ![a] =
       [user |-> u, from |-> from, to |-> to, auto |-> auto,
        status |-> InitialStatus(auto, from, asOf)]]
  /\ UNCHANGED <<entries, today>>

CreateAbsence(u, a, auto, from, to, asOf) ==
  /\ asOf <= today
  /\ CanCreateAbsence(u, a, auto, from, to)
  /\ DoCreateAbsence(u, a, auto, from, to, asOf)

CanUpdateAbsence(u, a, from, to) ==
  /\ u \in Trackers
  /\ HasAbsence(a)
  /\ absences[a].user = u
  /\ absences[a].status = "requested"
  /\ from <= to
  /\ NoAbsenceOverlap(u, from, to, a)

DoUpdateAbsence(u, a, from, to, asOf) ==
  /\ absences' = [absences EXCEPT ![a] =
       SetAbsence(@, from, to, InitialStatus(absences[a].auto, from, asOf))]
  /\ UNCHANGED <<entries, today>>

UpdateAbsence(u, a, from, to, asOf) ==
  /\ asOf <= today
  /\ CanUpdateAbsence(u, a, from, to)
  /\ DoUpdateAbsence(u, a, from, to, asOf)

SetStatus(a, s) ==
  /\ absences' = [absences EXCEPT ![a] = WithStatus(@, s)]
  /\ UNCHANGED <<entries, today>>

CanCancelAbsence(u, a) ==
  /\ u \in Trackers
  /\ HasAbsence(a)
  /\ absences[a].user = u
  /\ absences[a].status \in {"requested", "approved"}

DoCancelAbsence(u, a) ==
  SetStatus(a, IF absences[a].status = "requested" THEN "cancelled"
                                                   ELSE "cancellation_pending")

CancelAbsence(u, a) == CanCancelAbsence(u, a) /\ DoCancelAbsence(u, a)

CanReviewAbsence(r, a, s) ==
  /\ HasAbsence(a)
  /\ MayReview(r, absences[a].user)
  /\ absences[a].status = s

\* ensure_no_time_conflict_tx
NoTimeConflictWithApproved(ab) ==  \* mutant: submitted entries do not count
  \/ ab.auto
  \/ \A i \in EntryIds :
       HasEntry(i) /\ entries[i].user = ab.user /\ entries[i].status = "approved"
       => ~Covers(ab, entries[i].day)

NoTimeConflict(ab) ==
  \/ ab.auto
  \/ \A i \in EntryIds :
       HasEntry(i) /\ entries[i].user = ab.user /\ entries[i].status # "rejected"
       => ~Covers(ab, entries[i].day)

CanApproveAbsence(r, a) ==
  CanReviewAbsence(r, a, "requested") /\ NoTimeConflict(absences[a])

ApproveAbsence(r, a) == CanApproveAbsence(r, a) /\ SetStatus(a, "approved")

RejectAbsence(r, a) == CanReviewAbsence(r, a, "requested") /\ SetStatus(a, "rejected")

ApproveCancellation(r, a) ==
  CanReviewAbsence(r, a, "cancellation_pending") /\ SetStatus(a, "cancelled")

RejectCancellation(r, a) ==
  CanReviewAbsence(r, a, "cancellation_pending") /\ SetStatus(a, "approved")

CanRevokeAbsence(r, a) ==
  r \in Admins /\ HasAbsence(a) /\ absences[a].status = "approved"

RevokeAbsence(r, a) == CanRevokeAbsence(r, a) /\ SetStatus(a, "cancelled")

----------------------------------------------------------------------------
(* A user is archived or stops tracking time, and the day changes          *)

\* The rows that wait for somebody's decision.
PendingEntries(u) ==
  {i \in EntryIds : HasEntry(i) /\ entries[i].user = u /\ entries[i].status = "submitted"}

PendingAbsences(u) ==
  {a \in AbsenceIds : /\ HasAbsence(a)
                      /\ absences[a].user = u
                      /\ absences[a].status \in {"requested", "cancellation_pending"}}

\* revert_submitted_to_draft_tx and AbsenceDb::reject_pending_for_user_tx, run
\* together by archive, archive_assistant and close_pending_for_user_tx.  They
\* do not take the owner's lock: ids and as are the rows their statements find,
\* which may miss rows that another transaction is just writing.
DoClosePending(u, ids, as) ==
  /\ entries' = [i \in EntryIds |-> IF i \in ids THEN AsDraft(entries[i]) ELSE entries[i]]
  /\ absences' = [a \in AbsenceIds |->
       IF a \notin as THEN absences[a]
       ELSE IF absences[a].status = "requested"
            THEN WithStatus(absences[a], "rejected")
            ELSE WithStatus(absences[a], "approved")]
  /\ UNCHANGED today

ClosePending(u, ids, as) ==
  /\ ids \subseteq PendingEntries(u)
  /\ as \subseteq PendingAbsences(u)
  /\ DoClosePending(u, ids, as)

NextDay ==
  /\ today + 1 \in Days
  /\ today' = today + 1
  /\ UNCHANGED <<entries, absences>>

----------------------------------------------------------------------------
(* The specification                                                       *)

Init ==
  /\ entries = [i \in EntryIds |-> NoRow]
  /\ absences = [a \in AbsenceIds |-> NoRow]
  /\ today \in Days

EntryStep ==
  \/ \E u \in Users, i \in EntryIds, slot \in Slot :
       CreateEntry(u, i, slot) \/ UpdateEntry(u, i, slot)
  \/ \E u \in Users, i \in EntryIds : DeleteEntry(u, i)
  \/ \E u \in Users, ids \in SUBSET EntryIds :
       \/ SubmitBatch(u, ids)
       \/ SubmitBatchAutoApproved(u, ids)
       \/ BatchApprove(u, ids)
       \/ BatchReject(u, ids)
  \/ \E u \in Users, d \in Days : PerformReopen(u, WeekOf[d])

AbsenceStep ==
  \/ \E u \in Users, a \in AbsenceIds, from, to, asOf \in Days :
       \/ \E auto \in BOOLEAN : CreateAbsence(u, a, auto, from, to, asOf)
       \/ UpdateAbsence(u, a, from, to, asOf)
  \/ \E u \in Users, a \in AbsenceIds :
       \/ CancelAbsence(u, a)
       \/ ApproveAbsence(u, a)
       \/ RejectAbsence(u, a)
       \/ ApproveCancellation(u, a)
       \/ RejectCancellation(u, a)
       \/ RevokeAbsence(u, a)

Next ==
  \/ EntryStep
  \/ AbsenceStep
  \/ \E u \in Users, ids \in SUBSET EntryIds, as \in SUBSET AbsenceIds :
       ClosePending(u, ids, as)
  \/ NextDay

Spec == Init /\ [][Next]_vars

----------------------------------------------------------------------------
(* Properties                                                              *)

\* The rows are well-formed: every entry has a positive length, every absence
\* covers at least a day, and only a rejected entry can be marked resolved.
TypeOK ==
  /\ entries \in [EntryIds -> Entry \cup {NoRow}]
  /\ absences \in [AbsenceIds -> Absence \cup {NoRow}]
  /\ today \in Days
  /\ \A i \in EntryIds : HasEntry(i) =>
       /\ entries[i].start < entries[i].end
       /\ entries[i].resolved => entries[i].status = "rejected"
  /\ \A a \in AbsenceIds : HasAbsence(a) => absences[a].from <= absences[a].to

\* No minute of a user's day is booked twice: entries that are not rejected
\* never overlap, whatever sequence of edits, rejections and week reopenings
\* produced them (validate_entry, validate_entries_after_reopen).
NoDoubleBooking ==
  \A i, j \in EntryIds :
    /\ i # j
    /\ HasEntry(i) /\ HasEntry(j)
    /\ entries[i].status # "rejected" /\ entries[j].status # "rejected"
    /\ SameDay(entries[i], entries[j])
    => ~Overlap(entries[i], entries[j])

\* Work that counts and a confirmed absence never share a day: neither
\* submitting, approving, correcting nor reopening entries, nor deciding on
\* absences or their cancellation, brings a submitted or approved entry onto a
\* day of an approved absence of a reviewed category.
NoWorkOnAbsence ==
  \A i \in EntryIds :
    HasEntry(i) /\ entries[i].status \in {"submitted", "approved"}
    => ~OnBlockingAbsence(entries[i])

\* Two absences of a user that are requested, approved or waiting for their
\* cancellation never share a day (assert_no_overlap_tx).
AbsencesDisjoint ==
  \A a, b \in AbsenceIds :
    /\ a # b
    /\ HasAbsence(a) /\ HasAbsence(b)
    /\ absences[a].user = absences[b].user
    /\ Active(absences[a]) /\ Active(absences[b])
    => absences[a].to < absences[b].from \/ absences[b].to < absences[a].from

\* A rejected entry stays open exactly until an approved entry replaces it: no
\* unresolved rejected entry overlaps an approved entry of the same day, so a
\* corrected week is never held incomplete by the row it corrected
\* (resolve_overlapping_rejected_entries_tx).
ReplacedRejectionsResolved ==
  \A i, j \in EntryIds :
    /\ HasEntry(i) /\ HasEntry(j)
    /\ entries[i].status = "rejected" /\ entries[j].status = "approved"
    /\ SameDay(entries[i], entries[j])
    /\ Overlap(entries[i], entries[j])
    => entries[i].resolved

\* Every decision on record was made by someone entitled to it: a reviewed
\* entry names an admin, an assigned approver other than its owner, or, when
\* approved on submission, the owner who may submit without approval.
ReviewedByEntitled ==
  \A i \in EntryIds :
    HasEntry(i) =>
      IF entries[i].status \in {"approved", "rejected"}
      THEN \/ MayReview(entries[i].reviewer, entries[i].user)
           \/ /\ entries[i].status = "approved"
              /\ entries[i].reviewer = entries[i].user
              /\ entries[i].user \in AutoSubmitters
      ELSE entries[i].reviewer = NoUser

\* The entries that keep absence a from being approved.
Conflicts(a) ==
  {i \in EntryIds : /\ HasEntry(i)
                    /\ entries[i].user = absences[a].user
                    /\ entries[i].status # "rejected"
                    /\ Covers(absences[a], entries[i].day)}

\* A step that adds no entry to the conflicts of a requested absence, or that
\* reopens a week.
AddsNoConflict ==
  \A a \in AbsenceIds :
    /\ HasAbsence(a)
    /\ absences[a].status = "requested"
    /\ ~absences[a].auto
    /\ absences'[a] = absences[a]
    => \/ Conflicts(a)' \subseteq Conflicts(a)
       \/ \E u \in Users, d \in Days : PerformReopen(u, WeekOf[d])

\* While a reviewed absence is requested and not edited, no step adds an entry
\* that would block its approval, except a week reopening, which may bring
\* rejected entries back (validate_entry refuses new and moved entries on the
\* days of a requested absence for this reason).
NoNewConflict == [][AddsNoConflict]_vars

\* A step that leaves decided absences decided.
KeepsDecisions ==
  \A a \in AbsenceIds :
    HasAbsence(a) =>
      /\ absences[a].status \in {"rejected", "cancelled"} => absences'[a] = absences[a]
      /\ absences[a].status \in {"approved", "cancellation_pending"} =>
           /\ absences'[a].status \in {"approved", "cancellation_pending", "cancelled"}
           /\ absences'[a].from = absences[a].from
           /\ absences'[a].to = absences[a].to

\* Rejected and cancelled absences are final, and an absence once approved is
\* never rejected, requested anew or moved, also when its owner is archived or
\* edits it: the only way out is its cancellation.
AbsenceLifecycle == [][KeepsDecisions]_vars
=============================================================================
