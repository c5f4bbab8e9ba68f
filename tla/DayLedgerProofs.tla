-------------------------- MODULE DayLedgerProofs --------------------------
(***************************************************************************)
(* Proofs about the ledger, for any number of users, requests, rows, days  *)
(* and times, in three parts.                                              *)
(*                                                                         *)
(* DayLedger keeps its rows well-formed and consistent.  Inv is inductive: *)
(* only ReplacedRejectionsResolved leans on another conjunct,              *)
(* NoDoubleBooking, which shows that an entry being rejected overlaps no   *)
(* approved one.                                                           *)
(*                                                                         *)
(* The transactions of DayLedgerTx implement DayLedger.                    *)
(* A request checks when it holds its locks and writes when it commits, so *)
(* what has to be shown is that its checks still pass then.  OpInv says    *)
(* they always do; it is inductive because another request commits only to *)
(* rows of other owners, whose locks it holds, and archiving, which takes  *)
(* no lock, only puts submitted entries back to draft and settles pending  *)
(* absences, neither of them rows of the operation: no check of an         *)
(* operation tells these states of other rows apart.                       *)
(*                                                                         *)
(* WorkDay books no more work in a row than its guard allows.  The guard   *)
(* looks at one entry and the others of its day, and others are deleted,   *)
(* rejected or booked later.  Guarded is inductive because it is about     *)
(* every part of the work that one limit was asked about.                  *)
(* What the work is credited is a matter of one state without overlaps.    *)
(***************************************************************************)
EXTENDS DayLedgerTx, MCDayLedger, FiniteSetTheorems, WellFoundedInduction, TLAPS

Inv ==
  /\ TypeOK
  /\ NoDoubleBooking
  /\ NoWorkOnAbsence
  /\ AbsencesDisjoint
  /\ ReplacedRejectionsResolved
  /\ ReviewedByEntitled

Entries == [EntryIds -> Entry \cup {NoRow}]

----------------------------------------------------------------------------
(* What the operators of the model do                                      *)

\* Closing rejected rows changes nothing but the resolved flag of rejected
\* rows, and closes every rejected row a replacement overlaps.
LEMMA ResolveRejectedFacts ==
  ASSUME NEW E \in Entries, NEW repl \in SUBSET EntryIds, NEW i \in EntryIds
  PROVE  LET F == ResolveRejected(E, repl)
         IN  /\ F \in Entries
             /\ F[i] = NoRow <=> E[i] = NoRow
             /\ E[i] # NoRow =>
                  /\ F[i].user = E[i].user
                  /\ F[i].day = E[i].day
                  /\ F[i].start = E[i].start
                  /\ F[i].end = E[i].end
                  /\ F[i].status = E[i].status
                  /\ F[i].reviewer = E[i].reviewer
                  /\ E[i].resolved => F[i].resolved
                  /\ E[i].status # "rejected" => F[i] = E[i]
             /\ \A j \in repl :
                  /\ E[i] # NoRow /\ E[i].status = "rejected" /\ j # i
                  /\ E[j].status = "approved" /\ SameDay(E[i], E[j]) /\ Overlap(E[i], E[j])
                  => F[i].resolved
<1> DEFINE F == ResolveRejected(E, repl)
<1> USE NoRowAssumption DEF Entries
<1>1. \A k \in EntryIds : E[k] # NoRow => E[k] \in Entry
  OBVIOUS
<1>2. \A k \in EntryIds : E[k] # NoRow =>
        SetReview(E[k], "rejected", TRUE, E[k].reviewer) \in Entry
  BY <1>1 DEF SetReview, Entry, EntryStatus
<1>3. F \in Entries
  BY <1>2 DEF ResolveRejected
<1>4. F[i] = NoRow <=> E[i] = NoRow
  BY <1>2 DEF ResolveRejected
<1>5. CASE E[i] = NoRow
  BY <1>3, <1>4, <1>5
<1>6. CASE E[i] # NoRow
  BY <1>1, <1>3, <1>4, <1>6 DEF ResolveRejected, SetReview, Entry
<1> QED
  BY <1>5, <1>6

\* Steps on absences leave the entries alone.
LEMMA AbsenceStepFrame ==
  AbsenceStep => UNCHANGED <<entries, today>>
BY DEF AbsenceStep, CreateAbsence, DoCreateAbsence, UpdateAbsence, DoUpdateAbsence,
       CancelAbsence, DoCancelAbsence, ApproveAbsence, RejectAbsence,
       ApproveCancellation, RejectCancellation, RevokeAbsence, SetStatus

\* Steps on entries leave the absences alone.
LEMMA EntryStepFrame ==
  EntryStep => UNCHANGED <<absences, today>>
BY DEF EntryStep, CreateEntry, DoCreateEntry, UpdateEntry, DoUpdateEntry, DeleteEntry,
       DoDeleteEntry, SubmitBatch, DoSubmitBatch, SubmitBatchAutoApproved,
       DoSubmitBatchAutoApproved, BatchApprove, DoBatchApprove, BatchReject,
       DoBatchReject, PerformReopen, DoPerformReopen

----------------------------------------------------------------------------
(* Type correctness                                                        *)

LEMMA TypeStep ==
  ASSUME TypeOK, [Next]_vars
  PROVE  TypeOK'
<1> USE UsersAssumption, CalendarAssumption, NoRowAssumption
<1> USE DEF TypeOK, HasEntry, HasAbsence, SetReview, SetSlot, SetAbsence, WithStatus
<1>1. ASSUME NEW u \in Users, NEW i \in EntryIds, NEW slot \in Slot, CreateEntry(u, i, slot)
      PROVE  TypeOK'
  BY <1>1 DEF CreateEntry, CanCreateEntry, DoCreateEntry, ValidEntry, Entry, EntryStatus,
              Slot
<1>2. ASSUME NEW u \in Users, NEW i \in EntryIds, NEW slot \in Slot, UpdateEntry(u, i, slot)
      PROVE  TypeOK'
  BY <1>2 DEF UpdateEntry, CanUpdateEntry, DoUpdateEntry, ValidEntry, Entry, EntryStatus,
              Slot, ResolveRejected
<1>3. ASSUME NEW u \in Users, NEW i \in EntryIds, DeleteEntry(u, i)
      PROVE  TypeOK'
  BY <1>3 DEF DeleteEntry, DoDeleteEntry, Entry
<1>4. ASSUME NEW u \in Users, NEW ids \in SUBSET EntryIds, SubmitBatch(u, ids)
      PROVE  TypeOK'
  BY <1>4 DEF SubmitBatch, CanSubmitBatch, DoSubmitBatch, DraftsOf, Entry, EntryStatus
<1>5. ASSUME NEW u \in Users, NEW ids \in SUBSET EntryIds, SubmitBatchAutoApproved(u, ids)
      PROVE  TypeOK'
  BY <1>5 DEF SubmitBatchAutoApproved, DoSubmitBatchAutoApproved, DraftsOf,
              ResolveRejected, Entry, EntryStatus
<1>6. ASSUME NEW u \in Users, NEW ids \in SUBSET EntryIds, BatchApprove(u, ids)
      PROVE  TypeOK'
  BY <1>6 DEF BatchApprove, DoBatchApprove, Reviewable, ResolveRejected, Entry,
              EntryStatus
<1>7. ASSUME NEW u \in Users, NEW ids \in SUBSET EntryIds, BatchReject(u, ids)
      PROVE  TypeOK'
  BY <1>7 DEF BatchReject, DoBatchReject, Reviewable, Entry, EntryStatus
<1>8. ASSUME NEW u \in Users, NEW d \in Days, PerformReopen(u, WeekOf[d])
      PROVE  TypeOK'
  BY <1>8 DEF PerformReopen, DoPerformReopen, ReopenTargets, AsDraft, Entry, EntryStatus
<1>9. ASSUME NEW u \in Users, NEW a \in AbsenceIds, NEW from \in Days, NEW to \in Days,
             NEW auto \in BOOLEAN, NEW asOf \in Days, CreateAbsence(u, a, auto, from, to, asOf)
      PROVE  TypeOK'
  BY <1>9 DEF CreateAbsence, CanCreateAbsence, DoCreateAbsence, InitialStatus, Absence,
              AbsenceStatus
<1>10. ASSUME NEW u \in Users, NEW a \in AbsenceIds, NEW from \in Days, NEW to \in Days,
              NEW asOf \in Days, UpdateAbsence(u, a, from, to, asOf)
       PROVE  TypeOK'
  BY <1>10 DEF UpdateAbsence, CanUpdateAbsence, DoUpdateAbsence, InitialStatus, Absence,
               AbsenceStatus
<1>11. ASSUME NEW a \in AbsenceIds, NEW s \in AbsenceStatus, HasAbsence(a), SetStatus(a, s)
       PROVE  TypeOK'
  BY <1>11 DEF SetStatus, Absence, AbsenceStatus
<1>12. ASSUME NEW u \in Users, NEW a \in AbsenceIds,
              CancelAbsence(u, a) \/ ApproveAbsence(u, a) \/ RejectAbsence(u, a)
                \/ ApproveCancellation(u, a) \/ RejectCancellation(u, a)
                \/ RevokeAbsence(u, a)
       PROVE  \E s \in AbsenceStatus : HasAbsence(a) /\ SetStatus(a, s)
  BY <1>12 DEF CancelAbsence, CanCancelAbsence, DoCancelAbsence, ApproveAbsence,
               CanApproveAbsence, RejectAbsence, ApproveCancellation, RejectCancellation,
               CanReviewAbsence, RevokeAbsence, CanRevokeAbsence, AbsenceStatus
<1>13. ASSUME NEW u \in Users, NEW ids \in SUBSET EntryIds, NEW as \in SUBSET AbsenceIds,
              ClosePending(u, ids, as)
       PROVE  TypeOK'
  <2>1. \A k \in EntryIds : k \in ids =>
          AsDraft(entries[k]) \in Entry /\ entries[k].start < entries[k].end
    BY <1>13 DEF ClosePending, PendingEntries, AsDraft, Entry, EntryStatus
  <2>2. \A a \in AbsenceIds, s \in AbsenceStatus : a \in as =>
          WithStatus(absences[a], s) \in Absence /\ absences[a].from <= absences[a].to
    BY <1>13 DEF ClosePending, PendingAbsences, Absence
  <2>3. {"rejected", "approved"} \subseteq AbsenceStatus
    BY DEF AbsenceStatus
  <2>4. /\ entries' \in [EntryIds -> Entry \cup {NoRow}]
        /\ \A k \in EntryIds : entries'[k] # NoRow =>
             /\ entries'[k].start < entries'[k].end
             /\ entries'[k].resolved => entries'[k].status = "rejected"
    BY <1>13, <2>1 DEF ClosePending, DoClosePending, AsDraft
  <2>5. /\ absences' \in [AbsenceIds -> Absence \cup {NoRow}]
        /\ \A a \in AbsenceIds : absences'[a] # NoRow =>
             absences'[a].from <= absences'[a].to
    BY <1>13, <2>2, <2>3 DEF ClosePending, DoClosePending
  <2> QED
    BY <1>13, <2>4, <2>5 DEF ClosePending, DoClosePending
<1>14. CASE NextDay
  BY <1>14 DEF NextDay
<1>15. CASE UNCHANGED vars
  BY <1>15 DEF vars
<1>16. CASE EntryStep
  BY <1>1, <1>2, <1>3, <1>4, <1>5, <1>6, <1>7, <1>8, <1>16 DEF EntryStep
<1>17. CASE AbsenceStep
  BY <1>9, <1>10, <1>11, <1>12, <1>17 DEF AbsenceStep
<1> QED
  BY <1>13, <1>14, <1>15, <1>16, <1>17 DEF Next

----------------------------------------------------------------------------
(* Entries of a day do not overlap                                         *)

LEMMA NoDoubleBookingStep ==
  ASSUME Inv, TypeOK', [Next]_vars
  PROVE  NoDoubleBooking'
<1> USE UsersAssumption, CalendarAssumption, NoRowAssumption
<1> USE DEF Inv, TypeOK, HasEntry, NoDoubleBooking, SameDay
<1>1. ASSUME NEW u \in Users, NEW i \in EntryIds, NEW slot \in Slot, CreateEntry(u, i, slot)
      PROVE  NoDoubleBooking'
  BY <1>1 DEF CreateEntry, CanCreateEntry, DoCreateEntry, ValidEntry, Overlap, Entry, Slot
<1>2. ASSUME NEW u \in Users, NEW i \in EntryIds, NEW slot \in Slot, UpdateEntry(u, i, slot)
      PROVE  NoDoubleBooking'
  <2> DEFINE moved == [entries EXCEPT ![i] = SetSlot(entries[i], slot)]
  <2>1. moved \in Entries
    BY <1>2 DEF UpdateEntry, CanUpdateEntry, SetSlot, Slot, Entry, Entries
  <2>2. entries' = moved \/ entries' = ResolveRejected(moved, {i})
    BY <1>2 DEF UpdateEntry, DoUpdateEntry
  <2>3. ASSUME NEW j \in EntryIds, NEW k \in EntryIds, j # k,
               moved[j] # NoRow, moved[k] # NoRow,
               moved[j].status # "rejected", moved[k].status # "rejected",
               SameDay(moved[j], moved[k])
        PROVE  ~Overlap(moved[j], moved[k])
    <3>1. /\ moved[i].user = entries[i].user /\ moved[i].status = entries[i].status
          /\ moved[i].day = slot.day /\ moved[i].start = slot.start /\ moved[i].end = slot.end
          /\ entries[i] # NoRow
      BY <1>2 DEF UpdateEntry, CanUpdateEntry, SetSlot
    <3>2. \A l \in EntryIds \ {i} : moved[l] = entries[l]
      OBVIOUS
    <3>3. \A l \in EntryIds \ {i} :
            entries[l] # NoRow /\ entries[l].user = entries[i].user
              /\ entries[l].day = slot.day /\ entries[l].status # "rejected"
            => ~Overlap(slot, entries[l])
      BY <1>2 DEF UpdateEntry, CanUpdateEntry, ValidEntry
    <3> HIDE DEF moved
    <3>4. CASE j # i /\ k # i
      BY <2>3, <3>2, <3>4
    <3>5. CASE j = i
      BY <2>3, <3>1, <3>2, <3>3, <3>5 DEF Overlap
    <3>6. CASE k = i
      BY <2>3, <3>1, <3>2, <3>3, <3>6 DEF Overlap
    <3> QED
      BY <3>4, <3>5, <3>6
  <2>4. {i} \in SUBSET EntryIds
    OBVIOUS
  <2> HIDE DEF moved
  <2>5. ASSUME NEW k \in EntryIds, entries'[k] # NoRow
        PROVE  /\ moved[k] # NoRow
               /\ entries'[k].user = moved[k].user
               /\ entries'[k].day = moved[k].day
               /\ entries'[k].start = moved[k].start
               /\ entries'[k].end = moved[k].end
               /\ entries'[k].status = moved[k].status
    BY <2>1, <2>2, <2>4, <2>5, ResolveRejectedFacts
  <2> QED
    BY <2>3, <2>5 DEF Overlap
<1>3. ASSUME NEW u \in Users, NEW i \in EntryIds, DeleteEntry(u, i)
      PROVE  NoDoubleBooking'
  BY <1>3 DEF DeleteEntry, DoDeleteEntry, Overlap, Entry
\* Six operations move no entry and bring no rejected entry back.
<1>4. ASSUME \A k \in EntryIds : entries'[k] # NoRow =>
               /\ entries[k] # NoRow
               /\ entries'[k].user = entries[k].user
               /\ entries'[k].day = entries[k].day
               /\ entries'[k].start = entries[k].start
               /\ entries'[k].end = entries[k].end
               /\ entries'[k].status # "rejected" => entries[k].status # "rejected"
      PROVE  NoDoubleBooking'
  BY <1>4 DEF Overlap
<1>5. ASSUME NEW u \in Users, NEW ids \in SUBSET EntryIds, SubmitBatch(u, ids)
      PROVE  NoDoubleBooking'
  BY <1>4, <1>5 DEF SubmitBatch, DoSubmitBatch, DraftsOf, SetReview
<1>6. ASSUME NEW u \in Users, NEW ids \in SUBSET EntryIds, SubmitBatchAutoApproved(u, ids)
      PROVE  NoDoubleBooking'
  <2> DEFINE E == [k \in EntryIds |->
                    IF k \in DraftsOf(u, ids)
                    THEN SetReview(entries[k], "approved", entries[k].resolved, u)
                    ELSE entries[k]]
  <2>1. E \in Entries
    BY DEF Entries, Entry, EntryStatus, DraftsOf, SetReview
  <2>2. entries' = ResolveRejected(E, DraftsOf(u, ids)) /\ DraftsOf(u, ids) \in SUBSET EntryIds
    BY <1>6 DEF SubmitBatchAutoApproved, DoSubmitBatchAutoApproved, DraftsOf
  <2>3. \A k \in EntryIds : E[k] # NoRow =>
          /\ entries[k] # NoRow
          /\ E[k].user = entries[k].user /\ E[k].day = entries[k].day
          /\ E[k].start = entries[k].start /\ E[k].end = entries[k].end
          /\ E[k].status # "rejected" => entries[k].status # "rejected"
    BY DEF DraftsOf, SetReview
  <2> HIDE DEF E
  <2> QED
    BY <1>4, <2>1, <2>2, <2>3, ResolveRejectedFacts
<1>7. ASSUME NEW u \in Users, NEW ids \in SUBSET EntryIds, BatchApprove(u, ids)
      PROVE  NoDoubleBooking'
  <2> DEFINE E == [k \in EntryIds |->
                    IF k \in Reviewable(u, ids)
                    THEN SetReview(entries[k], "approved", entries[k].resolved, u)
                    ELSE entries[k]]
  <2>1. E \in Entries
    BY DEF Entries, Entry, EntryStatus, Reviewable, SetReview
  <2>2. entries' = ResolveRejected(E, Reviewable(u, ids)) /\ Reviewable(u, ids) \in SUBSET EntryIds
    BY <1>7 DEF BatchApprove, DoBatchApprove, Reviewable
  <2>3. \A k \in EntryIds : E[k] # NoRow =>
          /\ entries[k] # NoRow
          /\ E[k].user = entries[k].user /\ E[k].day = entries[k].day
          /\ E[k].start = entries[k].start /\ E[k].end = entries[k].end
          /\ E[k].status # "rejected" => entries[k].status # "rejected"
    BY DEF Reviewable, SetReview
  <2> HIDE DEF E
  <2> QED
    BY <1>4, <2>1, <2>2, <2>3, ResolveRejectedFacts
<1>8. ASSUME NEW u \in Users, NEW ids \in SUBSET EntryIds, BatchReject(u, ids)
      PROVE  NoDoubleBooking'
  BY <1>4, <1>8 DEF BatchReject, DoBatchReject, Reviewable, SetReview
<1>9. ASSUME NEW u \in Users, NEW d \in Days, PerformReopen(u, WeekOf[d])
      PROVE  NoDoubleBooking'
  BY <1>9 DEF PerformReopen, CanPerformReopen, DoPerformReopen, ReopenTargets,
              ValidAfterReopen, AsDraft, SetReview, Overlap, Entry
<1>10. ASSUME NEW u \in Users, NEW ids \in SUBSET EntryIds, NEW as \in SUBSET AbsenceIds,
              ClosePending(u, ids, as)
       PROVE  NoDoubleBooking'
  BY <1>4, <1>10 DEF ClosePending, DoClosePending, PendingEntries, PendingAbsences, AsDraft, SetReview
<1>11. CASE UNCHANGED entries
  BY <1>11 DEF Overlap
<1> QED
  BY <1>1, <1>2, <1>3, <1>5, <1>6, <1>7, <1>8, <1>9, <1>10, <1>11, AbsenceStepFrame
     DEF Next, EntryStep, NextDay, vars

----------------------------------------------------------------------------
(* Counted work and confirmed absences do not share a day                  *)

LEMMA NoWorkOnAbsenceStep ==
  ASSUME Inv, TypeOK', [Next]_vars
  PROVE  NoWorkOnAbsence'
<1> USE UsersAssumption, CalendarAssumption, NoRowAssumption
<1> USE DEF Inv, TypeOK, HasEntry, HasAbsence, NoWorkOnAbsence, OnBlockingAbsence,
            Covers, Blocking
<1>1. ASSUME NEW u \in Users, NEW i \in EntryIds, NEW slot \in Slot, CreateEntry(u, i, slot)
      PROVE  NoWorkOnAbsence'
  BY <1>1 DEF CreateEntry, DoCreateEntry
<1>2. ASSUME NEW u \in Users, NEW i \in EntryIds, NEW slot \in Slot, UpdateEntry(u, i, slot)
      PROVE  NoWorkOnAbsence'
  BY <1>2 DEF UpdateEntry, CanUpdateEntry, DoUpdateEntry, AdminCorrection, ValidEntry,
              Active, Slot, ResolveRejected, SetSlot, SetReview, Entry, Absence
<1>3. ASSUME NEW u \in Users, NEW i \in EntryIds, DeleteEntry(u, i)
      PROVE  NoWorkOnAbsence'
  BY <1>3 DEF DeleteEntry, DoDeleteEntry
<1>4. ASSUME NEW u \in Users, NEW ids \in SUBSET EntryIds, SubmitBatch(u, ids)
      PROVE  NoWorkOnAbsence'
  BY <1>4 DEF SubmitBatch, CanSubmitBatch, DoSubmitBatch, DraftsOf, SetReview
<1>5. ASSUME NEW u \in Users, NEW ids \in SUBSET EntryIds, SubmitBatchAutoApproved(u, ids)
      PROVE  NoWorkOnAbsence'
  BY <1>5 DEF SubmitBatchAutoApproved, CanSubmitBatch, DoSubmitBatchAutoApproved,
              DraftsOf, SetReview, ResolveRejected, Entry, Absence
<1>6. ASSUME NEW u \in Users, NEW ids \in SUBSET EntryIds, BatchApprove(u, ids)
      PROVE  NoWorkOnAbsence'
  BY <1>6 DEF BatchApprove, CanBatchApprove, DoBatchApprove, Reviewable, SetReview,
              ResolveRejected, Entry, Absence
<1>7. ASSUME NEW u \in Users, NEW ids \in SUBSET EntryIds, BatchReject(u, ids)
      PROVE  NoWorkOnAbsence'
  BY <1>7 DEF BatchReject, DoBatchReject, Reviewable, SetReview
<1>8. ASSUME NEW u \in Users, NEW d \in Days, PerformReopen(u, WeekOf[d])
      PROVE  NoWorkOnAbsence'
  BY <1>8 DEF PerformReopen, DoPerformReopen, ReopenTargets, AsDraft, SetReview
<1>9. ASSUME NEW u \in Users, NEW a \in AbsenceIds, NEW from \in Days, NEW to \in Days,
             NEW auto \in BOOLEAN, NEW asOf \in Days, CreateAbsence(u, a, auto, from, to, asOf)
      PROVE  NoWorkOnAbsence'
  BY <1>9 DEF CreateAbsence, DoCreateAbsence, InitialStatus
<1>10. ASSUME NEW u \in Users, NEW a \in AbsenceIds, NEW from \in Days, NEW to \in Days,
              NEW asOf \in Days, UpdateAbsence(u, a, from, to, asOf)
       PROVE  NoWorkOnAbsence'
  BY <1>10 DEF UpdateAbsence, CanUpdateAbsence, DoUpdateAbsence, InitialStatus, SetAbsence
<1>11. ASSUME NEW u \in Users, NEW a \in AbsenceIds, ApproveAbsence(u, a)
       PROVE  NoWorkOnAbsence'
  BY <1>11 DEF ApproveAbsence, CanApproveAbsence, CanReviewAbsence, NoTimeConflict,
               SetStatus, WithStatus, SetAbsence, Entry, Absence
\* The other decisions make no absence blocking that was not blocking before.
<1>12. ASSUME NEW u \in Users, NEW a \in AbsenceIds,
              CancelAbsence(u, a) \/ RejectAbsence(u, a) \/ ApproveCancellation(u, a)
                \/ RejectCancellation(u, a) \/ RevokeAbsence(u, a)
       PROVE  NoWorkOnAbsence'
  BY <1>12 DEF CancelAbsence, CanCancelAbsence, DoCancelAbsence, RejectAbsence,
               ApproveCancellation, RejectCancellation, CanReviewAbsence, RevokeAbsence,
               CanRevokeAbsence, SetStatus, WithStatus, SetAbsence
<1>13. ASSUME NEW u \in Users, NEW ids \in SUBSET EntryIds, NEW as \in SUBSET AbsenceIds,
              ClosePending(u, ids, as)
       PROVE  NoWorkOnAbsence'
  BY <1>13 DEF ClosePending, DoClosePending, PendingEntries, PendingAbsences, AsDraft, SetReview, WithStatus, SetAbsence, Entry, Absence
<1>14. CASE UNCHANGED <<entries, absences>>
  BY <1>14
<1> QED
  BY <1>1, <1>2, <1>3, <1>4, <1>5, <1>6, <1>7, <1>8, <1>9, <1>10, <1>11, <1>12, <1>13,
     <1>14
     DEF Next, EntryStep, AbsenceStep, NextDay, vars

----------------------------------------------------------------------------
(* Absences of a user do not share a day                                   *)

LEMMA AbsencesDisjointStep ==
  ASSUME Inv, TypeOK', [Next]_vars
  PROVE  AbsencesDisjoint'
<1> USE UsersAssumption, CalendarAssumption, NoRowAssumption
<1> USE DEF Inv, TypeOK, HasAbsence, AbsencesDisjoint, Active
<1>1. ASSUME NEW u \in Users, NEW a \in AbsenceIds, NEW from \in Days, NEW to \in Days,
             NEW s \in AbsenceStatus, NEW auto \in BOOLEAN, NoAbsenceOverlap(u, from, to, a),
             absences' = [absences EXCEPT ![a] =
               [user |-> u, from |-> from, to |-> to, auto |-> auto, status |-> s]]
      PROVE  AbsencesDisjoint'
  <2>1. \A b \in AbsenceIds \ {a} :
          absences[b] # NoRow /\ absences[b].user = u /\ Active(absences[b])
          => absences[b].to < from \/ to < absences[b].from
    <3>1. \A b \in AbsenceIds : absences[b] # NoRow =>
            absences[b].from \in Int /\ absences[b].to \in Int
      BY DEF Absence
    <3>2. from \in Int /\ to \in Int
      OBVIOUS
    <3> QED
      BY <1>1, <3>1, <3>2 DEF NoAbsenceOverlap
  <2>2. /\ absences'[a].user = u /\ absences'[a].from = from /\ absences'[a].to = to
        /\ \A b \in AbsenceIds \ {a} : absences'[b] = absences[b]
    BY <1>1
  <2> SUFFICES ASSUME NEW b \in AbsenceIds, NEW c \in AbsenceIds, b # c,
                      absences'[b] # NoRow, absences'[c] # NoRow,
                      absences'[b].user = absences'[c].user,
                      Active(absences'[b]), Active(absences'[c])
               PROVE  absences'[b].to < absences'[c].from \/ absences'[c].to < absences'[b].from
    OBVIOUS
  <2>3. CASE b # a /\ c # a
    BY <2>2, <2>3
  <2>4. CASE b = a
    BY <2>1, <2>2, <2>4
  <2>5. CASE c = a
    BY <2>1, <2>2, <2>5
  <2> QED
    BY <2>3, <2>4, <2>5
<1>2. ASSUME NEW u \in Users, NEW a \in AbsenceIds, NEW from \in Days, NEW to \in Days,
             NEW auto \in BOOLEAN, NEW asOf \in Days, CreateAbsence(u, a, auto, from, to, asOf)
      PROVE  AbsencesDisjoint'
  <2>1. InitialStatus(auto, from, asOf) \in AbsenceStatus
    BY DEF InitialStatus, AbsenceStatus
  <2> QED
    BY <1>1, <1>2, <2>1 DEF CreateAbsence, CanCreateAbsence, DoCreateAbsence
<1>3. ASSUME NEW u \in Users, NEW a \in AbsenceIds, NEW from \in Days, NEW to \in Days,
             NEW asOf \in Days, UpdateAbsence(u, a, from, to, asOf)
      PROVE  AbsencesDisjoint'
  <2>1. /\ InitialStatus(absences[a].auto, from, asOf) \in AbsenceStatus
        /\ absences[a].auto \in BOOLEAN
        /\ absences[a].user = u
    BY <1>3 DEF UpdateAbsence, CanUpdateAbsence, InitialStatus, AbsenceStatus, Absence
  <2>2. /\ NoAbsenceOverlap(u, from, to, a)
        /\ absences' = [absences EXCEPT ![a] =
             [user |-> u, from |-> from, to |-> to, auto |-> absences[a].auto,
              status |-> InitialStatus(absences[a].auto, from, asOf)]]
    BY <1>3, <2>1 DEF UpdateAbsence, CanUpdateAbsence, DoUpdateAbsence, SetAbsence
  <2> QED
    BY <1>1, <2>1, <2>2
<1>4. ASSUME NEW u \in Users, NEW a \in AbsenceIds,
             CancelAbsence(u, a) \/ ApproveAbsence(u, a) \/ RejectAbsence(u, a)
               \/ ApproveCancellation(u, a) \/ RejectCancellation(u, a)
               \/ RevokeAbsence(u, a)
      PROVE  AbsencesDisjoint'
  BY <1>4 DEF CancelAbsence, CanCancelAbsence, DoCancelAbsence, ApproveAbsence,
              CanApproveAbsence, RejectAbsence, ApproveCancellation, RejectCancellation,
              CanReviewAbsence, RevokeAbsence, CanRevokeAbsence, SetStatus, WithStatus,
              SetAbsence, Absence
<1>5. ASSUME NEW u \in Users, NEW ids \in SUBSET EntryIds, NEW as \in SUBSET AbsenceIds,
              ClosePending(u, ids, as)
      PROVE  AbsencesDisjoint'
  BY <1>5 DEF ClosePending, DoClosePending, PendingEntries, PendingAbsences, WithStatus, SetAbsence, Absence
<1>6. CASE UNCHANGED absences
  BY <1>6
<1> QED
  BY <1>2, <1>3, <1>4, <1>5, <1>6, EntryStepFrame DEF Next, AbsenceStep, NextDay, vars

----------------------------------------------------------------------------
(* Approved replacements close the rejections they replace                 *)

\* Approving a set of rows that were not rejected, then closing the rejected
\* rows they overlap, keeps the invariant.
LEMMA ApproveResolves ==
  ASSUME Inv, NEW repl \in SUBSET EntryIds, NEW r \in Users,
         \A i \in repl : HasEntry(i) /\ entries[i].status # "rejected",
         NEW E \in Entries,
         E = [k \in EntryIds |->
               IF k \in repl THEN SetReview(entries[k], "approved", entries[k].resolved, r)
                             ELSE entries[k]],
         entries' = ResolveRejected(E, repl)
  PROVE  ReplacedRejectionsResolved'
<1> SUFFICES ASSUME NEW i \in EntryIds, NEW j \in EntryIds,
                    entries'[i] # NoRow, entries'[j] # NoRow,
                    entries'[i].status = "rejected", entries'[j].status = "approved",
                    SameDay(entries'[i], entries'[j]), Overlap(entries'[i], entries'[j])
             PROVE  entries'[i].resolved
  BY DEF ReplacedRejectionsResolved, HasEntry
<1> DEFINE kept(k) ==
      /\ entries'[k] = NoRow <=> E[k] = NoRow
      /\ E[k] # NoRow =>
           /\ entries'[k].user = E[k].user
           /\ entries'[k].day = E[k].day
           /\ entries'[k].start = E[k].start
           /\ entries'[k].end = E[k].end
           /\ entries'[k].status = E[k].status
           /\ E[k].resolved => entries'[k].resolved
<1>0. \A k \in EntryIds : kept(k)
  BY ResolveRejectedFacts
<1>1. /\ E[i] # NoRow /\ E[j] # NoRow
      /\ E[i].status = "rejected" /\ E[j].status = "approved"
      /\ SameDay(E[i], E[j]) /\ Overlap(E[i], E[j])
      /\ E[i].resolved => entries'[i].resolved
  <2>1. kept(i) /\ kept(j)
    BY <1>0
  <2> QED
    BY <2>1 DEF SameDay, Overlap
<1>2. i \notin repl /\ E[i] = entries[i]
  BY <1>1 DEF SetReview
<1>3. CASE j \in repl
  BY <1>1, <1>2, <1>3, ResolveRejectedFacts
<1>4. CASE j \notin repl
  BY <1>1, <1>2, <1>4 DEF Inv, ReplacedRejectionsResolved, HasEntry
<1> QED
  BY <1>3, <1>4

LEMMA ReplacedRejectionsResolvedStep ==
  ASSUME Inv, TypeOK', [Next]_vars
  PROVE  ReplacedRejectionsResolved'
<1> USE UsersAssumption, CalendarAssumption, NoRowAssumption
<1> USE DEF Inv, TypeOK, HasEntry, ReplacedRejectionsResolved, SameDay
<1>1. ASSUME NEW u \in Users, NEW i \in EntryIds, NEW slot \in Slot, CreateEntry(u, i, slot)
      PROVE  ReplacedRejectionsResolved'
  BY <1>1 DEF CreateEntry, DoCreateEntry, Overlap
<1>2. ASSUME NEW u \in Users, NEW i \in EntryIds, NEW slot \in Slot, UpdateEntry(u, i, slot)
      PROVE  ReplacedRejectionsResolved'
  <2> DEFINE moved == [entries EXCEPT ![i] = SetSlot(entries[i], slot)]
  <2>1. moved \in Entries /\ {i} \in SUBSET EntryIds
    BY <1>2 DEF UpdateEntry, CanUpdateEntry, SetSlot, Slot, Entry, Entries
  <2>2. /\ entries[i] # NoRow /\ entries[i].status # "rejected"
        /\ moved[i].status = entries[i].status
        /\ \A l \in EntryIds \ {i} : moved[l] = entries[l]
    BY <1>2 DEF UpdateEntry, CanUpdateEntry, AdminCorrection, SetSlot, Entry
  <2>3. CASE entries[i].status # "approved"
    <3>1. entries' = moved
      BY <1>2, <2>3 DEF UpdateEntry, DoUpdateEntry
    <3> HIDE DEF moved
    <3> QED
      BY <2>2, <2>3, <3>1
  <2>4. CASE entries[i].status = "approved"
    <3>1. entries' = ResolveRejected(moved, {i})
      BY <1>2, <2>4 DEF UpdateEntry, DoUpdateEntry
    <3> HIDE DEF moved
    <3> SUFFICES ASSUME NEW k \in EntryIds, NEW j \in EntryIds,
                        entries'[k] # NoRow, entries'[j] # NoRow,
                        entries'[k].status = "rejected", entries'[j].status = "approved",
                        SameDay(entries'[k], entries'[j]), Overlap(entries'[k], entries'[j])
                 PROVE  entries'[k].resolved
      OBVIOUS
    <3>2. /\ moved[k] # NoRow /\ moved[j] # NoRow
          /\ moved[k].status = "rejected" /\ moved[j].status = "approved"
          /\ SameDay(moved[k], moved[j]) /\ Overlap(moved[k], moved[j])
          /\ moved[k].resolved => entries'[k].resolved
      BY <2>1, <3>1, ResolveRejectedFacts DEF Overlap
    <3>3. k # i /\ k # j
      BY <2>2, <3>2
    <3>4. CASE j = i
      BY <2>1, <3>1, <3>2, <3>3, <3>4, ResolveRejectedFacts
    <3>5. CASE j # i
      BY <2>2, <3>2, <3>3, <3>5
    <3> QED
      BY <3>4, <3>5
  <2> QED
    BY <2>3, <2>4
<1>3. ASSUME NEW u \in Users, NEW i \in EntryIds, DeleteEntry(u, i)
      PROVE  ReplacedRejectionsResolved'
  BY <1>3 DEF DeleteEntry, DoDeleteEntry
<1>4. ASSUME NEW u \in Users, NEW ids \in SUBSET EntryIds, SubmitBatch(u, ids)
      PROVE  ReplacedRejectionsResolved'
  BY <1>4 DEF SubmitBatch, DoSubmitBatch, DraftsOf, SetReview, Overlap
<1>5. ASSUME NEW u \in Users, NEW ids \in SUBSET EntryIds, SubmitBatchAutoApproved(u, ids)
      PROVE  ReplacedRejectionsResolved'
  <2> DEFINE repl == DraftsOf(u, ids)
             E == [k \in EntryIds |->
                    IF k \in repl
                    THEN SetReview(entries[k], "approved", entries[k].resolved, u)
                    ELSE entries[k]]
  <2>1. E \in Entries
    BY DEF Entries, Entry, EntryStatus, DraftsOf, SetReview
  <2>2. /\ repl \in SUBSET EntryIds
        /\ \A k \in repl : entries[k] # NoRow /\ entries[k].status # "rejected"
    BY DEF DraftsOf
  <2>3. entries' = ResolveRejected(E, repl)
    BY <1>5 DEF SubmitBatchAutoApproved, DoSubmitBatchAutoApproved
  <2> HIDE DEF repl
  <2> QED
    BY <2>1, <2>2, <2>3, ApproveResolves
<1>6. ASSUME NEW u \in Users, NEW ids \in SUBSET EntryIds, BatchApprove(u, ids)
      PROVE  ReplacedRejectionsResolved'
  <2> DEFINE repl == Reviewable(u, ids)
             E == [k \in EntryIds |->
                    IF k \in repl
                    THEN SetReview(entries[k], "approved", entries[k].resolved, u)
                    ELSE entries[k]]
  <2>1. E \in Entries
    BY DEF Entries, Entry, EntryStatus, Reviewable, SetReview
  <2>2. /\ repl \in SUBSET EntryIds
        /\ \A k \in repl : entries[k] # NoRow /\ entries[k].status # "rejected"
    BY DEF Reviewable
  <2>3. entries' = ResolveRejected(E, repl)
    BY <1>6 DEF BatchApprove, DoBatchApprove
  <2> HIDE DEF repl
  <2> QED
    BY <2>1, <2>2, <2>3, ApproveResolves
<1>7. ASSUME NEW u \in Users, NEW ids \in SUBSET EntryIds, BatchReject(u, ids)
      PROVE  ReplacedRejectionsResolved'
  BY <1>7 DEF BatchReject, DoBatchReject, Reviewable, SetReview, NoDoubleBooking, Overlap,
              Entry
<1>8. ASSUME NEW u \in Users, NEW d \in Days, PerformReopen(u, WeekOf[d])
      PROVE  ReplacedRejectionsResolved'
  BY <1>8 DEF PerformReopen, DoPerformReopen, ReopenTargets, AsDraft, SetReview
<1>9. ASSUME NEW u \in Users, NEW ids \in SUBSET EntryIds, NEW as \in SUBSET AbsenceIds,
              ClosePending(u, ids, as)
      PROVE  ReplacedRejectionsResolved'
  BY <1>9 DEF ClosePending, DoClosePending, PendingEntries, PendingAbsences, AsDraft, SetReview
<1>10. CASE UNCHANGED entries
  BY <1>10 DEF Overlap
<1> QED
  BY <1>1, <1>2, <1>3, <1>4, <1>5, <1>6, <1>7, <1>8, <1>9, <1>10, AbsenceStepFrame
     DEF Next, EntryStep, NextDay, vars

----------------------------------------------------------------------------
(* Decisions are made by those entitled to them                            *)

LEMMA ReviewedByEntitledStep ==
  ASSUME Inv, TypeOK', [Next]_vars
  PROVE  ReviewedByEntitled'
<1> USE UsersAssumption, NoRowAssumption
<1> USE DEF Inv, TypeOK, HasEntry, ReviewedByEntitled
<1>1. ASSUME NEW u \in Users, NEW i \in EntryIds, NEW slot \in Slot, CreateEntry(u, i, slot)
      PROVE  ReviewedByEntitled'
  BY <1>1 DEF CreateEntry, DoCreateEntry, MayReview
<1>2. ASSUME NEW u \in Users, NEW i \in EntryIds, NEW slot \in Slot, UpdateEntry(u, i, slot)
      PROVE  ReviewedByEntitled'
  <2> DEFINE moved == [entries EXCEPT ![i] = SetSlot(entries[i], slot)]
  <2>1. moved \in Entries /\ {i} \in SUBSET EntryIds
    BY <1>2 DEF UpdateEntry, CanUpdateEntry, SetSlot, Slot, Entry, Entries
  <2>2. entries' = moved \/ entries' = ResolveRejected(moved, {i})
    BY <1>2 DEF UpdateEntry, DoUpdateEntry
  <2>3. \A k \in EntryIds : moved[k] # NoRow =>
          /\ entries[k] # NoRow
          /\ moved[k].user = entries[k].user
          /\ moved[k].status = entries[k].status
          /\ moved[k].reviewer = entries[k].reviewer
    BY <1>2 DEF UpdateEntry, CanUpdateEntry, SetSlot
  <2> HIDE DEF moved
  <2>4. \A k \in EntryIds : entries'[k] # NoRow =>
          /\ moved[k] # NoRow
          /\ entries'[k].user = moved[k].user
          /\ entries'[k].status = moved[k].status
          /\ entries'[k].reviewer = moved[k].reviewer
    BY <2>1, <2>2, ResolveRejectedFacts
  <2> QED
    BY <2>3, <2>4 DEF MayReview
<1>3. ASSUME NEW u \in Users, NEW i \in EntryIds, DeleteEntry(u, i)
      PROVE  ReviewedByEntitled'
  BY <1>3 DEF DeleteEntry, DoDeleteEntry, MayReview
<1>4. ASSUME NEW u \in Users, NEW ids \in SUBSET EntryIds, SubmitBatch(u, ids)
      PROVE  ReviewedByEntitled'
  BY <1>4 DEF SubmitBatch, DoSubmitBatch, DraftsOf, SetReview, MayReview
<1>5. ASSUME NEW u \in Users, NEW ids \in SUBSET EntryIds, SubmitBatchAutoApproved(u, ids)
      PROVE  ReviewedByEntitled'
  <2> DEFINE E == [k \in EntryIds |->
                    IF k \in DraftsOf(u, ids)
                    THEN SetReview(entries[k], "approved", entries[k].resolved, u)
                    ELSE entries[k]]
  <2>1. E \in Entries
    BY DEF Entries, Entry, EntryStatus, DraftsOf, SetReview
  <2>2. entries' = ResolveRejected(E, DraftsOf(u, ids)) /\ DraftsOf(u, ids) \in SUBSET EntryIds
    BY <1>5 DEF SubmitBatchAutoApproved, DoSubmitBatchAutoApproved, DraftsOf
  <2>3. \A k \in EntryIds : E[k] # NoRow =>
          \/ E[k] = entries[k]
          \/ /\ E[k].status = "approved" /\ E[k].reviewer = u /\ E[k].user = u
             /\ u \in AutoSubmitters
    BY <1>5 DEF SubmitBatchAutoApproved, DraftsOf, SetReview
  <2> HIDE DEF E
  <2>4. \A k \in EntryIds : entries'[k] # NoRow =>
          /\ E[k] # NoRow
          /\ entries'[k].user = E[k].user
          /\ entries'[k].status = E[k].status
          /\ entries'[k].reviewer = E[k].reviewer
    BY <2>1, <2>2, ResolveRejectedFacts
  <2> QED
    BY <2>3, <2>4 DEF MayReview
<1>6. ASSUME NEW u \in Users, NEW ids \in SUBSET EntryIds, BatchApprove(u, ids)
      PROVE  ReviewedByEntitled'
  <2> DEFINE E == [k \in EntryIds |->
                    IF k \in Reviewable(u, ids)
                    THEN SetReview(entries[k], "approved", entries[k].resolved, u)
                    ELSE entries[k]]
  <2>1. E \in Entries
    BY DEF Entries, Entry, EntryStatus, Reviewable, SetReview
  <2>2. entries' = ResolveRejected(E, Reviewable(u, ids)) /\ Reviewable(u, ids) \in SUBSET EntryIds
    BY <1>6 DEF BatchApprove, DoBatchApprove, Reviewable
  <2>3. \A k \in EntryIds : E[k] # NoRow =>
          \/ E[k] = entries[k]
          \/ E[k].status = "approved" /\ E[k].reviewer = u /\ MayReview(u, E[k].user)
    BY DEF Reviewable, SetReview
  <2> HIDE DEF E
  <2>4. \A k \in EntryIds : entries'[k] # NoRow =>
          /\ E[k] # NoRow
          /\ entries'[k].user = E[k].user
          /\ entries'[k].status = E[k].status
          /\ entries'[k].reviewer = E[k].reviewer
    BY <2>1, <2>2, ResolveRejectedFacts
  <2> QED
    BY <2>3, <2>4 DEF MayReview
<1>7. ASSUME NEW u \in Users, NEW ids \in SUBSET EntryIds, BatchReject(u, ids)
      PROVE  ReviewedByEntitled'
  BY <1>7 DEF BatchReject, DoBatchReject, Reviewable, SetReview, MayReview
<1>8. ASSUME NEW u \in Users, NEW d \in Days, PerformReopen(u, WeekOf[d])
      PROVE  ReviewedByEntitled'
  BY <1>8 DEF PerformReopen, DoPerformReopen, ReopenTargets, AsDraft, SetReview, MayReview
<1>9. ASSUME NEW u \in Users, NEW ids \in SUBSET EntryIds, NEW as \in SUBSET AbsenceIds,
              ClosePending(u, ids, as)
      PROVE  ReviewedByEntitled'
  BY <1>9 DEF ClosePending, DoClosePending, PendingEntries, PendingAbsences, AsDraft, SetReview, MayReview
<1>10. CASE UNCHANGED entries
  BY <1>10 DEF MayReview
<1> QED
  BY <1>1, <1>2, <1>3, <1>4, <1>5, <1>6, <1>7, <1>8, <1>9, <1>10, AbsenceStepFrame
     DEF Next, EntryStep, NextDay, vars

----------------------------------------------------------------------------
(* The theorems                                                            *)

LEMMA InitInv == Init => Inv
BY NoRowAssumption DEF Init, Inv, TypeOK, NoDoubleBooking, NoWorkOnAbsence, AbsencesDisjoint,
       ReplacedRejectionsResolved, ReviewedByEntitled, HasEntry, HasAbsence

LEMMA InvStep == Inv /\ [Next]_vars => Inv'
<1> SUFFICES ASSUME Inv, [Next]_vars PROVE Inv'
  OBVIOUS
<1>1. TypeOK'
  BY TypeStep DEF Inv
<1> QED
  BY <1>1, NoDoubleBookingStep, NoWorkOnAbsenceStep, AbsencesDisjointStep,
     ReplacedRejectionsResolvedStep, ReviewedByEntitledStep DEF Inv

\* The inductive invariant of the ledger.
THEOREM Invariance == Spec => []Inv
BY InitInv, InvStep, PTL DEF Spec

\* Every reachable row of time_entries and absences is well-formed.
THEOREM TypeCorrect == Spec => []TypeOK
<1>1. Inv => TypeOK
  BY DEF Inv
<1> QED
  BY <1>1, Invariance, PTL

\* Entries that are not rejected never overlap (validate_entry and
\* validate_entries_after_reopen together are enough).
THEOREM DoubleBookingFree == Spec => []NoDoubleBooking
<1>1. Inv => NoDoubleBooking
  BY DEF Inv
<1> QED
  BY <1>1, Invariance, PTL

\* No submitted or approved entry lies on a day of a confirmed absence.
THEOREM WorkAndAbsenceApart == Spec => []NoWorkOnAbsence
<1>1. Inv => NoWorkOnAbsence
  BY DEF Inv
<1> QED
  BY <1>1, Invariance, PTL

\* Active absences of one user never share a day (assert_no_overlap_tx).
THEOREM AbsencesApart == Spec => []AbsencesDisjoint
<1>1. Inv => AbsencesDisjoint
  BY DEF Inv
<1> QED
  BY <1>1, Invariance, PTL

\* An approved replacement leaves no open rejection under it.
THEOREM RejectionsClosed == Spec => []ReplacedRejectionsResolved
<1>1. Inv => ReplacedRejectionsResolved
  BY DEF Inv
<1> QED
  BY <1>1, Invariance, PTL

\* Every decision on an entry names someone entitled to make it.
THEOREM DecisionsEntitled == Spec => []ReviewedByEntitled
<1>1. Inv => ReviewedByEntitled
  BY DEF Inv
<1> QED
  BY <1>1, Invariance, PTL

----------------------------------------------------------------------------
(* Action properties                                                       *)

LEMMA AddsNoConflictStep ==
  ASSUME TypeOK, TypeOK', [Next]_vars
  PROVE  AddsNoConflict
<1> USE UsersAssumption, CalendarAssumption, NoRowAssumption
<1> SUFFICES ASSUME NEW a \in AbsenceIds, HasAbsence(a), absences[a].status = "requested",
                    ~absences[a].auto, absences'[a] = absences[a],
                    ~ \E u \in Users, d \in Days : PerformReopen(u, WeekOf[d]),
                    NEW j \in EntryIds, j \in Conflicts(a)'
             PROVE  j \in Conflicts(a)
  BY DEF AddsNoConflict, Conflicts
<1> DEFINE Before == /\ entries[j] # NoRow
                     /\ entries[j].user = entries'[j].user
                     /\ entries[j].day = entries'[j].day
                     /\ entries[j].status # "rejected"
<1>1. /\ entries'[j] # NoRow
      /\ entries'[j].user = absences[a].user
      /\ entries'[j].status # "rejected"
      /\ Covers(absences[a], entries'[j].day)
  BY DEF Conflicts, HasEntry, Covers
<1>2. SUFFICES Before
  BY <1>1 DEF Conflicts, HasEntry, Covers
<1> USE DEF TypeOK, HasEntry, HasAbsence
<1>3. ASSUME NEW u \in Users, NEW i \in EntryIds, NEW slot \in Slot, CreateEntry(u, i, slot)
      PROVE  Before
  BY <1>1, <1>3 DEF CreateEntry, CanCreateEntry, DoCreateEntry, ValidEntry, Active, Slot
<1>4. ASSUME NEW u \in Users, NEW i \in EntryIds, NEW slot \in Slot, UpdateEntry(u, i, slot)
      PROVE  Before
  BY <1>1, <1>4 DEF UpdateEntry, CanUpdateEntry, DoUpdateEntry, ValidEntry, Active, Slot,
                    SetSlot, SetReview, ResolveRejected, Entry
<1>5. ASSUME NEW u \in Users, NEW i \in EntryIds, DeleteEntry(u, i)
      PROVE  Before
  BY <1>1, <1>5 DEF DeleteEntry, DoDeleteEntry
<1>6. ASSUME NEW u \in Users, NEW ids \in SUBSET EntryIds, SubmitBatch(u, ids)
      PROVE  Before
  BY <1>1, <1>6 DEF SubmitBatch, DoSubmitBatch, DraftsOf, SetReview
<1>7. ASSUME NEW u \in Users, NEW ids \in SUBSET EntryIds, SubmitBatchAutoApproved(u, ids)
      PROVE  Before
  BY <1>1, <1>7 DEF SubmitBatchAutoApproved, DoSubmitBatchAutoApproved, DraftsOf, SetReview,
                    ResolveRejected, Entry
<1>8. ASSUME NEW u \in Users, NEW ids \in SUBSET EntryIds, BatchApprove(u, ids)
      PROVE  Before
  BY <1>1, <1>8 DEF BatchApprove, DoBatchApprove, Reviewable, SetReview, ResolveRejected,
                    Entry
<1>9. ASSUME NEW u \in Users, NEW ids \in SUBSET EntryIds, BatchReject(u, ids)
      PROVE  Before
  BY <1>1, <1>9 DEF BatchReject, DoBatchReject, Reviewable, SetReview
<1>10. ASSUME NEW u \in Users, NEW ids \in SUBSET EntryIds, NEW as \in SUBSET AbsenceIds,
              ClosePending(u, ids, as)
       PROVE  Before
  BY <1>1, <1>10 DEF ClosePending, DoClosePending, PendingEntries, PendingAbsences, AsDraft, SetReview
<1>11. CASE UNCHANGED entries
  BY <1>1, <1>11
<1> QED
  BY <1>3, <1>4, <1>5, <1>6, <1>7, <1>8, <1>9, <1>10, <1>11, AbsenceStepFrame
     DEF Next, EntryStep, NextDay, vars

LEMMA KeepsDecisionsStep ==
  ASSUME TypeOK, [Next]_vars
  PROVE  KeepsDecisions
<1> USE NoRowAssumption DEF TypeOK, HasAbsence, KeepsDecisions
<1>1. ASSUME NEW u \in Users, NEW b \in AbsenceIds, NEW from \in Days, NEW to \in Days,
             NEW asOf \in Days,
             (\E auto \in BOOLEAN : CreateAbsence(u, b, auto, from, to, asOf))
               \/ UpdateAbsence(u, b, from, to, asOf)
      PROVE  KeepsDecisions
  BY <1>1 DEF CreateAbsence, CanCreateAbsence, DoCreateAbsence, UpdateAbsence,
              CanUpdateAbsence, DoUpdateAbsence
<1>2. ASSUME NEW u \in Users, NEW b \in AbsenceIds,
             CancelAbsence(u, b) \/ ApproveAbsence(u, b) \/ RejectAbsence(u, b)
               \/ ApproveCancellation(u, b) \/ RejectCancellation(u, b)
               \/ RevokeAbsence(u, b)
      PROVE  KeepsDecisions
  BY <1>2 DEF CancelAbsence, CanCancelAbsence, DoCancelAbsence, ApproveAbsence,
              CanApproveAbsence, RejectAbsence, ApproveCancellation, RejectCancellation,
              CanReviewAbsence, RevokeAbsence, CanRevokeAbsence, SetStatus, WithStatus,
              SetAbsence
<1>3. ASSUME NEW u \in Users, NEW ids \in SUBSET EntryIds, NEW as \in SUBSET AbsenceIds,
              ClosePending(u, ids, as)
      PROVE  KeepsDecisions
  BY <1>3 DEF ClosePending, DoClosePending, PendingEntries, PendingAbsences, WithStatus, SetAbsence, Absence, AbsenceStatus
<1>4. CASE UNCHANGED absences
  BY <1>4
<1> QED
  BY <1>1, <1>2, <1>3, <1>4, EntryStepFrame DEF Next, AbsenceStep, NextDay, vars

\* Only a week reopening can add to what keeps a requested absence from being
\* approved.
THEOREM NoConflictAdded == Spec => NoNewConflict
<1>1. Inv /\ Inv' /\ [Next]_vars => [AddsNoConflict]_vars
  BY AddsNoConflictStep DEF Inv
<1> QED
  BY <1>1, Invariance, PTL DEF Spec, NoNewConflict

\* A decision on an absence is only ever undone by its cancellation.
THEOREM DecisionsKept == Spec => AbsenceLifecycle
<1>1. Inv /\ [Next]_vars => [KeepsDecisions]_vars
  BY KeepsDecisionsStep DEF Inv
<1> QED
  BY <1>1, Invariance, PTL DEF Spec, AbsenceLifecycle

----------------------------------------------------------------------------
(* The transactions: the inductive invariant                               *)

Weeks == {WeekOf[d] : d \in Days}

Args ==
  {<<>>} \cup Slot \cup (Users \X Weeks) \cup (BOOLEAN \X Days \X Days) \cup (Days \X Days)

Kinds ==
  {"none", "create", "update", "delete", "submit", "batch_approve", "batch_reject", "reopen",
   "create_absence", "update_absence"} \cup Decisions

Ops ==
  [do : Kinds, by : Users \cup {Nobody}, ids : SUBSET EntryIds, abs : SUBSET AbsenceIds,
   args : Args]

Request ==
  [by : Users \cup {Nobody}, asOf : Days \cup {Nobody}, wants : SUBSET Users, op : Ops]

Closing ==
  [user : Users \cup {Nobody}, stmt : 0..4, scanned : BOOLEAN,
   found : SUBSET (EntryIds \cup AbsenceIds), ids : SUBSET EntryIds, abs : SUBSET AbsenceIds]

Types ==
  /\ TypeOK
  /\ req \in [Requests -> Request] /\ holder \in [Users -> Requests \cup {Nobody}]
  /\ archived \subseteq Users /\ closing \in Closing

\* An operation by r about owners in W, with the rows it writes.
EntryOp(r, W, o) ==
  \/ \E i \in EntryIds, slot \in Slot :
       o \in {Op("create", r, {i}, {}, slot), Op("update", r, {i}, {}, slot)}
  \/ \E i \in EntryIds : o = Op("delete", r, {i}, {}, <<>>)
  \/ \E ids \in SUBSET EntryIds :
       o \in {Op("submit", r, ids, {}, <<>>), Op("batch_approve", r, ids, {}, <<>>),
              Op("batch_reject", r, ids, {}, <<>>)}
  \/ \E u \in W, d \in Days : o = Op("reopen", r, ReopenTargets(u, WeekOf[d]), {}, <<u, WeekOf[d]>>)

AbsenceOp(r, o) ==
  \E a \in AbsenceIds :
    \/ \E auto \in BOOLEAN, from, to \in Days :
         o = Op("create_absence", r, {}, {a}, <<auto, from, to>>)
    \/ \E from, to \in Days : o = Op("update_absence", r, {}, {a}, <<from, to>>)
    \/ \E do \in Decisions : o = Op(do, r, {}, {a}, <<>>)

\* A decided operation: its rows belong to the owners the request has locked, and its
\* checks pass.
Decided(r, W, o) ==
  /\ r \in Users
  /\ EntryOp(r, W, o) \/ AbsenceOp(r, o)
  /\ OwnersOf(o.ids, o.abs) \subseteq W /\ (Inserts(o) => r \in W)
  /\ Allowed(o)

Going(p) ==
  /\ req[p].by # Nobody => req[p].asOf \in Days /\ req[p].asOf <= today
  /\ req[p].op # NoOp => req[p].by # Nobody /\ req[p].wants \subseteq Held(p)
  /\ \A r \in Users, W \in SUBSET Users, o \in Ops :
       /\ req[p].by = r /\ req[p].wants = W /\ req[p].op = o
       /\ o # NoOp
       => Decided(r, W, o)

OpInv == \A p \in Requests : Going(p)

\* No row is written by two transactions.
RowsInv ==
  \A p \in Requests :
    /\ req[p].op.ids \cap closing.ids = {} /\ req[p].op.abs \cap closing.abs = {}
    /\ \A q \in Requests \ {p} : /\ req[p].op.ids \cap req[q].op.ids = {}
                                 /\ req[p].op.abs \cap req[q].op.abs = {}

\* What an archiving has written is still pending for everybody else.
ClosingInv ==
  /\ closing.ids \subseteq PendingEntries(closing.user)
  /\ closing.abs \subseteq PendingAbsences(closing.user)
  /\ closing.stmt # 0 => closing.user \in Users
  /\ closing.scanned => closing.stmt \in DOMAIN Statements

TxInv == Types /\ OpInv /\ RowsInv /\ ClosingInv

----------------------------------------------------------------------------
(* What an operation sees of other transactions                            *)

\* An entry is as it was, or archiving has put it back to draft.
EntryKept(i) ==
  \/ entries'[i] = entries[i]
  \/ HasEntry(i) /\ entries[i].status = "submitted" /\ entries'[i] = AsDraft(entries[i])

\* An absence is as it was, or archiving has settled it.
AbsenceKept(a) ==
  \/ absences'[a] = absences[a]
  \/ /\ HasAbsence(a) /\ absences[a].status = "requested"
     /\ absences'[a] = WithStatus(absences[a], "rejected")
  \/ /\ HasAbsence(a) /\ absences[a].status = "cancellation_pending"
     /\ absences'[a] = WithStatus(absences[a], "approved")

\* A row that neither is nor was one of an owner in W.
EntryOfOthers(W, i) ==
  /\ HasEntry(i) => entries[i].user \notin W
  /\ HasEntry(i)' => entries'[i].user \notin W

AbsenceOfOthers(W, a) ==
  /\ HasAbsence(a) => absences[a].user \notin W
  /\ HasAbsence(a)' => absences'[a].user \notin W

\* What others may do while an operation on these rows of owners in W is under way.
Undisturbed(W, ids, abs) ==
  /\ today <= today'
  /\ \A i \in EntryIds : EntryKept(i) \/ EntryOfOthers(W, i)
  /\ \A a \in AbsenceIds : AbsenceKept(a) \/ AbsenceOfOthers(W, a)
  /\ \A i \in ids : entries'[i] = entries[i]
  /\ \A a \in abs : absences'[a] = absences[a]

LEMMA TheOne ==
  ASSUME NEW x
  PROVE  The({x}) = x
BY DEF The

\* What an operation about owners in W can tell of their entries.
LEMMA EntriesSeen ==
  ASSUME TypeOK, NEW W, NEW i \in EntryIds, EntryKept(i) \/ EntryOfOthers(W, i),
         NEW u \in W
  PROVE  /\ entries'[i] # NoRow /\ entries'[i].user = u
              <=> entries[i] # NoRow /\ entries[i].user = u
         /\ entries[i] # NoRow /\ entries[i].user = u =>
              /\ entries'[i].day = entries[i].day
              /\ entries'[i].start = entries[i].start /\ entries'[i].end = entries[i].end
              /\ entries'[i].status = "rejected" <=> entries[i].status = "rejected"
              /\ \/ entries'[i] = entries[i]
                 \/ entries[i].status = "submitted" /\ entries'[i].status = "draft"
<1>1. entries[i] # NoRow => AsDraft(entries[i]) \in Entry
  BY UsersAssumption DEF TypeOK, AsDraft, SetReview, Entry, EntryStatus
<1>2. entries[i] # NoRow =>
        /\ AsDraft(entries[i]) # NoRow /\ AsDraft(entries[i]).user = entries[i].user
        /\ AsDraft(entries[i]).day = entries[i].day
        /\ AsDraft(entries[i]).start = entries[i].start
        /\ AsDraft(entries[i]).end = entries[i].end
        /\ AsDraft(entries[i]).status = "draft"
  BY <1>1, NoRowAssumption DEF AsDraft, SetReview
<1>3. QED
  BY <1>2 DEF EntryKept, EntryOfOthers, HasEntry

LEMMA AbsencesSeen ==
  ASSUME TypeOK, NEW W, NEW a \in AbsenceIds, AbsenceKept(a) \/ AbsenceOfOthers(W, a),
         NEW u \in W
  PROVE  /\ absences'[a] # NoRow /\ absences'[a].user = u
              <=> absences[a] # NoRow /\ absences[a].user = u
         /\ absences[a] # NoRow /\ absences[a].user = u =>
              /\ absences'[a].from = absences[a].from /\ absences'[a].to = absences[a].to
              /\ absences'[a].auto = absences[a].auto
              /\ Blocking(absences'[a]) <=> Blocking(absences[a])
              /\ Active(absences'[a]) => Active(absences[a])
<1>1. \A s \in {"rejected", "approved"} : absences[a] # NoRow =>
        /\ WithStatus(absences[a], s) \in Absence
        /\ WithStatus(absences[a], s).user = absences[a].user
        /\ WithStatus(absences[a], s).from = absences[a].from
        /\ WithStatus(absences[a], s).to = absences[a].to
        /\ WithStatus(absences[a], s).auto = absences[a].auto
        /\ WithStatus(absences[a], s).status = s
  BY DEF TypeOK, WithStatus, SetAbsence, Absence, AbsenceStatus
<1>2. \A s \in {"rejected", "approved"} : absences[a] # NoRow =>
        WithStatus(absences[a], s) # NoRow
  BY <1>1, NoRowAssumption
<1>3. CASE absences'[a] = absences[a]
  BY <1>3
<1>4. CASE AbsenceOfOthers(W, a)
  BY <1>4 DEF AbsenceOfOthers, HasAbsence
<1>5. CASE /\ HasAbsence(a) /\ absences[a].status = "requested"
           /\ absences'[a] = WithStatus(absences[a], "rejected")
  BY <1>1, <1>2, <1>5 DEF HasAbsence, Blocking, Active
<1>6. CASE /\ HasAbsence(a) /\ absences[a].status = "cancellation_pending"
           /\ absences'[a] = WithStatus(absences[a], "approved")
  BY <1>1, <1>2, <1>6 DEF HasAbsence, Blocking, Active
<1>7. QED
  BY <1>3, <1>4, <1>5, <1>6 DEF AbsenceKept

----------------------------------------------------------------------------
(* The checks of an operation still pass                                   *)

LEMMA ValidEntryStays ==
  ASSUME TypeOK, today' \in Days, NEW W, NEW ids, NEW abs, Undisturbed(W, ids, abs),
         NEW u \in W, NEW slot \in Slot, NEW i, ValidEntry(u, slot, i)
  PROVE  ValidEntry(u, slot, i)'
<1>1. slot.day <= today'
  <2>1. slot.day \in Int /\ today \in Int /\ today' \in Int
    BY CalendarAssumption DEF TypeOK, Slot
  <2>2. slot.day <= today /\ today <= today'
    BY DEF ValidEntry, Undisturbed
  <2>3. QED
    BY <2>1, <2>2
<1>2. ASSUME NEW j \in EntryIds \ {i}, HasEntry(j)', entries'[j].user = u,
             entries'[j].day = slot.day, entries'[j].status # "rejected"
      PROVE  ~Overlap(slot, entries'[j])
  <2>1. /\ entries[j] # NoRow /\ entries[j].user = u /\ entries[j].day = slot.day
        /\ entries[j].status # "rejected"
        /\ entries'[j].start = entries[j].start /\ entries'[j].end = entries[j].end
    BY <1>2, EntriesSeen DEF Undisturbed, HasEntry
  <2>2. ~Overlap(slot, entries[j])
    BY <1>2, <2>1 DEF ValidEntry, HasEntry
  <2>3. QED
    BY <2>1, <2>2 DEF Overlap
<1>3. ASSUME NEW a \in AbsenceIds, HasAbsence(a)', absences'[a].user = u,
             Active(absences'[a]), ~absences'[a].auto
      PROVE  ~Covers(absences'[a], slot.day)
  <2>1. /\ absences[a] # NoRow /\ absences[a].user = u /\ Active(absences[a])
        /\ ~absences[a].auto
        /\ absences'[a].from = absences[a].from /\ absences'[a].to = absences[a].to
    BY <1>3, AbsencesSeen DEF Undisturbed, HasAbsence
  <2>2. ~Covers(absences[a], slot.day)
    BY <2>1 DEF ValidEntry, HasAbsence
  <2>3. QED
    BY <2>1, <2>2 DEF Covers
<1>4. QED
  BY <1>1, <1>2, <1>3 DEF ValidEntry

LEMMA BlockedStays ==
  ASSUME TypeOK, NEW W, NEW ids, NEW abs, Undisturbed(W, ids, abs), NEW e, e.user \in W,
         ~OnBlockingAbsence(e)
  PROVE  ~OnBlockingAbsence(e)'
<1>1. SUFFICES ASSUME NEW a \in AbsenceIds, HasAbsence(a)', absences'[a].user = e.user,
                      Blocking(absences'[a]), Covers(absences'[a], e.day)
               PROVE  FALSE
  BY DEF OnBlockingAbsence
<1>2. /\ absences[a] # NoRow /\ absences[a].user = e.user /\ Blocking(absences[a])
      /\ absences'[a].from = absences[a].from /\ absences'[a].to = absences[a].to
  BY <1>1, AbsencesSeen DEF Undisturbed, HasAbsence
<1>3. QED
  BY <1>1, <1>2 DEF OnBlockingAbsence, HasAbsence, Covers

LEMMA ApartStays ==
  ASSUME TypeOK, NEW W, NEW ids, NEW abs, Undisturbed(W, ids, abs), NEW u \in W,
         NEW from, NEW to, NEW a, NoAbsenceOverlap(u, from, to, a)
  PROVE  NoAbsenceOverlap(u, from, to, a)'
<1>1. SUFFICES ASSUME NEW b \in AbsenceIds \ {a}, HasAbsence(b)', absences'[b].user = u,
                      Active(absences'[b])
               PROVE  ~(absences'[b].to >= from /\ absences'[b].from <= to)
  BY DEF NoAbsenceOverlap
<1>2. /\ absences[b] # NoRow /\ absences[b].user = u /\ Active(absences[b])
      /\ absences'[b].from = absences[b].from /\ absences'[b].to = absences[b].to
  BY <1>1, AbsencesSeen DEF Undisturbed, HasAbsence
<1>3. QED
  BY <1>2 DEF NoAbsenceOverlap, HasAbsence

LEMMA NoConflictStays ==
  ASSUME TypeOK, NEW W, NEW ids, NEW abs, Undisturbed(W, ids, abs), NEW ab, ab.user \in W,
         NoTimeConflict(ab)
  PROVE  NoTimeConflict(ab)'
<1>1. SUFFICES ASSUME ~ab.auto, NEW i \in EntryIds, HasEntry(i)', entries'[i].user = ab.user,
                      entries'[i].status # "rejected"
               PROVE  ~Covers(ab, entries'[i].day)
  BY DEF NoTimeConflict
<1>2. /\ entries[i] # NoRow /\ entries[i].user = ab.user /\ entries[i].status # "rejected"
      /\ entries'[i].day = entries[i].day
  BY <1>1, EntriesSeen DEF Undisturbed, HasEntry
<1>3. QED
  BY <1>1, <1>2 DEF NoTimeConflict, HasEntry

\* The rows a week's reopening works on are those it has written.
LEMMA TargetsStay ==
  ASSUME TypeOK, NEW W, NEW abs, NEW u \in W, NEW w, Undisturbed(W, ReopenTargets(u, w), abs)
  PROVE  ReopenTargets(u, w)' = ReopenTargets(u, w)
<1>1. ASSUME NEW i \in ReopenTargets(u, w)
      PROVE  i \in ReopenTargets(u, w)'
  BY DEF Undisturbed, ReopenTargets, HasEntry
<1>2. ASSUME NEW i \in EntryIds, i \in ReopenTargets(u, w)'
      PROVE  i \in ReopenTargets(u, w)
  <2>1. entries'[i] # NoRow /\ entries'[i].user = u /\ WeekOf[entries'[i].day] = w
        /\ Reopenable(entries'[i])
    BY <1>2 DEF ReopenTargets, HasEntry
  <2>2. /\ entries[i] # NoRow /\ entries[i].user = u /\ entries'[i].day = entries[i].day
        /\ \/ entries'[i] = entries[i]
           \/ entries[i].status = "submitted" /\ entries'[i].status = "draft"
    BY <1>2, <2>1, EntriesSeen DEF Undisturbed
  <2>3. QED
    BY <2>1, <2>2 DEF ReopenTargets, Reopenable, HasEntry
<1>3. QED
  BY <1>1, <1>2 DEF ReopenTargets

LEMMA ReopenStays ==
  ASSUME TypeOK, NEW W, NEW abs, NEW u \in W, NEW w, Undisturbed(W, ReopenTargets(u, w), abs),
         CanPerformReopen(u, w)
  PROVE  CanPerformReopen(u, w)'
<1> DEFINE T == ReopenTargets(u, w)
<1>1. ReopenTargets(u, w)' = T /\ T # {}
  BY TargetsStay DEF CanPerformReopen
<1>2. \A t \in T : entries'[t] = entries[t]
  BY DEF Undisturbed
<1>3. ValidAfterReopen(u, T)
  BY DEF CanPerformReopen
<1> HIDE DEF T
<1>4. SUFFICES ASSUME NEW i \in EntryIds, NEW j \in EntryIds, i # j,
                      \A k \in {i, j} :
                        /\ entries'[k] # NoRow /\ entries'[k].user = u
                        /\ \E t \in T : entries'[t].day = entries'[k].day
                        /\ entries'[k].status # "rejected" \/ k \in T,
                      entries'[i].day = entries'[j].day
               PROVE  ~Overlap(entries'[i], entries'[j])
  BY <1>1 DEF CanPerformReopen, ValidAfterReopen, HasEntry
<1>5. \A k \in {i, j} :
        /\ entries[k] # NoRow /\ entries[k].user = u
        /\ entries'[k].day = entries[k].day
        /\ entries'[k].start = entries[k].start /\ entries'[k].end = entries[k].end
        /\ entries'[k].status = "rejected" <=> entries[k].status = "rejected"
  BY <1>4, EntriesSeen DEF Undisturbed
<1>6. \A k \in {i, j} :
        /\ \E t \in T : entries[t].day = entries[k].day
        /\ entries[k].status # "rejected" \/ k \in T
  BY <1>2, <1>4, <1>5
<1>7. ~Overlap(entries[i], entries[j])
  BY <1>3, <1>4, <1>5, <1>6 DEF ValidAfterReopen, HasEntry
<1>8. QED
  BY <1>5, <1>7 DEF Overlap

LEMMA EntryOpStays ==
  ASSUME TypeOK, today' \in Days, NEW r, NEW W \in SUBSET Users, NEW o, Decided(r, W, o),
         Undisturbed(W, o.ids, o.abs), EntryOp(r, W, o)
  PROVE  EntryOp(r, W, o)' /\ Allowed(o)'
<1>1. ASSUME NEW i \in EntryIds, NEW slot \in Slot, o = Op("create", r, {i}, {}, slot)
      PROVE  EntryOp(r, W, o)' /\ Allowed(o)'
  <2>1. /\ o.do = "create" /\ o.by = r /\ The(o.ids) = i /\ o.args = slot /\ o.ids = {i}
        /\ Inserts(o)
    BY <1>1, TheOne DEF Op, Inserts
  <2>2. CanCreateEntry(r, i, slot) /\ r \in W
    BY <2>1 DEF Decided, Allowed
  <2>3. ValidEntry(r, slot, i)'
    BY <2>2, ValidEntryStays DEF CanCreateEntry
  <2>4. CanCreateEntry(r, i, slot)'
    BY <2>1, <2>2, <2>3 DEF CanCreateEntry, HasEntry, Undisturbed
  <2>5. QED
    BY <1>1, <2>1, <2>4 DEF Allowed, EntryOp
<1>2. ASSUME NEW i \in EntryIds, NEW slot \in Slot, o = Op("update", r, {i}, {}, slot)
      PROVE  EntryOp(r, W, o)' /\ Allowed(o)'
  <2>1. o.do = "update" /\ o.by = r /\ The(o.ids) = i /\ o.args = slot /\ o.ids = {i}
    BY <1>2, TheOne DEF Op
  <2>2. CanUpdateEntry(r, i, slot)
    BY <2>1 DEF Allowed, Decided
  <2>3. entries'[i] = entries[i]
    BY <2>1 DEF Undisturbed
  <2>4. entries[i].user \in W
    BY <2>1, <2>2 DEF Decided, OwnersOf, CanUpdateEntry
  <2>5. PICK u \in W : u = entries[i].user
    BY <2>4
  <2>6. ValidEntry(u, slot, i)'
    BY <2>2, <2>5, ValidEntryStays DEF CanUpdateEntry
  <2>7. CanUpdateEntry(r, i, slot)'
    BY <2>2, <2>3, <2>5, <2>6 DEF CanUpdateEntry, AdminCorrection, HasEntry
  <2>8. QED
    BY <1>2, <2>1, <2>7 DEF Allowed, EntryOp
<1>3. ASSUME NEW i \in EntryIds, o = Op("delete", r, {i}, {}, <<>>)
      PROVE  EntryOp(r, W, o)' /\ Allowed(o)'
  <2>1. o.do = "delete" /\ o.by = r /\ The(o.ids) = i /\ o.ids = {i}
    BY <1>3, TheOne DEF Op
  <2>2. CanDeleteEntry(r, i) /\ entries'[i] = entries[i]
    BY <2>1 DEF Allowed, Decided, Undisturbed
  <2>3. CanDeleteEntry(r, i)'
    BY <2>2 DEF CanDeleteEntry, HasEntry
  <2>4. QED
    BY <1>3, <2>1, <2>3 DEF Allowed, EntryOp
<1>4. ASSUME NEW ids \in SUBSET EntryIds, o = Op("submit", r, ids, {}, <<>>)
      PROVE  EntryOp(r, W, o)' /\ Allowed(o)'
  <2>1. o.do = "submit" /\ o.by = r /\ o.ids = ids
    BY <1>4 DEF Op
  <2>2. CanSubmitBatch(r, ids) /\ \A i \in ids : entries'[i] = entries[i]
    BY <2>1 DEF Allowed, Decided, Undisturbed
  <2>3. DraftsOf(r, ids)' = DraftsOf(r, ids)
    BY <2>2 DEF DraftsOf, HasEntry
  <2>4. ASSUME NEW i \in DraftsOf(r, ids)
        PROVE  ~OnBlockingAbsence(entries[i])'
    <3>1. entries[i].user \in W /\ entries'[i] = entries[i] /\ ~OnBlockingAbsence(entries[i])
      BY <2>1, <2>2 DEF Decided, OwnersOf, DraftsOf, CanSubmitBatch
    <3>2. PICK e : e = entries[i]
      OBVIOUS
    <3>3. ~OnBlockingAbsence(e)'
      BY <3>1, <3>2, BlockedStays
    <3>4. QED
      BY <3>1, <3>2, <3>3 DEF OnBlockingAbsence
  <2>5. CanSubmitBatch(r, ids)'
    BY <2>2, <2>3, <2>4 DEF CanSubmitBatch, HasEntry
  <2>6. QED
    BY <1>4, <2>1, <2>5 DEF Allowed, EntryOp
<1>5. ASSUME NEW ids \in SUBSET EntryIds, o = Op("batch_approve", r, ids, {}, <<>>)
      PROVE  EntryOp(r, W, o)' /\ Allowed(o)'
  <2>1. o.do = "batch_approve" /\ o.by = r /\ o.ids = ids
    BY <1>5 DEF Op
  <2>2. CanBatchApprove(r, ids) /\ \A i \in ids : entries'[i] = entries[i]
    BY <2>1 DEF Allowed, Decided, Undisturbed
  <2>3. Reviewable(r, ids)' = Reviewable(r, ids)
    BY <2>2 DEF Reviewable, HasEntry, MayReview
  <2>4. ASSUME NEW i \in Reviewable(r, ids)
        PROVE  ~OnBlockingAbsence(entries[i])'
    <3>1. entries[i].user \in W /\ entries'[i] = entries[i] /\ ~OnBlockingAbsence(entries[i])
      BY <2>1, <2>2 DEF Decided, OwnersOf, Reviewable, CanBatchApprove
    <3>2. PICK e : e = entries[i]
      OBVIOUS
    <3>3. ~OnBlockingAbsence(e)'
      BY <3>1, <3>2, BlockedStays
    <3>4. QED
      BY <3>1, <3>2, <3>3 DEF OnBlockingAbsence
  <2>5. CanBatchApprove(r, ids)'
    BY <2>2, <2>3, <2>4 DEF CanBatchApprove
  <2>6. QED
    BY <1>5, <2>1, <2>5 DEF Allowed, EntryOp
<1>6. ASSUME NEW ids \in SUBSET EntryIds, o = Op("batch_reject", r, ids, {}, <<>>)
      PROVE  EntryOp(r, W, o)' /\ Allowed(o)'
  <2>1. o.do = "batch_reject" /\ o.by = r /\ o.ids = ids
    BY <1>6 DEF Op
  <2>2. CanBatchReject(r, ids) /\ \A i \in ids : entries'[i] = entries[i]
    BY <2>1 DEF Allowed, Decided, Undisturbed
  <2>3. CanBatchReject(r, ids)'
    BY <2>2 DEF CanBatchReject, Reviewable, HasEntry, MayReview
  <2>4. QED
    BY <1>6, <2>1, <2>3 DEF Allowed, EntryOp
<1>7. ASSUME NEW u \in W, NEW d \in Days,
             o = Op("reopen", r, ReopenTargets(u, WeekOf[d]), {}, <<u, WeekOf[d]>>)
      PROVE  EntryOp(r, W, o)' /\ Allowed(o)'
  <2>1. /\ o.do = "reopen" /\ o.by = r /\ o.ids = ReopenTargets(u, WeekOf[d])
        /\ o.args[1] = u /\ o.args[2] = WeekOf[d]
    BY <1>7 DEF Op
  <2>2. CanPerformReopen(u, WeekOf[d])
    BY <2>1 DEF Allowed, Decided
  <2>3. CanPerformReopen(u, WeekOf[d])'
    BY <2>1, <2>2, ReopenStays
  <2>4. ReopenTargets(u, WeekOf[d])' = ReopenTargets(u, WeekOf[d])
    BY <2>1, TargetsStay
  <2>5. EntryOp(r, W, o)'
    BY <1>7, <2>4 DEF EntryOp, Op
  <2>6. QED
    BY <2>1, <2>3, <2>5 DEF Allowed
<1>8. QED
  BY <1>1, <1>2, <1>3, <1>4, <1>5, <1>6, <1>7 DEF EntryOp

LEMMA AbsenceOpStays ==
  ASSUME TypeOK, today' \in Days, NEW r, NEW W \in SUBSET Users, NEW o, Decided(r, W, o),
         Undisturbed(W, o.ids, o.abs), AbsenceOp(r, o)
  PROVE  Allowed(o)'
<1>1. ASSUME NEW a \in AbsenceIds, NEW auto \in BOOLEAN, NEW from \in Days, NEW to \in Days,
             o = Op("create_absence", r, {}, {a}, <<auto, from, to>>)
      PROVE  Allowed(o)'
  <2>1. /\ o.do = "create_absence" /\ o.by = r /\ The(o.abs) = a /\ o.abs = {a}
        /\ o.args[1] = auto /\ o.args[2] = from /\ o.args[3] = to /\ Inserts(o)
    BY <1>1, TheOne DEF Op, Inserts
  <2>2. CanCreateAbsence(r, a, auto, from, to) /\ r \in W
    BY <2>1 DEF Decided, Allowed
  <2>3. NoAbsenceOverlap(r, from, to, a)'
    BY <2>2, ApartStays DEF CanCreateAbsence
  <2>4. CanCreateAbsence(r, a, auto, from, to)'
    BY <2>1, <2>2, <2>3 DEF CanCreateAbsence, HasAbsence, Undisturbed
  <2>5. QED
    BY <2>1, <2>4 DEF Allowed
<1>2. ASSUME NEW a \in AbsenceIds, NEW from \in Days, NEW to \in Days,
             o = Op("update_absence", r, {}, {a}, <<from, to>>)
      PROVE  Allowed(o)'
  <2>1. /\ o.do = "update_absence" /\ o.by = r /\ The(o.abs) = a /\ o.abs = {a}
        /\ o.args[1] = from /\ o.args[2] = to
    BY <1>2, TheOne DEF Op
  <2>2. CanUpdateAbsence(r, a, from, to) /\ absences'[a] = absences[a]
    BY <2>1 DEF Decided, Allowed, Undisturbed
  <2>3. r \in W
    BY <2>1, <2>2 DEF Decided, OwnersOf, CanUpdateAbsence
  <2>4. NoAbsenceOverlap(r, from, to, a)'
    BY <2>2, <2>3, ApartStays DEF CanUpdateAbsence
  <2>5. CanUpdateAbsence(r, a, from, to)'
    BY <2>2, <2>4 DEF CanUpdateAbsence, HasAbsence
  <2>6. QED
    BY <2>1, <2>5 DEF Allowed
<1>3. ASSUME NEW a \in AbsenceIds, NEW do \in Decisions, o = Op(do, r, {}, {a}, <<>>)
      PROVE  Allowed(o)'
  <2>1. o.do = do /\ o.by = r /\ The(o.abs) = a /\ o.abs = {a}
    BY <1>3, TheOne DEF Op
  <2>2. absences'[a] = absences[a]
    BY <2>1 DEF Undisturbed
  <2>3. ASSUME NEW s, CanReviewAbsence(r, a, s)
        PROVE  CanReviewAbsence(r, a, s)'
    BY <2>2, <2>3 DEF CanReviewAbsence, HasAbsence, MayReview
  <2>4. CASE do = "approve"
    <3>1. CanReviewAbsence(r, a, "requested") /\ NoTimeConflict(absences[a])
      BY <2>1, <2>4 DEF Decided, Allowed, CanApproveAbsence
    <3>2. absences[a].user \in W
      BY <2>1, <3>1 DEF Decided, OwnersOf, CanReviewAbsence
    <3>3. PICK ab : ab = absences[a]
      OBVIOUS
    <3>4. NoTimeConflict(ab)'
      BY <3>1, <3>2, <3>3, NoConflictStays
    <3>5. NoTimeConflict(absences[a])'
      BY <2>2, <3>3, <3>4 DEF NoTimeConflict
    <3>6. CanApproveAbsence(r, a)'
      BY <2>3, <3>1, <3>5 DEF CanApproveAbsence
    <3>7. QED
      BY <2>1, <2>4, <3>6 DEF Allowed
  <2>5. CASE do = "cancel"
    <3>1. CanCancelAbsence(r, a)
      BY <2>1, <2>5 DEF Decided, Allowed
    <3>2. CanCancelAbsence(r, a)'
      BY <2>2, <3>1 DEF CanCancelAbsence, HasAbsence
    <3>3. QED
      BY <2>1, <2>5, <3>2 DEF Allowed
  <2>6. CASE do = "revoke"
    <3>1. CanRevokeAbsence(r, a)
      BY <2>1, <2>6 DEF Decided, Allowed
    <3>2. CanRevokeAbsence(r, a)'
      BY <2>2, <3>1 DEF CanRevokeAbsence, HasAbsence
    <3>3. QED
      BY <2>1, <2>6, <3>2 DEF Allowed
  <2>7. CASE do = "reject"
    <3>1. CanReviewAbsence(r, a, "requested")
      BY <2>1, <2>7 DEF Decided, Allowed
    <3>2. QED
      BY <2>1, <2>3, <2>7, <3>1 DEF Allowed
  <2>8. CASE do \in {"approve_cancellation", "reject_cancellation"}
    <3>1. CanReviewAbsence(r, a, "cancellation_pending")
      BY <2>1, <2>8 DEF Decided, Allowed
    <3>2. QED
      BY <2>1, <2>3, <2>8, <3>1 DEF Allowed
  <2>9. QED
    BY <2>4, <2>5, <2>6, <2>7, <2>8 DEF Decisions
<1>4. QED
  BY <1>1, <1>2, <1>3 DEF AbsenceOp

\* Whatever others do meanwhile, what a request has checked still holds.
LEMMA DecidedStays ==
  ASSUME TypeOK, today' \in Days, NEW r, NEW W \in SUBSET Users, NEW o, Decided(r, W, o),
         Undisturbed(W, o.ids, o.abs)
  PROVE  Decided(r, W, o)'
<1>1. OwnersOf(o.ids, o.abs)' = OwnersOf(o.ids, o.abs)
  BY DEF OwnersOf, Undisturbed, HasEntry, HasAbsence
<1>2. (EntryOp(r, W, o) \/ AbsenceOp(r, o))' /\ Allowed(o)'
  BY EntryOpStays, AbsenceOpStays DEF Decided, AbsenceOp
<1>3. QED
  BY <1>1, <1>2 DEF Decided

----------------------------------------------------------------------------
(* A commit is a step of the ledger and writes rows of the locked owners   *)

EntryWritten(W, ids, i) ==
  \/ entries'[i] = entries[i]
  \/ /\ i \in ids \/ (HasEntry(i) /\ entries[i].status = "rejected")
     /\ HasEntry(i) => entries[i].user \in W
     /\ HasEntry(i)' => entries'[i].user \in W

AbsenceWritten(W, abs, a) ==
  \/ absences'[a] = absences[a]
  \/ /\ a \in abs
     /\ HasAbsence(a) => absences[a].user \in W
     /\ HasAbsence(a)' => absences'[a].user \in W

\* Resolving writes rejected rows of the owners of the replacing rows.
LEMMA ResolvedRows ==
  ASSUME NEW E, NEW repl, NEW i \in EntryIds
  PROVE  \/ ResolveRejected(E, repl)[i] = E[i]
         \/ /\ E[i] # NoRow /\ E[i].status = "rejected"
            /\ ResolveRejected(E, repl)[i].user = E[i].user
            /\ \E j \in repl : E[j].user = E[i].user
<1>1. CASE /\ E[i] # NoRow /\ E[i].status = "rejected" /\ ~E[i].resolved
           /\ \E j \in repl : /\ j # i /\ E[j].status = "approved"
                              /\ SameDay(E[i], E[j]) /\ Overlap(E[i], E[j])
  <2>1. ResolveRejected(E, repl)[i] = SetReview(E[i], "rejected", TRUE, E[i].reviewer)
    BY <1>1 DEF ResolveRejected
  <2>2. ResolveRejected(E, repl)[i].user = E[i].user
    BY <2>1 DEF SetReview
  <2>3. QED
    BY <1>1, <2>2 DEF SameDay
<1>2. CASE ~(/\ E[i] # NoRow /\ E[i].status = "rejected" /\ ~E[i].resolved
             /\ \E j \in repl : /\ j # i /\ E[j].status = "approved"
                                /\ SameDay(E[i], E[j]) /\ Overlap(E[i], E[j]))
  BY <1>2 DEF ResolveRejected
<1>3. QED
  BY <1>1, <1>2

\* The rows of a batch, given review columns, and the rows they replace.
LEMMA BatchWritten ==
  ASSUME TypeOK, NEW W, NEW ids \in SUBSET EntryIds, NEW s, NEW rev,
         NEW E, E = [i \in EntryIds |->
                      IF i \in ids THEN SetReview(entries[i], s, entries[i].resolved, rev)
                      ELSE entries[i]],
         \A i \in ids : HasEntry(i) /\ entries[i].user \in W,
         entries' = ResolveRejected(E, ids)
  PROVE  \A i \in EntryIds : EntryWritten(W, ids, i)
<1>1. \A i \in EntryIds : i \notin ids => E[i] = entries[i]
  OBVIOUS
<1>2. \A i \in ids : E[i].user = entries[i].user
  BY DEF SetReview
<1>3. SUFFICES ASSUME NEW i \in EntryIds
               PROVE  EntryWritten(W, ids, i)
  OBVIOUS
<1>4. CASE entries'[i] = E[i]
  BY <1>1, <1>2, <1>4 DEF EntryWritten
<1>5. CASE /\ E[i] # NoRow /\ E[i].status = "rejected"
           /\ entries'[i].user = E[i].user
           /\ \E j \in ids : E[j].user = E[i].user
  BY <1>1, <1>2, <1>5 DEF EntryWritten, HasEntry
<1>6. QED
  BY <1>4, <1>5, ResolvedRows

LEMMA EntryCommit ==
  ASSUME TypeOK, NEW r, NEW W \in SUBSET Users, NEW o, NEW asOf, Decided(r, W, o),
         EntryOp(r, W, o), Write(o, asOf)
  PROVE  /\ EntryStep
         /\ UNCHANGED <<absences, today>>
         /\ \A i \in EntryIds : EntryWritten(W, o.ids, i)
<1> USE DEF TypeOK
<1>r. r \in Users
  BY DEF Decided
<1>1. ASSUME NEW i \in EntryIds, NEW slot \in Slot, o = Op("create", r, {i}, {}, slot)
      PROVE  /\ EntryStep /\ UNCHANGED <<absences, today>>
             /\ \A k \in EntryIds : EntryWritten(W, o.ids, k)
  <2>1. /\ o.do = "create" /\ o.by = r /\ The(o.ids) = i /\ o.args = slot /\ o.ids = {i}
        /\ Inserts(o)
    BY <1>1, TheOne DEF Op, Inserts
  <2>2. CanCreateEntry(r, i, slot) /\ r \in W
    BY <2>1 DEF Decided, Allowed
  <2>3. DoCreateEntry(r, i, slot)
    BY <2>1 DEF Write
  <2>4. \A k \in EntryIds : EntryWritten(W, o.ids, k)
    BY <2>1, <2>2, <2>3 DEF DoCreateEntry, EntryWritten, CanCreateEntry, HasEntry
  <2>5. QED
    BY <1>r, <2>2, <2>3, <2>4 DEF EntryStep, CreateEntry, DoCreateEntry
<1>2. ASSUME NEW i \in EntryIds, NEW slot \in Slot, o = Op("update", r, {i}, {}, slot)
      PROVE  /\ EntryStep /\ UNCHANGED <<absences, today>>
             /\ \A k \in EntryIds : EntryWritten(W, o.ids, k)
  <2>1. o.do = "update" /\ o.by = r /\ The(o.ids) = i /\ o.args = slot /\ o.ids = {i}
    BY <1>2, TheOne DEF Op
  <2>2. CanUpdateEntry(r, i, slot)
    BY <2>1 DEF Allowed, Decided
  <2>3. DoUpdateEntry(r, i, slot)
    BY <2>1 DEF Write
  <2>4. HasEntry(i) /\ entries[i].user \in W
    BY <2>1, <2>2 DEF Decided, OwnersOf, CanUpdateEntry
  <2>5. PICK moved : moved = [entries EXCEPT ![i] = SetSlot(entries[i], slot)]
    OBVIOUS
  <2>6. entries' = ResolveRejected(moved, {i}) \/ entries' = moved
    BY <2>3, <2>5 DEF DoUpdateEntry
  <2>7. /\ moved[i].user = entries[i].user
        /\ \A k \in EntryIds : k # i => moved[k] = entries[k]
    BY <2>5 DEF SetSlot
  <2>8. \A k \in EntryIds : EntryWritten(W, o.ids, k)
    <3>1. SUFFICES ASSUME NEW k \in EntryIds
                   PROVE  EntryWritten(W, o.ids, k)
      OBVIOUS
    <3>2. CASE entries'[k] = moved[k]
      BY <2>1, <2>4, <2>7, <3>2 DEF EntryWritten
    <3>3. CASE /\ moved[k] # NoRow /\ moved[k].status = "rejected"
               /\ entries'[k].user = moved[k].user
               /\ \E j \in {i} : moved[j].user = moved[k].user
      BY <2>1, <2>4, <2>7, <3>3 DEF EntryWritten, HasEntry
    <3>4. QED
      BY <2>6, <3>2, <3>3, ResolvedRows
  <2>9. QED
    BY <1>r, <2>2, <2>3, <2>8 DEF EntryStep, UpdateEntry, DoUpdateEntry
<1>3. ASSUME NEW i \in EntryIds, o = Op("delete", r, {i}, {}, <<>>)
      PROVE  /\ EntryStep /\ UNCHANGED <<absences, today>>
             /\ \A k \in EntryIds : EntryWritten(W, o.ids, k)
  <2>1. o.do = "delete" /\ o.by = r /\ The(o.ids) = i /\ o.ids = {i}
    BY <1>3, TheOne DEF Op
  <2>2. CanDeleteEntry(r, i)
    BY <2>1 DEF Allowed, Decided
  <2>3. DoDeleteEntry(r, i)
    BY <2>1 DEF Write
  <2>4. HasEntry(i) /\ entries[i].user \in W
    BY <2>1, <2>2 DEF Decided, OwnersOf, CanDeleteEntry
  <2>5. \A k \in EntryIds : EntryWritten(W, o.ids, k)
    BY <2>1, <2>3, <2>4 DEF DoDeleteEntry, EntryWritten, HasEntry
  <2>6. QED
    BY <1>r, <2>2, <2>3, <2>5 DEF EntryStep, DeleteEntry, DoDeleteEntry
<1>4. ASSUME NEW ids \in SUBSET EntryIds, o = Op("submit", r, ids, {}, <<>>)
      PROVE  /\ EntryStep /\ UNCHANGED <<absences, today>>
             /\ \A k \in EntryIds : EntryWritten(W, o.ids, k)
  <2>1. o.do = "submit" /\ o.by = r /\ o.ids = ids
    BY <1>4 DEF Op
  <2>2. CanSubmitBatch(r, ids)
    BY <2>1 DEF Allowed, Decided
  <2>3. \A i \in DraftsOf(r, ids) : i \in ids /\ HasEntry(i) /\ entries[i].user \in W
    BY <2>1 DEF Decided, OwnersOf, DraftsOf
  <2>4. CASE r \notin AutoSubmitters
    <3>1. DoSubmitBatch(r, ids)
      BY <2>1, <2>4 DEF Write
    <3>2. \A k \in EntryIds : EntryWritten(W, o.ids, k)
      BY <2>1, <2>3, <3>1 DEF DoSubmitBatch, EntryWritten, SetReview
    <3>3. QED
      BY <1>r, <2>2, <2>4, <3>1, <3>2 DEF EntryStep, SubmitBatch, DoSubmitBatch
  <2>5. CASE r \in AutoSubmitters
    <3>1. DoSubmitBatchAutoApproved(r, ids)
      BY <2>1, <2>5 DEF Write
    <3>2. PICK D \in SUBSET EntryIds : D = DraftsOf(r, ids)
      BY DEF DraftsOf
    <3>3. PICK E : E = [i \in EntryIds |->
                         IF i \in D THEN SetReview(entries[i], "approved", entries[i].resolved, r)
                         ELSE entries[i]]
      OBVIOUS
    <3>4. entries' = ResolveRejected(E, D)
      BY <3>1, <3>2, <3>3 DEF DoSubmitBatchAutoApproved
    <3>5. \A k \in EntryIds : EntryWritten(W, D, k)
      BY <2>3, <3>2, <3>3, <3>4, BatchWritten
    <3>6. \A k \in EntryIds : EntryWritten(W, o.ids, k)
      BY <2>1, <2>3, <3>2, <3>5 DEF EntryWritten
    <3>7. QED
      BY <1>r, <2>2, <2>5, <3>1, <3>6
      DEF EntryStep, SubmitBatchAutoApproved, DoSubmitBatchAutoApproved
  <2>6. QED
    BY <2>4, <2>5
<1>5. ASSUME NEW ids \in SUBSET EntryIds, o = Op("batch_approve", r, ids, {}, <<>>)
      PROVE  /\ EntryStep /\ UNCHANGED <<absences, today>>
             /\ \A k \in EntryIds : EntryWritten(W, o.ids, k)
  <2>1. o.do = "batch_approve" /\ o.by = r /\ o.ids = ids
    BY <1>5 DEF Op
  <2>2. CanBatchApprove(r, ids)
    BY <2>1 DEF Allowed, Decided
  <2>3. DoBatchApprove(r, ids)
    BY <2>1 DEF Write
  <2>4. PICK D \in SUBSET EntryIds : D = Reviewable(r, ids)
    BY DEF Reviewable
  <2>5. \A i \in D : i \in ids /\ HasEntry(i) /\ entries[i].user \in W
    BY <2>1, <2>4 DEF Decided, OwnersOf, Reviewable
  <2>6. PICK E : E = [i \in EntryIds |->
                       IF i \in D THEN SetReview(entries[i], "approved", entries[i].resolved, r)
                       ELSE entries[i]]
    OBVIOUS
  <2>7. entries' = ResolveRejected(E, D)
    BY <2>3, <2>4, <2>6 DEF DoBatchApprove
  <2>8. \A k \in EntryIds : EntryWritten(W, D, k)
    BY <2>5, <2>6, <2>7, BatchWritten
  <2>9. \A k \in EntryIds : EntryWritten(W, o.ids, k)
    BY <2>1, <2>5, <2>8 DEF EntryWritten
  <2>10. QED
    BY <1>r, <2>2, <2>3, <2>9 DEF EntryStep, BatchApprove, DoBatchApprove
<1>6. ASSUME NEW ids \in SUBSET EntryIds, o = Op("batch_reject", r, ids, {}, <<>>)
      PROVE  /\ EntryStep /\ UNCHANGED <<absences, today>>
             /\ \A k \in EntryIds : EntryWritten(W, o.ids, k)
  <2>1. o.do = "batch_reject" /\ o.by = r /\ o.ids = ids
    BY <1>6 DEF Op
  <2>2. CanBatchReject(r, ids)
    BY <2>1 DEF Allowed, Decided
  <2>3. DoBatchReject(r, ids)
    BY <2>1 DEF Write
  <2>4. \A i \in Reviewable(r, ids) : i \in ids /\ HasEntry(i) /\ entries[i].user \in W
    BY <2>1 DEF Decided, OwnersOf, Reviewable
  <2>5. \A k \in EntryIds : EntryWritten(W, o.ids, k)
    BY <2>1, <2>3, <2>4 DEF DoBatchReject, EntryWritten, SetReview
  <2>6. QED
    BY <1>r, <2>2, <2>3, <2>5 DEF EntryStep, BatchReject, DoBatchReject
<1>7. ASSUME NEW u \in W, NEW d \in Days,
             o = Op("reopen", r, ReopenTargets(u, WeekOf[d]), {}, <<u, WeekOf[d]>>)
      PROVE  /\ EntryStep /\ UNCHANGED <<absences, today>>
             /\ \A k \in EntryIds : EntryWritten(W, o.ids, k)
  <2>1. /\ o.do = "reopen" /\ o.by = r /\ o.ids = ReopenTargets(u, WeekOf[d])
        /\ o.args[1] = u /\ o.args[2] = WeekOf[d]
    BY <1>7 DEF Op
  <2>2. CanPerformReopen(u, WeekOf[d])
    BY <2>1 DEF Allowed, Decided
  <2>3. DoPerformReopen(u, WeekOf[d])
    BY <2>1 DEF Write
  <2>4. \A i \in ReopenTargets(u, WeekOf[d]) : HasEntry(i) /\ entries[i].user \in W
    BY DEF ReopenTargets
  <2>5. \A k \in EntryIds : EntryWritten(W, o.ids, k)
    BY <2>1, <2>3, <2>4 DEF DoPerformReopen, EntryWritten, AsDraft, SetReview
  <2>6. QED
    BY <2>2, <2>3, <2>5 DEF EntryStep, PerformReopen, DoPerformReopen
<1>8. QED
  BY <1>1, <1>2, <1>3, <1>4, <1>5, <1>6, <1>7 DEF EntryOp

LEMMA AbsenceCommit ==
  ASSUME TypeOK, NEW r, NEW W \in SUBSET Users, NEW o, NEW asOf \in Days, asOf <= today,
         Decided(r, W, o), AbsenceOp(r, o), Write(o, asOf)
  PROVE  /\ AbsenceStep
         /\ UNCHANGED <<entries, today>>
         /\ \A a \in AbsenceIds : AbsenceWritten(W, o.abs, a)
<1> USE DEF TypeOK
<1>r. r \in Users
  BY DEF Decided
<1>1. ASSUME NEW a \in AbsenceIds, NEW auto \in BOOLEAN, NEW from \in Days, NEW to \in Days,
             o = Op("create_absence", r, {}, {a}, <<auto, from, to>>)
      PROVE  /\ AbsenceStep /\ UNCHANGED <<entries, today>>
             /\ \A b \in AbsenceIds : AbsenceWritten(W, o.abs, b)
  <2>1. /\ o.do = "create_absence" /\ o.by = r /\ The(o.abs) = a /\ o.abs = {a}
        /\ o.args[1] = auto /\ o.args[2] = from /\ o.args[3] = to /\ Inserts(o)
    BY <1>1, TheOne DEF Op, Inserts
  <2>2. CanCreateAbsence(r, a, auto, from, to) /\ r \in W
    BY <2>1 DEF Decided, Allowed
  <2>3. DoCreateAbsence(r, a, auto, from, to, asOf)
    BY <2>1 DEF Write
  <2>4. \A b \in AbsenceIds : AbsenceWritten(W, o.abs, b)
    BY <2>1, <2>2, <2>3 DEF DoCreateAbsence, AbsenceWritten, CanCreateAbsence, HasAbsence
  <2>5. QED
    BY <1>r, <2>2, <2>3, <2>4 DEF AbsenceStep, CreateAbsence, DoCreateAbsence
<1>2. ASSUME NEW a \in AbsenceIds, NEW from \in Days, NEW to \in Days,
             o = Op("update_absence", r, {}, {a}, <<from, to>>)
      PROVE  /\ AbsenceStep /\ UNCHANGED <<entries, today>>
             /\ \A b \in AbsenceIds : AbsenceWritten(W, o.abs, b)
  <2>1. /\ o.do = "update_absence" /\ o.by = r /\ The(o.abs) = a /\ o.abs = {a}
        /\ o.args[1] = from /\ o.args[2] = to
    BY <1>2, TheOne DEF Op
  <2>2. CanUpdateAbsence(r, a, from, to)
    BY <2>1 DEF Decided, Allowed
  <2>3. DoUpdateAbsence(r, a, from, to, asOf)
    BY <2>1 DEF Write
  <2>4. HasAbsence(a) /\ absences[a].user \in W
    BY <2>1, <2>2 DEF Decided, OwnersOf, CanUpdateAbsence
  <2>5. \A b \in AbsenceIds : AbsenceWritten(W, o.abs, b)
    BY <2>1, <2>3, <2>4 DEF DoUpdateAbsence, AbsenceWritten, SetAbsence
  <2>6. QED
    BY <1>r, <2>2, <2>3, <2>5 DEF AbsenceStep, UpdateAbsence, DoUpdateAbsence
<1>3. ASSUME NEW a \in AbsenceIds, NEW do \in Decisions, o = Op(do, r, {}, {a}, <<>>)
      PROVE  /\ AbsenceStep /\ UNCHANGED <<entries, today>>
             /\ \A b \in AbsenceIds : AbsenceWritten(W, o.abs, b)
  <2>1. o.do = do /\ o.by = r /\ The(o.abs) = a /\ o.abs = {a}
    BY <1>3, TheOne DEF Op
  <2>2. \/ CancelAbsence(r, a) \/ ApproveAbsence(r, a) \/ RejectAbsence(r, a)
        \/ ApproveCancellation(r, a) \/ RejectCancellation(r, a) \/ RevokeAbsence(r, a)
    BY <2>1 DEF Decided, Allowed, Write, Decisions, CancelAbsence, ApproveAbsence,
                RejectAbsence, ApproveCancellation, RejectCancellation, RevokeAbsence
  <2>3. PICK s : SetStatus(a, s)
    BY <2>2 DEF CancelAbsence, DoCancelAbsence, ApproveAbsence, RejectAbsence,
                ApproveCancellation, RejectCancellation, RevokeAbsence
  <2>4. HasAbsence(a)
    BY <2>2 DEF CancelAbsence, CanCancelAbsence, ApproveAbsence, RejectAbsence,
                ApproveCancellation, RejectCancellation, RevokeAbsence, CanApproveAbsence,
                CanReviewAbsence, CanRevokeAbsence
  <2>5. absences[a].user \in W
    BY <2>1, <2>4 DEF Decided, OwnersOf
  <2>6. \A b \in AbsenceIds : AbsenceWritten(W, o.abs, b)
    BY <2>1, <2>3, <2>5 DEF SetStatus, AbsenceWritten, WithStatus, SetAbsence
  <2>7. QED
    BY <1>r, <2>2, <2>3, <2>6 DEF AbsenceStep, SetStatus
<1>4. QED
  BY <1>1, <1>2, <1>3 DEF AbsenceOp

----------------------------------------------------------------------------
(* The invariant is kept                                                   *)

LEMMA OpTyped ==
  ASSUME NEW do \in Kinds, do # "none", NEW r \in Users, NEW ids \in SUBSET EntryIds,
         NEW abs \in SUBSET AbsenceIds, NEW args \in Args
  PROVE  /\ Op(do, r, ids, abs, args) \in Ops
         /\ Op(do, r, ids, abs, args) # NoOp
         /\ Op(do, r, ids, abs, args).by = r
<1>1. Op(do, r, ids, abs, args) \in Ops
  BY DEF Ops, Op
<1>2. Op(do, r, ids, abs, args).do = do /\ NoOp.do = "none"
  BY DEF NoOp, Op
<1>3. QED
  BY <1>1, <1>2 DEF Op

LEMMA ArgsTyped ==
  /\ <<>> \in Args
  /\ Slot \subseteq Args
  /\ \A u \in Users, d \in Days : <<u, WeekOf[d]>> \in Args
  /\ \A auto \in BOOLEAN, from, to \in Days : <<auto, from, to>> \in Args
  /\ \A from, to \in Days : <<from, to>> \in Args
<1>1. <<>> \in Args /\ Slot \subseteq Args
  BY Zenon DEF Args
<1>2. ASSUME NEW u \in Users, NEW d \in Days
      PROVE  <<u, WeekOf[d]>> \in Args
  <2>1. <<u, WeekOf[d]>> \in Users \X Weeks
    BY DEF Weeks
  <2>2. QED
    BY <2>1, Zenon DEF Args
<1>3. ASSUME NEW auto \in BOOLEAN, NEW from \in Days, NEW to \in Days
      PROVE  <<auto, from, to>> \in Args
  <2>1. <<auto, from, to>> \in BOOLEAN \X Days \X Days
    OBVIOUS
  <2>2. QED
    BY <2>1, Zenon DEF Args
<1>4. ASSUME NEW from \in Days, NEW to \in Days
      PROVE  <<from, to>> \in Args
  <2>1. <<from, to>> \in Days \X Days
    OBVIOUS
  <2>2. QED
    BY <2>1, Zenon DEF Args
<1>5. QED
  BY <1>1, <1>2, <1>3, <1>4

LEMMA DecideTyped ==
  ASSUME TypeOK, NEW r \in Users, NEW W \in SUBSET Users,
         NEW o \in EntryOps(r, W) \cup AbsenceOps(r)
  PROVE  o \in Ops /\ o # NoOp /\ o.by = r /\ (EntryOp(r, W, o) \/ AbsenceOp(r, o))
<1>1. ASSUME o \in EntryOps(r, W)
      PROVE  EntryOp(r, W, o)
  <2>1. \/ \E do \in {"create", "update"}, i \in EntryIds, slot \in Slot :
             o = OnEntry(do, r, i, slot)
        \/ \E i \in EntryIds : o = OnEntry("delete", r, i, <<>>)
        \/ \E ids \in SUBSET EntryIds : o = OnEntries("submit", r, DraftsOf(r, ids))
        \/ \E do \in {"batch_approve", "batch_reject"}, ids \in SUBSET EntryIds :
             o = OnEntries(do, r, Reviewable(r, ids))
        \/ \E u \in W, d \in Days :
             o = Op("reopen", r, ReopenTargets(u, WeekOf[d]), {}, <<u, WeekOf[d]>>)
    BY <1>1, SMT DEF EntryOps
  <2>2. \A ids \in SUBSET EntryIds :
          DraftsOf(r, ids) \in SUBSET EntryIds /\ Reviewable(r, ids) \in SUBSET EntryIds
    BY DEF DraftsOf, Reviewable
  <2>3. CASE \E do \in {"create", "update"}, i \in EntryIds, slot \in Slot :
               o = OnEntry(do, r, i, slot)
    <3>1. PICK do \in {"create", "update"}, i \in EntryIds, slot \in Slot :
            o = Op(do, r, {i}, {}, slot)
      BY <2>3 DEF OnEntry
    <3>2. o = Op("create", r, {i}, {}, slot) \/ o = Op("update", r, {i}, {}, slot)
      BY <3>1
    <3>3. QED
      BY <3>2 DEF EntryOp
  <2>4. CASE \E i \in EntryIds : o = OnEntry("delete", r, i, <<>>)
    BY <2>4, Zenon DEF OnEntry, EntryOp
  <2>5. CASE \E ids \in SUBSET EntryIds : o = OnEntries("submit", r, DraftsOf(r, ids))
    <3>1. PICK D \in SUBSET EntryIds : o = Op("submit", r, D, {}, <<>>)
      BY <2>2, <2>5 DEF OnEntries
    <3>2. QED
      BY <3>1 DEF EntryOp
  <2>6. CASE \E do \in {"batch_approve", "batch_reject"}, ids \in SUBSET EntryIds :
               o = OnEntries(do, r, Reviewable(r, ids))
    <3>1. PICK do \in {"batch_approve", "batch_reject"}, D \in SUBSET EntryIds :
            o = Op(do, r, D, {}, <<>>)
      BY <2>2, <2>6 DEF OnEntries
    <3>2. o = Op("batch_approve", r, D, {}, <<>>) \/ o = Op("batch_reject", r, D, {}, <<>>)
      BY <3>1
    <3>3. QED
      BY <3>2 DEF EntryOp
  <2>7. CASE \E u \in W, d \in Days :
               o = Op("reopen", r, ReopenTargets(u, WeekOf[d]), {}, <<u, WeekOf[d]>>)
    BY <2>7, Zenon DEF EntryOp
  <2>8. QED
    BY <2>1, <2>3, <2>4, <2>5, <2>6, <2>7
<1>2. ASSUME o \in AbsenceOps(r)
      PROVE  AbsenceOp(r, o)
  <2>1. \/ \E a \in AbsenceIds, args \in BOOLEAN \X Days \X Days :
             o = OnAbsence("create_absence", r, a, args)
        \/ \E a \in AbsenceIds, args \in Days \X Days :
             o = OnAbsence("update_absence", r, a, args)
        \/ \E do \in Decisions, a \in AbsenceIds : o = OnAbsence(do, r, a, <<>>)
    BY <1>2, SMT DEF AbsenceOps
  <2>2. CASE \E a \in AbsenceIds, args \in BOOLEAN \X Days \X Days :
               o = OnAbsence("create_absence", r, a, args)
    <3>1. PICK a \in AbsenceIds, args \in BOOLEAN \X Days \X Days :
            o = Op("create_absence", r, {}, {a}, args)
      BY <2>2 DEF OnAbsence
    <3>2. PICK auto \in BOOLEAN, from \in Days, to \in Days : args = <<auto, from, to>>
      OBVIOUS
    <3>3. QED
      BY <3>1, <3>2, Zenon DEF AbsenceOp
  <2>3. CASE \E a \in AbsenceIds, args \in Days \X Days :
               o = OnAbsence("update_absence", r, a, args)
    <3>1. PICK a \in AbsenceIds, args \in Days \X Days :
            o = Op("update_absence", r, {}, {a}, args)
      BY <2>3 DEF OnAbsence
    <3>2. PICK from \in Days, to \in Days : args = <<from, to>>
      OBVIOUS
    <3>3. QED
      BY <3>1, <3>2, Zenon DEF AbsenceOp
  <2>4. CASE \E do \in Decisions, a \in AbsenceIds : o = OnAbsence(do, r, a, <<>>)
    BY <2>4, Zenon DEF AbsenceOp, OnAbsence
  <2>5. QED
    BY <2>1, <2>2, <2>3, <2>4
<1>3. ASSUME EntryOp(r, W, o)
      PROVE  o \in Ops /\ o # NoOp /\ o.by = r
  <2>1. ASSUME NEW do \in Kinds, do # "none", NEW ids \in SUBSET EntryIds, NEW args \in Args,
               o = Op(do, r, ids, {}, args)
        PROVE  o \in Ops /\ o # NoOp /\ o.by = r
    BY <2>1, OpTyped
  <2>2. ASSUME NEW i \in EntryIds, NEW slot \in Slot,
               o \in {Op("create", r, {i}, {}, slot), Op("update", r, {i}, {}, slot)}
        PROVE  o \in Ops /\ o # NoOp /\ o.by = r
    <3>1. {i} \in SUBSET EntryIds /\ slot \in Args
      BY ArgsTyped
    <3>2. QED
      BY <2>1, <2>2, <3>1 DEF Kinds
  <2>3. ASSUME NEW i \in EntryIds, o = Op("delete", r, {i}, {}, <<>>)
        PROVE  o \in Ops /\ o # NoOp /\ o.by = r
    <3>1. {i} \in SUBSET EntryIds /\ <<>> \in Args
      BY ArgsTyped
    <3>2. QED
      BY <2>1, <2>3, <3>1 DEF Kinds
  <2>4. ASSUME NEW ids \in SUBSET EntryIds,
               o \in {Op("submit", r, ids, {}, <<>>), Op("batch_approve", r, ids, {}, <<>>),
                      Op("batch_reject", r, ids, {}, <<>>)}
        PROVE  o \in Ops /\ o # NoOp /\ o.by = r
    <3>1. <<>> \in Args
      BY ArgsTyped
    <3>2. QED
      BY <2>1, <2>4, <3>1 DEF Kinds
  <2>5. ASSUME NEW u \in W, NEW d \in Days,
               o = Op("reopen", r, ReopenTargets(u, WeekOf[d]), {}, <<u, WeekOf[d]>>)
        PROVE  o \in Ops /\ o # NoOp /\ o.by = r
    <3>1. ReopenTargets(u, WeekOf[d]) \in SUBSET EntryIds /\ <<u, WeekOf[d]>> \in Args
      BY ArgsTyped DEF ReopenTargets
    <3>2. QED
      BY <2>1, <2>5, <3>1 DEF Kinds
  <2>6. QED
    BY <1>3, <2>2, <2>3, <2>4, <2>5, Zenon DEF EntryOp
<1>4. ASSUME AbsenceOp(r, o)
      PROVE  o \in Ops /\ o # NoOp /\ o.by = r
  <2>1. ASSUME NEW do \in Kinds, do # "none", NEW a \in AbsenceIds, NEW args \in Args,
               o = Op(do, r, {}, {a}, args)
        PROVE  o \in Ops /\ o # NoOp /\ o.by = r
    <3>1. {a} \in SUBSET AbsenceIds
      OBVIOUS
    <3>2. QED
      BY <2>1, <3>1, OpTyped
  <2>2. ASSUME NEW a \in AbsenceIds, NEW auto \in BOOLEAN, NEW from \in Days, NEW to \in Days,
               o = Op("create_absence", r, {}, {a}, <<auto, from, to>>)
        PROVE  o \in Ops /\ o # NoOp /\ o.by = r
    <3>1. <<auto, from, to>> \in Args
      BY ArgsTyped
    <3>2. QED
      BY <2>1, <2>2, <3>1 DEF Kinds
  <2>3. ASSUME NEW a \in AbsenceIds, NEW from \in Days, NEW to \in Days,
               o = Op("update_absence", r, {}, {a}, <<from, to>>)
        PROVE  o \in Ops /\ o # NoOp /\ o.by = r
    <3>1. <<from, to>> \in Args
      BY ArgsTyped
    <3>2. QED
      BY <2>1, <2>3, <3>1 DEF Kinds
  <2>4. ASSUME NEW a \in AbsenceIds, NEW do \in Decisions, o = Op(do, r, {}, {a}, <<>>)
        PROVE  o \in Ops /\ o # NoOp /\ o.by = r
    <3>1. <<>> \in Args /\ do \in Kinds /\ do # "none"
      BY ArgsTyped DEF Kinds, Decisions
    <3>2. QED
      BY <2>1, <2>4, <3>1 DEF Kinds
  <2>5. QED
    BY <1>4, <2>2, <2>3, <2>4, Zenon DEF AbsenceOp
<1>5. QED
  BY <1>1, <1>2, <1>3, <1>4

LEMMA NothingWritten ==
  ASSUME TypeOK, UNCHANGED <<entries, absences, today>>, NEW W, NEW ids, NEW abs
  PROVE  Undisturbed(W, ids, abs) /\ TypeOK' /\ today' \in Days /\ today <= today'
<1>1. TypeOK'
  BY DEF TypeOK, HasEntry, HasAbsence
<1>2. today' = today /\ today \in Days /\ today <= today
  BY CalendarAssumption DEF TypeOK
<1>3. QED
  BY <1>1, <1>2 DEF Undisturbed, EntryKept, AbsenceKept

\* A request under way goes on while others write.
LEMMA GoingStays ==
  ASSUME Types, today' \in Days, today <= today', NEW p \in Requests, Going(p),
         req'[p] = req[p], \A u \in Held(p) : holder'[u] = holder[u],
         req[p].op # NoOp => Undisturbed(req[p].wants, req[p].op.ids, req[p].op.abs)
  PROVE  Going(p)'
<1>1. req[p].by # Nobody => req[p].asOf \in Days /\ req[p].asOf <= today'
  <2>1. SUFFICES ASSUME req[p].by # Nobody
                 PROVE  req[p].asOf \in Days /\ req[p].asOf <= today'
    OBVIOUS
  <2>2. req[p].asOf \in Days /\ req[p].asOf <= today /\ today \in Days
    BY <2>1 DEF Types, TypeOK, Going
  <2>3. req[p].asOf \in Int /\ today \in Int /\ today' \in Int
    BY <2>2, CalendarAssumption
  <2>4. PICK asOf \in Int : asOf = req[p].asOf
    BY <2>3
  <2>5. QED
    BY <2>2, <2>3, <2>4
<1>2. Held(p) \subseteq Held(p)'
  BY DEF Held
<1>3. ASSUME NEW r \in Users, NEW W \in SUBSET Users, NEW o \in Ops,
             req[p].by = r, req[p].wants = W, req[p].op = o, o # NoOp
      PROVE  Decided(r, W, o)'
  BY <1>3, DecidedStays DEF Types, Going
<1>4. QED
  BY <1>1, <1>2, <1>3 DEF Going

LEMMA IdleGoes ==
  ASSUME NEW p \in Requests, req'[p] = Idle
  PROVE  Going(p)'
BY DEF Going, Idle, NoOp, Op

LEMMA IdleTyped == Idle \in Request /\ NoOp \in Ops /\ Idle.op = NoOp /\ Idle.by = Nobody
<1>1. NoOp \in Ops
  <2>1. <<>> \in Args
    BY ArgsTyped
  <2>2. QED
    BY <2>1 DEF Ops, NoOp, Op, Kinds
<1>2. QED
  BY <1>1 DEF Idle, Request

LEMMA BeginKeeps ==
  ASSUME TxInv, NEW p \in Requests, NEW r \in Users, Begin(p, r)
  PROVE  TxInv'
<1>1. PICK W \in SUBSET Users :
        req' = [req EXCEPT ![p] = [by |-> r, asOf |-> today, wants |-> W, op |-> NoOp]]
  <2>1. OwnersOf(EntryIds, AbsenceIds) \subseteq Users
    BY DEF TxInv, Types, TypeOK, OwnersOf, HasEntry, HasAbsence, Entry, Absence
  <2>2. PICK W \in {{r}} \cup (IF r \in Leads THEN SUBSET OwnersOf(EntryIds, AbsenceIds) ELSE {}) :
          req' = [req EXCEPT ![p] = [by |-> r, asOf |-> today, wants |-> W, op |-> NoOp]]
    BY DEF Begin
  <2>3. QED
    BY <2>1, <2>2
<1>2. UNCHANGED <<entries, absences, today, holder, archived, closing>>
  BY DEF Begin
<1>3. /\ req'[p] = [by |-> r, asOf |-> today, wants |-> W, op |-> NoOp]
      /\ req'[p].by = r /\ req'[p].asOf = today /\ req'[p].op = NoOp
      /\ NoOp.ids = {} /\ NoOp.abs = {}
      /\ \A q \in Requests \ {p} : req'[q] = req[q]
  BY <1>1 DEF TxInv, Types, NoOp, Op
<1>4. Types'
  <2>1. [by |-> r, asOf |-> today, wants |-> W, op |-> NoOp] \in Request
    BY IdleTyped DEF TxInv, Types, TypeOK, Request
  <2>2. req' \in [Requests -> Request]
    BY <1>1, <2>1 DEF TxInv, Types
  <2>3. QED
    BY <1>2, <2>2, NothingWritten DEF TxInv, Types
<1>5. ASSUME NEW q \in Requests
      PROVE  Going(q)'
  <2>1. CASE q = p
    BY <1>2, <1>3, <2>1, NothingWritten DEF Going, TxInv, Types, TypeOK
  <2>2. CASE q # p
    BY <1>2, <1>3, <2>2, GoingStays, NothingWritten DEF TxInv, Types, OpInv
  <2>3. QED
    BY <2>1, <2>2
<1>6. RowsInv'
  BY <1>2, <1>3 DEF TxInv, RowsInv
<1>7. ClosingInv'
  BY <1>2 DEF TxInv, ClosingInv, PendingEntries, PendingAbsences, HasEntry, HasAbsence
<1>8. QED
  BY <1>4, <1>5, <1>6, <1>7 DEF TxInv, OpInv

LEMMA LockKeeps ==
  ASSUME TxInv, NEW p \in Requests, Lock(p)
  PROVE  TxInv'
<1>1. PICK u \in Users : holder[u] = Nobody /\ holder' = [holder EXCEPT ![u] = p]
  BY DEF Lock, TxInv, Types, Request
<1>2. UNCHANGED <<entries, absences, today, req, archived, closing>>
  BY DEF Lock
<1>3. Types'
  BY <1>1, <1>2, NothingWritten DEF TxInv, Types
<1>4. ASSUME NEW q \in Requests
      PROVE  Going(q)'
  <2>1. \A v \in Held(q) : holder'[v] = holder[v]
    BY <1>1, UsersAreIds DEF Held, TxInv, Types
  <2>2. QED
    BY <1>2, <2>1, GoingStays, NothingWritten DEF TxInv, Types, OpInv
<1>5. RowsInv' /\ ClosingInv'
  BY <1>2 DEF TxInv, RowsInv, ClosingInv, PendingEntries, PendingAbsences, HasEntry, HasAbsence
<1>6. QED
  BY <1>3, <1>4, <1>5 DEF TxInv, OpInv

LEMMA DecideKeeps ==
  ASSUME TxInv, NEW p \in Requests,
         NEW o \in EntryOps(req[p].by, req[p].wants) \cup AbsenceOps(req[p].by), Decide(p, o)
  PROVE  TxInv'
<1>1. /\ req' = [req EXCEPT ![p].op = o] /\ Ready(p)
      /\ UNCHANGED <<entries, absences, today, holder, archived, closing>>
  BY DEF Decide
<1>2. PICK r \in Users, W \in SUBSET Users : r = req[p].by /\ W = req[p].wants
  BY <1>1 DEF Ready, TxInv, Types, Request
<1>3. o \in Ops /\ o # NoOp /\ o.by = r /\ (EntryOp(r, W, o) \/ AbsenceOp(r, o))
  <2>1. o \in EntryOps(r, W) \cup AbsenceOps(r) /\ TypeOK
    BY <1>2 DEF TxInv, Types
  <2>2. QED
    BY <2>1, DecideTyped
<1>4. Decided(r, W, o)
  BY <1>2, <1>3 DEF Decide, Decided
<1>5. /\ req'[p] \in Request /\ req'[p].op = o /\ req'[p].by = r /\ req'[p].wants = W
      /\ req'[p].asOf = req[p].asOf
      /\ \A q \in Requests \ {p} : req'[q] = req[q]
  BY <1>1, <1>2, <1>3 DEF TxInv, Types, Request
<1>6. Types'
  <2>1. req' \in [Requests -> Request]
    BY <1>1, <1>5 DEF TxInv, Types
  <2>2. QED
    BY <1>1, <2>1, NothingWritten DEF TxInv, Types
<1>7. ASSUME NEW q \in Requests
      PROVE  Going(q)'
  <2>1. CASE q = p
    <3>1. req[p].by # Nobody /\ req[p].asOf \in Days /\ req[p].asOf <= today /\ W \subseteq Held(p)
      BY <1>1, <1>2 DEF Ready, TxInv, OpInv, Going
    <3>2. Held(p)' = Held(p) /\ today' = today
      BY <1>1 DEF Held
    <3>3. Decided(r, W, o)'
      BY <1>1, <1>4, DecidedStays, NothingWritten DEF TxInv, Types
    <3>4. QED
      BY <1>2, <1>5, <2>1, <3>1, <3>2, <3>3 DEF Going
  <2>2. CASE q # p
    BY <1>1, <1>5, <2>2, GoingStays, NothingWritten DEF TxInv, Types, OpInv
  <2>3. QED
    BY <2>1, <2>2
<1>8. RowsInv'
  <2>1. /\ o.ids \cap closing.ids = {} /\ o.abs \cap closing.abs = {}
        /\ \A q \in Requests \ {p} : o.ids \cap req[q].op.ids = {} /\ o.abs \cap req[q].op.abs = {}
    BY DEF Decide, RowsFree
  <2>2. QED
    BY <1>1, <1>5, <2>1 DEF TxInv, RowsInv
<1>9. ClosingInv'
  BY <1>1 DEF TxInv, ClosingInv, PendingEntries, PendingAbsences, HasEntry, HasAbsence
<1>10. QED
  BY <1>6, <1>7, <1>8, <1>9 DEF TxInv, OpInv

\* A transaction that ends releases its locks, which others do not hold.
LEMMA EndFrame ==
  ASSUME Types, NEW p \in Requests, req' = [req EXCEPT ![p] = Idle], holder' = Released(p)
  PROVE  /\ req' \in [Requests -> Request] /\ holder' \in [Users -> Requests \cup {Nobody}]
         /\ req'[p] = Idle /\ req'[p].op.ids = {} /\ req'[p].op.abs = {}
         /\ \A q \in Requests \ {p} :
              req'[q] = req[q] /\ \A u \in Held(q) : holder'[u] = holder[u]
<1>1. NoOp.ids = {} /\ NoOp.abs = {}
  BY DEF NoOp, Op
<1>2. QED
  BY <1>1, IdleTyped DEF Types, Released, Held

LEMMA EndKeeps ==
  ASSUME TxInv, NEW p \in Requests, Refuse(p) \/ Lose(p)
  PROVE  TxInv'
<1>1. /\ req' = [req EXCEPT ![p] = Idle] /\ holder' = Released(p)
      /\ UNCHANGED <<entries, absences, today, archived, closing>>
  BY DEF Refuse, Lose
<1>2. Types'
  BY <1>1, EndFrame, NothingWritten DEF TxInv, Types
<1>3. ASSUME NEW q \in Requests
      PROVE  Going(q)'
  <2>1. CASE q = p
    BY <1>1, <2>1, EndFrame, IdleGoes DEF TxInv
  <2>2. CASE q # p
    BY <1>1, <2>2, EndFrame, GoingStays, NothingWritten DEF TxInv, Types, OpInv
  <2>3. QED
    BY <2>1, <2>2
<1>4. RowsInv'
  BY <1>1, EndFrame DEF TxInv, RowsInv
<1>5. ClosingInv'
  BY <1>1 DEF TxInv, ClosingInv, PendingEntries, PendingAbsences, HasEntry, HasAbsence
<1>6. QED
  BY <1>2, <1>3, <1>4, <1>5 DEF TxInv, OpInv

\* What a commit writes leaves the rows of other requests alone: their owners' locks
\* exclude each other.
LEMMA OthersUndisturbed ==
  ASSUME NEW W, NEW o, NEW V, NEW o2 \in Ops, W \cap V = {}, OwnersOf(o2.ids, o2.abs) \subseteq V,
         o.ids \cap o2.ids = {}, o.abs \cap o2.abs = {}, today <= today',
         \A i \in EntryIds : EntryWritten(W, o.ids, i),
         \A a \in AbsenceIds : AbsenceWritten(W, o.abs, a)
  PROVE  Undisturbed(V, o2.ids, o2.abs)
<1>1. \A i \in EntryIds : EntryKept(i) \/ EntryOfOthers(V, i)
  BY DEF EntryWritten, EntryKept, EntryOfOthers
<1>2. \A a \in AbsenceIds : AbsenceKept(a) \/ AbsenceOfOthers(V, a)
  BY DEF AbsenceWritten, AbsenceKept, AbsenceOfOthers
<1>3. ASSUME NEW i \in o2.ids
      PROVE  entries'[i] = entries[i]
  <2>1. i \in EntryIds /\ i \notin o.ids /\ (HasEntry(i) => entries[i].user \in V)
    BY DEF Ops, OwnersOf
  <2>2. QED
    BY <2>1 DEF EntryWritten
<1>4. ASSUME NEW a \in o2.abs
      PROVE  absences'[a] = absences[a]
  <2>1. a \in AbsenceIds /\ a \notin o.abs /\ (HasAbsence(a) => absences[a].user \in V)
    BY DEF Ops, OwnersOf
  <2>2. QED
    BY <2>1 DEF AbsenceWritten
<1>5. QED
  BY <1>1, <1>2, <1>3, <1>4 DEF Undisturbed

LEMMA CommitWrites ==
  ASSUME TxInv, NEW p \in Requests, Commit(p)
  PROVE  /\ EntryStep \/ AbsenceStep
         /\ today' = today /\ TypeOK' /\ req[p].op # NoOp
         /\ \A i \in EntryIds : EntryWritten(req[p].wants, req[p].op.ids, i)
         /\ \A a \in AbsenceIds : AbsenceWritten(req[p].wants, req[p].op.abs, a)
<1>1. /\ req[p].op # NoOp /\ req[p].by # Nobody /\ req[p].asOf \in Days /\ req[p].asOf <= today
      /\ Going(p) /\ req[p] \in Request
  BY DEF Commit, TxInv, OpInv, Going, Types
<1>2. PICK r \in Users, W \in SUBSET Users, o \in Ops, asOf \in Days :
        req[p].by = r /\ req[p].wants = W /\ req[p].op = o /\ req[p].asOf = asOf
  BY <1>1 DEF Request
<1>3. Decided(r, W, o) /\ Write(o, asOf) /\ asOf <= today
  BY <1>1, <1>2 DEF Going, Commit
<1>4. TypeOK
  BY DEF TxInv, Types
<1>5. CASE EntryOp(r, W, o)
  <2>1. /\ EntryStep /\ UNCHANGED <<absences, today>>
        /\ \A i \in EntryIds : EntryWritten(W, o.ids, i)
    BY <1>3, <1>4, <1>5, EntryCommit
  <2>2. TypeOK'
    BY <1>4, <2>1, TypeStep DEF Next
  <2>3. QED
    BY <1>1, <1>2, <2>1, <2>2 DEF AbsenceWritten
<1>6. CASE AbsenceOp(r, o)
  <2>1. /\ AbsenceStep /\ UNCHANGED <<entries, today>>
        /\ \A a \in AbsenceIds : AbsenceWritten(W, o.abs, a)
    BY <1>3, <1>4, <1>6, AbsenceCommit
  <2>2. TypeOK'
    BY <1>4, <2>1, TypeStep DEF Next
  <2>3. QED
    BY <1>1, <1>2, <2>1, <2>2 DEF EntryWritten
<1>7. QED
  BY <1>3, <1>5, <1>6 DEF Decided

LEMMA CommitKeeps ==
  ASSUME TxInv, NEW p \in Requests, Commit(p)
  PROVE  TxInv'
<1>1. /\ req' = [req EXCEPT ![p] = Idle] /\ holder' = Released(p)
      /\ UNCHANGED <<archived, closing>> /\ Types
  BY DEF Commit, TxInv
<1>2. /\ today' = today /\ TypeOK' /\ req[p].op # NoOp
      /\ \A i \in EntryIds : EntryWritten(req[p].wants, req[p].op.ids, i)
      /\ \A a \in AbsenceIds : AbsenceWritten(req[p].wants, req[p].op.abs, a)
  BY CommitWrites
<1>3. Types'
  BY <1>1, <1>2, EndFrame DEF Types
<1>4. today' \in Days /\ today <= today'
  <2>1. today \in Days /\ today \in Int
    BY <1>1, CalendarAssumption DEF Types, TypeOK
  <2>2. QED
    BY <1>2, <2>1
<1>5. ASSUME NEW q \in Requests
      PROVE  Going(q)'
  <2>1. CASE q = p
    BY <1>1, <2>1, EndFrame, IdleGoes
  <2>2. CASE q # p
    <3>1. ASSUME req[q].op # NoOp
          PROVE  Undisturbed(req[q].wants, req[q].op.ids, req[q].op.abs)
      <4>1. /\ req[q].by # Nobody /\ req[q].wants \subseteq Held(q) /\ req[q] \in Request
            /\ req[p].wants \subseteq Held(p)
        BY <1>1, <1>2, <3>1 DEF TxInv, OpInv, Going, Types
      <4>2. PICK W, o : W = req[p].wants /\ o = req[p].op
        OBVIOUS
      <4>3. PICK r2 \in Users, V \in SUBSET Users, o2 \in Ops :
              req[q].by = r2 /\ req[q].wants = V /\ req[q].op = o2
        BY <4>1 DEF Request
      <4>4. Decided(r2, V, o2)
        BY <3>1, <4>3 DEF TxInv, OpInv, Going
      <4>5. W \cap V = {}
        BY <2>2, <4>1, <4>2, <4>3 DEF Held
      <4>6. o.ids \cap o2.ids = {} /\ o.abs \cap o2.abs = {}
        BY <2>2, <4>2, <4>3 DEF TxInv, RowsInv
      <4>7. OwnersOf(o2.ids, o2.abs) \subseteq V
        BY <4>4 DEF Decided
      <4>8. QED
        BY <1>2, <1>4, <4>2, <4>3, <4>5, <4>6, <4>7, OthersUndisturbed
    <3>2. Going(q) /\ req'[q] = req[q] /\ \A u \in Held(q) : holder'[u] = holder[u]
      BY <1>1, <2>2, EndFrame DEF TxInv, OpInv
    <3>3. QED
      BY <1>1, <1>4, <3>1, <3>2, GoingStays
  <2>3. QED
    BY <2>1, <2>2
<1>6. RowsInv'
  BY <1>1, EndFrame DEF TxInv, RowsInv
<1>7. ClosingInv'
  <2>1. ASSUME NEW i \in closing.ids
        PROVE  i \in PendingEntries(closing.user) /\ entries'[i] = entries[i]
    <3>1. i \in PendingEntries(closing.user) /\ i \notin req[p].op.ids
      BY DEF TxInv, ClosingInv, RowsInv
    <3>2. QED
      BY <1>2, <3>1 DEF EntryWritten, PendingEntries
  <2>2. ASSUME NEW a \in closing.abs
        PROVE  a \in PendingAbsences(closing.user) /\ absences'[a] = absences[a]
    <3>1. a \in PendingAbsences(closing.user) /\ a \notin req[p].op.abs
      BY DEF TxInv, ClosingInv, RowsInv
    <3>2. QED
      BY <1>2, <3>1 DEF AbsenceWritten, PendingAbsences
  <2>3. QED
    BY <1>1, <2>1, <2>2 DEF TxInv, ClosingInv, PendingEntries, PendingAbsences, HasEntry,
                            HasAbsence
<1>8. QED
  BY <1>3, <1>5, <1>6, <1>7 DEF TxInv, OpInv

\* The steps of an archiving that write no row yet.
LEMMA ArchivingKeeps ==
  ASSUME TxInv, UNCHANGED <<entries, absences, today, req, holder, archived>>,
         closing' \in Closing, ClosingInv',
         \A p \in Requests : /\ req[p].op.ids \cap closing'.ids = {}
                             /\ req[p].op.abs \cap closing'.abs = {}
  PROVE  TxInv'
<1>1. Types'
  BY NothingWritten DEF TxInv, Types
<1>2. ASSUME NEW q \in Requests
      PROVE  Going(q)'
  BY GoingStays, NothingWritten DEF TxInv, Types, OpInv
<1>3. RowsInv'
  BY DEF TxInv, RowsInv
<1>4. QED
  BY <1>1, <1>2, <1>3 DEF TxInv, OpInv

LEMMA NoClosingKeeps ==
  /\ NoClosing \in Closing /\ NoClosing.ids = {} /\ NoClosing.abs = {} /\ NoClosing.stmt = 0
  /\ NoClosing.scanned = FALSE
BY DEF NoClosing, Closing

LEMMA ArchiveKeeps ==
  ASSUME TxInv, NEW u \in Users, Archive(u)
  PROVE  TxInv'
<1>1. /\ closing' = [NoClosing EXCEPT !.user = u, !.stmt = 1]
      /\ UNCHANGED <<entries, absences, today, req, holder, archived>>
  BY DEF Archive
<1>2. /\ closing' \in Closing /\ closing'.ids = {} /\ closing'.abs = {} /\ closing'.user = u
      /\ closing'.scanned = FALSE
  <2>1. closing' = [user |-> u, stmt |-> 1, scanned |-> FALSE, found |-> {}, ids |-> {},
                    abs |-> {}]
    BY <1>1 DEF NoClosing
  <2>2. QED
    BY <2>1 DEF Closing
<1>3. ClosingInv'
  BY <1>2 DEF ClosingInv
<1>4. QED
  BY <1>1, <1>2, <1>3, ArchivingKeeps

LEMMA ScanKeeps ==
  ASSUME TxInv, Scan
  PROVE  TxInv'
<1>1. /\ closing.stmt \in DOMAIN Statements
      /\ closing' = [closing EXCEPT !.scanned = TRUE,
                                   !.found = Selects(closing.stmt, closing.user)]
      /\ UNCHANGED <<entries, absences, today, req, holder, archived>>
  BY DEF Scan
<1>2. Selects(closing.stmt, closing.user) \subseteq EntryIds \cup AbsenceIds
  BY DEF Selects, PendingEntries, PendingAbsences
<1>3. closing \in Closing
  BY DEF TxInv, Types
<1>4. /\ closing' \in Closing /\ closing'.ids = closing.ids /\ closing'.abs = closing.abs
      /\ closing'.user = closing.user /\ closing'.stmt = closing.stmt
  BY <1>1, <1>2, <1>3 DEF Closing
<1>5. ClosingInv'
  BY <1>1, <1>4 DEF TxInv, ClosingInv, PendingEntries, PendingAbsences, HasEntry, HasAbsence
<1>6. QED
  BY <1>1, <1>4, <1>5, ArchivingKeeps DEF TxInv, RowsInv

LEMMA WriteScannedKeeps ==
  ASSUME TxInv, WriteScanned
  PROVE  TxInv'
<1>1. PICK still : still = closing.found \cap Selects(closing.stmt, closing.user)
  OBVIOUS
<1>2. /\ closing.scanned
      /\ \A p \in Requests :
           closing.found \cap (IF closing.stmt = 1 THEN req[p].op.ids ELSE req[p].op.abs) = {}
      /\ closing' = [closing EXCEPT !.stmt = @ + 1, !.scanned = FALSE, !.found = {},
                                   !.ids = IF closing.stmt = 1 THEN still ELSE @,
                                   !.abs = IF closing.stmt = 1 THEN @ ELSE @ \cup still]
      /\ UNCHANGED <<entries, absences, today, req, holder, archived>>
  BY <1>1 DEF WriteScanned
<1>3. closing \in Closing /\ ClosingInv /\ closing.stmt \in 1..3 /\ closing.user \in Users
  BY <1>2 DEF TxInv, Types, ClosingInv, Statements
<1>4. /\ closing.stmt = 1 => still \subseteq PendingEntries(closing.user)
      /\ closing.stmt # 1 => still \subseteq PendingAbsences(closing.user)
  BY <1>1 DEF Selects
<1>5. \A p \in Requests :
        IF closing.stmt = 1 THEN req[p].op.ids \cap still = {} ELSE req[p].op.abs \cap still = {}
  BY <1>1, <1>2
<1>6. /\ closing'.ids = (IF closing.stmt = 1 THEN still ELSE closing.ids)
      /\ closing'.abs = (IF closing.stmt = 1 THEN closing.abs ELSE closing.abs \cup still)
      /\ closing'.user = closing.user /\ closing'.scanned = FALSE
      /\ closing'.stmt = closing.stmt + 1 /\ closing'.found = {}
  BY <1>2, <1>3 DEF Closing
<1>7. closing' \in Closing
  <2>1. closing.stmt + 1 \in 0..4
    BY <1>3
  <2>2. closing'.ids \in SUBSET EntryIds /\ closing'.abs \in SUBSET AbsenceIds
    BY <1>3, <1>4, <1>6 DEF Closing, PendingEntries, PendingAbsences
  <2>3. closing' = [user |-> closing'.user, stmt |-> closing'.stmt, scanned |-> closing'.scanned,
                    found |-> closing'.found, ids |-> closing'.ids, abs |-> closing'.abs]
    BY <1>2, <1>3 DEF Closing
  <2>4. QED
    BY <1>3, <1>6, <2>1, <2>2, <2>3 DEF Closing
<1>8. ClosingInv'
  <2>1. /\ closing'.ids \subseteq PendingEntries(closing.user)
        /\ closing'.abs \subseteq PendingAbsences(closing.user)
    BY <1>3, <1>4, <1>6 DEF ClosingInv
  <2>2. QED
    BY <1>2, <1>3, <1>6, <2>1 DEF ClosingInv, PendingEntries, PendingAbsences, HasEntry,
                                  HasAbsence
<1>9. \A p \in Requests : /\ req[p].op.ids \cap closing'.ids = {}
                          /\ req[p].op.abs \cap closing'.abs = {}
  BY <1>5, <1>6 DEF TxInv, RowsInv
<1>10. QED
  BY <1>2, <1>7, <1>8, <1>9, ArchivingKeeps

LEMMA LoseArchiveKeeps ==
  ASSUME TxInv, LoseArchive
  PROVE  TxInv'
<1>1. closing' = NoClosing /\ UNCHANGED <<entries, absences, today, req, holder, archived>>
  BY DEF LoseArchive
<1>2. ClosingInv'
  BY <1>1, NoClosingKeeps DEF ClosingInv
<1>3. QED
  BY <1>1, <1>2, NoClosingKeeps, ArchivingKeeps

LEMMA CommitArchiveCloses ==
  ASSUME TxInv, CommitArchive
  PROVE  /\ closing.user \in Users /\ closing.ids \in SUBSET EntryIds
         /\ closing.abs \in SUBSET AbsenceIds
         /\ ClosePending(closing.user, closing.ids, closing.abs) /\ TypeOK'
<1>1. /\ closing.user \in Users /\ closing.ids \in SUBSET EntryIds
      /\ closing.abs \in SUBSET AbsenceIds
  BY DEF TxInv, ClosingInv, CommitArchive, Types, Closing
<1>2. ClosePending(closing.user, closing.ids, closing.abs)
  BY DEF TxInv, ClosingInv, CommitArchive, ClosePending
<1>3. TypeOK'
  BY <1>1, <1>2, TypeStep DEF Next, TxInv, Types
<1>4. QED
  BY <1>1, <1>2, <1>3

LEMMA CommitArchiveKeeps ==
  ASSUME TxInv, CommitArchive
  PROVE  TxInv'
<1>1. /\ DoClosePending(closing.user, closing.ids, closing.abs)
      /\ archived' = archived \cup {closing.user} /\ closing' = NoClosing
      /\ UNCHANGED <<req, holder>> /\ Types
  BY DEF CommitArchive, TxInv
<1>2. Types'
  BY <1>1, CommitArchiveCloses, NoClosingKeeps DEF Types
<1>3. today' = today /\ today' \in Days /\ today <= today'
  <2>1. today' = today /\ today \in Days /\ today \in Int
    BY <1>1, CalendarAssumption DEF DoClosePending, Types, TypeOK
  <2>2. QED
    BY <2>1
<1>4. ASSUME NEW i \in EntryIds
      PROVE  EntryKept(i) /\ (i \notin closing.ids => entries'[i] = entries[i])
  BY <1>1 DEF DoClosePending, TxInv, ClosingInv, PendingEntries, EntryKept
<1>5. ASSUME NEW a \in AbsenceIds
      PROVE  AbsenceKept(a) /\ (a \notin closing.abs => absences'[a] = absences[a])
  BY <1>1 DEF DoClosePending, TxInv, ClosingInv, PendingAbsences, AbsenceKept
<1>6. ASSUME NEW q \in Requests
      PROVE  Going(q)'
  <2>1. req[q].op.ids \subseteq EntryIds /\ req[q].op.abs \subseteq AbsenceIds
    BY <1>1 DEF Types, Request, Ops
  <2>2. Undisturbed(req[q].wants, req[q].op.ids, req[q].op.abs)
    BY <1>3, <1>4, <1>5, <2>1 DEF Undisturbed, TxInv, RowsInv
  <2>3. QED
    BY <1>1, <1>3, <2>2, GoingStays DEF TxInv, OpInv
<1>7. RowsInv'
  BY <1>1, NoClosingKeeps DEF TxInv, RowsInv
<1>8. ClosingInv'
  BY <1>1, NoClosingKeeps DEF ClosingInv
<1>9. QED
  BY <1>2, <1>6, <1>7, <1>8 DEF TxInv, OpInv

LEMMA NextDayKeeps ==
  ASSUME TxInv, NextDay, UNCHANGED <<req, holder, archived, closing>>
  PROVE  TxInv'
<1>1. Types'
  BY TypeStep DEF TxInv, Types, Next
<1>2. today' \in Days /\ today <= today' /\ UNCHANGED <<entries, absences>>
  BY CalendarAssumption DEF NextDay, TxInv, Types, TypeOK
<1>3. ASSUME NEW q \in Requests
      PROVE  Going(q)'
  <2>1. Undisturbed(req[q].wants, req[q].op.ids, req[q].op.abs)
    BY <1>2 DEF Undisturbed, EntryKept, AbsenceKept
  <2>2. QED
    BY <1>2, <2>1, GoingStays DEF TxInv, OpInv
<1>4. RowsInv' /\ ClosingInv'
  BY <1>2 DEF TxInv, RowsInv, ClosingInv, PendingEntries, PendingAbsences, HasEntry, HasAbsence
<1>5. QED
  BY <1>1, <1>3, <1>4 DEF TxInv, OpInv

LEMMA TxInvInit ==
  TxInit => TxInv
<1>1. SUFFICES ASSUME TxInit
               PROVE  TxInv
  OBVIOUS
<1>2. TypeOK
  BY <1>1, InitInv DEF TxInit, Inv
<1>3. Types
  BY <1>1, <1>2, IdleTyped, NoClosingKeeps DEF TxInit, Types
<1>4. \A p \in Requests : req[p] = Idle /\ req[p].op.ids = {} /\ req[p].op.abs = {}
  BY <1>1 DEF TxInit, Idle, NoOp, Op
<1>5. OpInv
  BY <1>4, IdleTyped DEF OpInv, Going
<1>6. RowsInv /\ ClosingInv
  BY <1>1, <1>4, NoClosingKeeps DEF TxInit, RowsInv, ClosingInv
<1>7. QED
  BY <1>3, <1>5, <1>6 DEF TxInv

LEMMA TxInvStep ==
  TxInv /\ [TxNext]_txVars => TxInv'
<1>1. SUFFICES ASSUME TxInv, [TxNext]_txVars
               PROVE  TxInv'
  OBVIOUS
<1>2. CASE UNCHANGED txVars
  <2>1. ClosingInv'
    BY <1>1, <1>2 DEF txVars, TxInv, ClosingInv, PendingEntries, PendingAbsences, HasEntry,
                      HasAbsence
  <2>2. QED
    BY <1>1, <1>2, <2>1, ArchivingKeeps DEF txVars, TxInv, Types, RowsInv
<1>3. CASE \E p \in Requests : \E r \in Users : Begin(p, r)
  BY <1>1, <1>3, BeginKeeps
<1>4. CASE \E p \in Requests : Lock(p)
  BY <1>1, <1>4, LockKeeps
<1>5. CASE \E p \in Requests :
             \E o \in EntryOps(req[p].by, req[p].wants) \cup AbsenceOps(req[p].by) : Decide(p, o)
  BY <1>1, <1>5, DecideKeeps
<1>6. CASE \E p \in Requests : Refuse(p) \/ Lose(p)
  BY <1>1, <1>6, EndKeeps
<1>7. CASE \E p \in Requests : Commit(p)
  BY <1>1, <1>7, CommitKeeps
<1>8. CASE \E u \in Users : Archive(u)
  BY <1>1, <1>8, ArchiveKeeps
<1>9. CASE Scan \/ WriteScanned \/ LoseArchive
  BY <1>1, <1>9, ScanKeeps, WriteScannedKeeps, LoseArchiveKeeps
<1>10. CASE CommitArchive
  BY <1>1, <1>10, CommitArchiveKeeps
<1>11. CASE NextDay /\ UNCHANGED <<req, holder, archived, closing>>
  BY <1>1, <1>11, NextDayKeeps
<1>12. QED
  BY <1>1, <1>2, <1>3, <1>4, <1>5, <1>6, <1>7, <1>8, <1>9, <1>10, <1>11 DEF TxNext

----------------------------------------------------------------------------
(* The transactions implement the ledger                                   *)

\* Every step of the transactions is a step of the atomic ledger or changes no row.
LEMMA TxStepIsStep ==
  TxInv /\ [TxNext]_txVars => [Next]_vars
<1>1. SUFFICES ASSUME TxInv, [TxNext]_txVars
               PROVE  [Next]_vars
  OBVIOUS
<1>2. CASE \E p \in Requests : Commit(p)
  <2>1. EntryStep \/ AbsenceStep
    BY <1>1, <1>2, CommitWrites
  <2>2. QED
    BY <2>1 DEF Next
<1>3. CASE CommitArchive
  <2>1. \E u \in Users, ids \in SUBSET EntryIds, as \in SUBSET AbsenceIds : ClosePending(u, ids, as)
    BY <1>1, <1>3, CommitArchiveCloses
  <2>2. QED
    BY <2>1 DEF Next
<1>4. CASE NextDay /\ UNCHANGED <<req, holder, archived, closing>>
  BY <1>4 DEF Next
<1>5. CASE \E p \in Requests :
             \/ \E r \in Users : Begin(p, r)
             \/ Lock(p)
             \/ \E o \in EntryOps(req[p].by, req[p].wants) \cup AbsenceOps(req[p].by) : Decide(p, o)
             \/ Refuse(p)
             \/ Lose(p)
  <2>1. UNCHANGED <<entries, absences, today>>
    BY <1>5 DEF Begin, Lock, Decide, Refuse, Lose
  <2>2. QED
    BY <2>1 DEF vars
<1>6. CASE (\E u \in Users : Archive(u)) \/ Scan \/ WriteScanned \/ LoseArchive
             \/ UNCHANGED txVars
  <2>1. UNCHANGED <<entries, absences, today>>
    BY <1>6 DEF Archive, Scan, WriteScanned, LoseArchive, txVars
  <2>2. QED
    BY <2>1 DEF vars
<1>7. QED
  BY <1>1, <1>2, <1>3, <1>4, <1>5, <1>6 DEF TxNext

\* The rows of the transactions are at all times those of a run of the atomic ledger: at
\* READ COMMITTED, with the advisory locks of the owners and an archiving that takes none,
\* no interleaving, lost connection or refused request leaves the tables in a state the
\* one-step operations could not produce (services/absences.rs, repository/time_entries.rs,
\* services/users.rs).
THEOREM TransactionsImplementLedger == TxSpec => ImplementsLedger
<1>1. TxSpec => []TxInv
  BY TxInvInit, TxInvStep, PTL DEF TxSpec
<1>2. TxInit => Ledger!Init
  BY DEF TxInit, Init, Ledger!Init
<1>3. TxInv /\ [TxNext]_txVars => [Ledger!Next]_Ledger!vars
  \* Nothing is renamed, so both sides are the same formula once every definition is expanded.
  <2>1. [Next]_vars => [Ledger!Next]_Ledger!vars
    BY Zenon DEF vars, Slot, HasEntry, HasAbsence, SameDay, Overlap, Covers, Reopenable,
       Active, Blocking, OnBlockingAbsence, MayReview, ValidEntry, SetReview, SetSlot,
       AsDraft, ResolveRejected, CanCreateEntry, DoCreateEntry, CreateEntry, AdminCorrection,
       CanUpdateEntry, DoUpdateEntry, UpdateEntry, CanDeleteEntry, DoDeleteEntry, DeleteEntry,
       DraftsOf, CanSubmitBatch, DoSubmitBatch, SubmitBatch, DoSubmitBatchAutoApproved,
       SubmitBatchAutoApproved, Reviewable, CanBatchApprove, DoBatchApprove, BatchApprove,
       CanBatchReject, DoBatchReject, BatchReject, ReopenTargets, ValidAfterReopen,
       CanPerformReopen, DoPerformReopen, PerformReopen, SetAbsence, WithStatus,
       InitialStatus, NoAbsenceOverlap, CanCreateAbsence, DoCreateAbsence, CreateAbsence,
       CanUpdateAbsence, DoUpdateAbsence, UpdateAbsence, SetStatus, CanCancelAbsence,
       DoCancelAbsence, CancelAbsence, CanReviewAbsence, NoTimeConflict, CanApproveAbsence,
       ApproveAbsence, RejectAbsence, ApproveCancellation, RejectCancellation,
       CanRevokeAbsence, RevokeAbsence, PendingEntries, PendingAbsences, DoClosePending,
       ClosePending, NextDay, EntryStep, AbsenceStep, Next, Ledger!vars, Ledger!Slot,
       Ledger!HasEntry, Ledger!HasAbsence, Ledger!SameDay, Ledger!Overlap, Ledger!Covers,
       Ledger!Reopenable, Ledger!Active, Ledger!Blocking, Ledger!OnBlockingAbsence,
       Ledger!MayReview, Ledger!ValidEntry, Ledger!SetReview, Ledger!SetSlot, Ledger!AsDraft,
       Ledger!ResolveRejected, Ledger!CanCreateEntry, Ledger!DoCreateEntry,
       Ledger!CreateEntry, Ledger!AdminCorrection, Ledger!CanUpdateEntry,
       Ledger!DoUpdateEntry, Ledger!UpdateEntry, Ledger!CanDeleteEntry, Ledger!DoDeleteEntry,
       Ledger!DeleteEntry, Ledger!DraftsOf, Ledger!CanSubmitBatch, Ledger!DoSubmitBatch,
       Ledger!SubmitBatch, Ledger!DoSubmitBatchAutoApproved, Ledger!SubmitBatchAutoApproved,
       Ledger!Reviewable, Ledger!CanBatchApprove, Ledger!DoBatchApprove, Ledger!BatchApprove,
       Ledger!CanBatchReject, Ledger!DoBatchReject, Ledger!BatchReject, Ledger!ReopenTargets,
       Ledger!ValidAfterReopen, Ledger!CanPerformReopen, Ledger!DoPerformReopen,
       Ledger!PerformReopen, Ledger!SetAbsence, Ledger!WithStatus, Ledger!InitialStatus,
       Ledger!NoAbsenceOverlap, Ledger!CanCreateAbsence, Ledger!DoCreateAbsence,
       Ledger!CreateAbsence, Ledger!CanUpdateAbsence, Ledger!DoUpdateAbsence,
       Ledger!UpdateAbsence, Ledger!SetStatus, Ledger!CanCancelAbsence,
       Ledger!DoCancelAbsence, Ledger!CancelAbsence, Ledger!CanReviewAbsence,
       Ledger!NoTimeConflict, Ledger!CanApproveAbsence, Ledger!ApproveAbsence,
       Ledger!RejectAbsence, Ledger!ApproveCancellation, Ledger!RejectCancellation,
       Ledger!CanRevokeAbsence, Ledger!RevokeAbsence, Ledger!PendingEntries,
       Ledger!PendingAbsences, Ledger!DoClosePending, Ledger!ClosePending, Ledger!NextDay,
       Ledger!EntryStep, Ledger!AbsenceStep, Ledger!Next
  <2>2. QED
    BY <2>1, TxStepIsStep
<1>4. QED
  BY <1>1, <1>2, <1>3, PTL DEF TxSpec, ImplementsLedger, Ledger!Spec

\* Requests and archivings stay well-formed, and a request that has decided holds the
\* locks of the owners of every row it is about to write.
THEOREM TxTypeCorrect == TxSpec => []TxTypeOK
<1>1. TxInv => TxTypeOK
  <2>1. SUFFICES ASSUME TxInv
                 PROVE  TxTypeOK
    OBVIOUS
  <2>2. ASSUME NEW p \in Requests, req[p].op # NoOp
        PROVE  OwnersOf(req[p].op.ids, req[p].op.abs) \subseteq Held(p)
    <3>1. req[p].by # Nobody /\ req[p].wants \subseteq Held(p) /\ req[p] \in Request
      BY <2>1, <2>2 DEF TxInv, OpInv, Going, Types
    <3>2. PICK r \in Users, W \in SUBSET Users, o \in Ops :
            req[p].by = r /\ req[p].wants = W /\ req[p].op = o
      BY <3>1 DEF Request
    <3>3. Decided(r, W, o)
      BY <2>1, <2>2, <3>2 DEF TxInv, OpInv, Going
    <3>4. QED
      BY <3>1, <3>2, <3>3 DEF Decided
  <2>3. QED
    BY <2>1, <2>2 DEF TxTypeOK, TxInv, Types, Request, Closing
<1>2. QED
  BY <1>1, TxInvInit, TxInvStep, PTL DEF TxSpec

\* What holds of the atomic ledger holds of the concurrent requests: they neither book a
\* minute twice, nor let work meet a confirmed absence, nor let two active absences share
\* a day, nor keep a replaced rejection open, nor record a decision nobody was entitled to.
THEOREM ConcurrentRequestsSafe ==
  TxSpec => [](/\ NoDoubleBooking /\ NoWorkOnAbsence /\ AbsencesDisjoint
               /\ ReplacedRejectionsResolved /\ ReviewedByEntitled)
<1>1. TxSpec => Spec
  <2>1. TxInit => Init
    BY DEF TxInit
  <2>2. QED
    BY <2>1, TxInvInit, TxInvStep, TxStepIsStep, PTL DEF TxSpec, Spec
<1>2. Inv => /\ NoDoubleBooking /\ NoWorkOnAbsence /\ AbsencesDisjoint
             /\ ReplacedRejectionsResolved /\ ReviewedByEntitled
  BY DEF Inv
<1>3. QED
  BY <1>1, <1>2, Invariance, PTL

----------------------------------------------------------------------------
(* The guard on work in a row                                              *)

LEMMA LeastNumber ==
  ASSUME NEW S \in SUBSET Nat, S # {}
  PROVE  \E m \in S : \A n \in S : m <= n
<1> DEFINE Less == {p \in Nat \X Nat : p[1] < p[2]}
<1>1. IsWellFoundedOn(Less, Nat)
  BY NatLessThanWellFounded DEF OpToRel
<1>2. PICK m \in S : \A y \in S : ~(<<y, m>> \in Less)
  BY <1>1, WFMin
<1>3. ASSUME NEW y \in S
      PROVE  m <= y
  <2>1. ~(y < m)
    BY <1>2
  <2>2. QED
    BY <2>1
<1>4. QED
  BY <1>3

\* A day has a first and a last moment, and so has every set of times.
LEMMA TimesHaveEnds ==
  ASSUME NEW S \in SUBSET Times, S # {}
  PROVE  /\ Min(S) \in S /\ \A t \in S : Min(S) <= t
         /\ Max(S) \in S /\ \A t \in S : t <= Max(S)
<1>1. PICK first, last \in Times : S \subseteq first..last
  BY WorkAssumption
<1>2. first \in Int /\ last \in Int /\ S \subseteq Int
  BY CalendarAssumption
<1> DEFINE Up == {t - first : t \in S}
           Down == {last - t : t \in S}
<1>3. Up \in SUBSET Nat /\ Up # {} /\ Down \in SUBSET Nat /\ Down # {}
  <2>1. \A t \in S : t - first \in Nat /\ last - t \in Nat
    BY <1>1, <1>2
  <2>2. PICK t \in S : TRUE
    OBVIOUS
  <2>3. t - first \in Up /\ last - t \in Down
    OBVIOUS
  <2> QED
    BY <2>1, <2>3
<1>4. PICK m \in Up : \A n \in Up : m <= n
  BY <1>3, LeastNumber
<1>5. PICK low \in S : m = low - first
  BY <1>4
<1>6. \A t \in S : low <= t
  <2> TAKE t \in S
  <2>1. m <= t - first
    BY <1>4
  <2> QED
    BY <1>2, <1>5, <2>1
<1>7. PICK k \in Down : \A n \in Down : k <= n
  BY <1>3, LeastNumber
<1>8. PICK high \in S : k = last - high
  BY <1>7
<1>9. \A t \in S : t <= high
  <2> TAKE t \in S
  <2>1. k <= last - t
    BY <1>7
  <2> QED
    BY <1>2, <1>8, <2>1
<1>10. Min(S) \in S /\ \A t \in S : Min(S) <= t
  BY <1>6 DEF Min
<1>11. Max(S) \in S /\ \A t \in S : Max(S) >= t
  <2>1. \E x \in S : \A y \in S : x >= y
    BY <1>2, <1>9
  <2> QED
    BY <2>1 DEF Max
<1> QED
  BY <1>2, <1>10, <1>11

\* A span of time of positive length.
Interval == {e \in [start : Times, end : Times] : e.start < e.end}

LEMMA HullIs ==
  ASSUME NEW R \in SUBSET Interval, R # {}
  PROVE  /\ Hull(R).start \in Times /\ Hull(R).end \in Times
         /\ \A e \in R : Hull(R).start <= e.start /\ e.end <= Hull(R).end
         /\ \E e \in R : Hull(R).start = e.start
         /\ \E e \in R : Hull(R).end = e.end
<1> DEFINE starts == {e.start : e \in R}
           ends == {e.end : e \in R}
<1>1. starts \in SUBSET Times /\ starts # {} /\ ends \in SUBSET Times /\ ends # {}
  <2>1. \A e \in R : e.start \in Times /\ e.end \in Times
    BY DEF Interval
  <2> QED
    BY <2>1
<1>2. Hull(R).start = Min(starts) /\ Hull(R).end = Max(ends)
  BY DEF Hull
<1>3. \A e \in R : e.start \in starts /\ e.end \in ends
  OBVIOUS
<1>4. /\ Min(starts) \in starts /\ \A t \in starts : Min(starts) <= t
      /\ Max(ends) \in ends /\ \A t \in ends : t <= Max(ends)
  BY <1>1, TimesHaveEnds
<1> QED
  BY <1>1, <1>2, <1>3, <1>4

\* The stretch of s holds s, and every entry is in it or a pause away from it.
LEMMA StretchIs ==
  ASSUME NEW s \in Interval, NEW slots \in SUBSET Interval, NEW pause \in Nat
  PROVE  LET stretch == StretchFrom(s, slots, pause)
         IN  /\ stretch.start \in Times /\ stretch.end \in Times
             /\ stretch.start <= s.start /\ s.end <= stretch.end
             /\ \A e \in slots : \/ stretch.start <= e.start /\ e.end <= stretch.end
                                 \/ ~InReach(e, stretch, pause)
<1> DEFINE closed == {taken \in SUBSET slots :
                        \A e \in slots : InReach(e, Hull(taken \cup {s}), pause) => e \in taken}
           least == {e \in slots : \A taken \in closed : e \in taken}
           stretch == Hull({s} \cup least)
<1>1. StretchFrom(s, slots, pause) = stretch
  BY DEF StretchFrom
<1>2. /\ stretch.start \in Times /\ stretch.end \in Times
      /\ \A e \in {s} \cup least : stretch.start <= e.start /\ e.end <= stretch.end
  BY HullIs
<1>3. ASSUME NEW e \in slots, InReach(e, stretch, pause) PROVE e \in least
  <2> SUFFICES ASSUME NEW taken \in closed PROVE e \in taken
    OBVIOUS
  <2> DEFINE wider == Hull(taken \cup {s})
  <2>1. least \subseteq taken /\ taken \subseteq slots
    OBVIOUS
  <2>2. /\ wider.start \in Times /\ wider.end \in Times
        /\ \A f \in taken \cup {s} : wider.start <= f.start /\ f.end <= wider.end
    BY HullIs
  <2>3. PICK f \in {s} \cup least : stretch.start = f.start
    BY HullIs
  <2>4. PICK g \in {s} \cup least : stretch.end = g.end
    BY HullIs
  <2>5. wider.start <= stretch.start /\ stretch.end <= wider.end
    BY <2>1, <2>2, <2>3, <2>4
  <2>6. e.start \in Int /\ e.end \in Int /\ stretch.start \in Int /\ stretch.end \in Int
        /\ wider.start \in Int /\ wider.end \in Int
    BY <1>2, <2>2, CalendarAssumption DEF Interval
  <2>7. InReach(e, wider, pause)
    <3> HIDE DEF stretch, wider
    <3> QED
      BY <1>3, <2>5, <2>6 DEF InReach
  <2> QED
    BY <2>7
<1> HIDE DEF least, stretch
<1> QED
  BY <1>1, <1>2, <1>3

Limits == [max : Nat, pause : Nat]

\* PauseBetween, for rows that are not the present ones.
Paused(E, i, j, pause, W) ==
  \E p \in E[i].end..(E[j].start - pause) :
    \A k \in W : E[k].end <= p \/ p + pause <= E[k].start

\* No two entries of W are further apart than the limit without a pause.
WithinLimit(E, W, limit) ==
  \A i, j \in W : E[j].end - E[i].start > limit.max => Paused(E, i, j, limit.pause, W)

\* An entry the guard lets through keeps those it is booked beside within the limit.
LEMMA NewFits ==
  ASSUME NEW limit \in Limits, NEW E, NEW W \in SUBSET EntryIds, NEW n \in W,
         \A k \in W : E[k].start \in Times /\ E[k].end \in Times /\ E[k].start < E[k].end,
         \A k \in W \ {n} : ~Overlap(E[k], E[n]),
         NEW s \in Interval, s.start = E[n].start, s.end = E[n].end,
         NEW slots \in SUBSET Interval,
         \A k \in W \ {n} : \E e \in slots : e.start = E[k].start /\ e.end = E[k].end,
         StretchFrom(s, slots, limit.pause).end - StretchFrom(s, slots, limit.pause).start
           <= limit.max,
         WithinLimit(E, W \ {n}, limit)
  PROVE  WithinLimit(E, W, limit)
<1> DEFINE t == StretchFrom(s, slots, limit.pause)
<1>1. limit.max \in Nat /\ limit.pause \in Nat
  BY DEF Limits
<1>2. \A k \in W : E[k].start \in Int /\ E[k].end \in Int /\ E[k].start < E[k].end
  BY CalendarAssumption
<1>3. /\ t.start \in Int /\ t.end \in Int /\ t.start <= E[n].start /\ E[n].end <= t.end
      /\ \A e \in slots : \/ t.start <= e.start /\ e.end <= t.end
                          \/ ~InReach(e, t, limit.pause)
  BY <1>1, StretchIs, CalendarAssumption
<1>4. t.end - t.start <= limit.max
  OBVIOUS
<1> HIDE DEF t
<1>5. \A k \in W : \/ t.start <= E[k].start /\ E[k].end <= t.end
                   \/ t.end + limit.pause <= E[k].start
                   \/ E[k].end <= t.start - limit.pause
  <2> SUFFICES ASSUME NEW k \in W \ {n}
               PROVE  \/ t.start <= E[k].start /\ E[k].end <= t.end
                      \/ t.end + limit.pause <= E[k].start
                      \/ E[k].end <= t.start - limit.pause
    BY <1>3
  <2>1. PICK e \in slots : e.start = E[k].start /\ e.end = E[k].end
    OBVIOUS
  <2> QED
    BY <1>1, <1>2, <1>3, <2>1 DEF InReach
<1>6. SUFFICES ASSUME NEW i \in W, NEW j \in W, E[j].end - E[i].start > limit.max
               PROVE  Paused(E, i, j, limit.pause, W)
  BY DEF WithinLimit
<1>7. CASE E[i].start <= E[n].start /\ E[n].end <= E[j].end
  <2>1. CASE t.end < E[j].end
    <3>1. t.end \in E[i].end..(E[j].start - limit.pause)
      BY <1>1, <1>2, <1>3, <1>5, <1>7, <2>1
    <3>2. \A k \in W : E[k].end <= t.end \/ t.end + limit.pause <= E[k].start
      BY <1>1, <1>2, <1>3, <1>5
    <3> QED
      BY <3>1, <3>2 DEF Paused
  <2>2. CASE E[i].start < t.start
    <3> DEFINE p == t.start - limit.pause
    <3>1. p \in E[i].end..(E[j].start - limit.pause)
      BY <1>1, <1>2, <1>3, <1>5, <1>7, <2>2
    <3>2. \A k \in W : E[k].end <= p \/ p + limit.pause <= E[k].start
      BY <1>1, <1>2, <1>3, <1>5
    <3> HIDE DEF p
    <3> QED
      BY <3>1, <3>2 DEF Paused
  <2> QED
    BY <1>1, <1>2, <1>3, <1>4, <1>6, <2>1, <2>2
<1>8. CASE E[n].start < E[i].start
  <2>1. i # n /\ E[n].end <= E[i].start
    BY <1>2, <1>8 DEF Overlap
  <2>2. j # n
    BY <1>1, <1>2, <1>6, <1>8, <2>1
  <2>3. PICK p \in E[i].end..(E[j].start - limit.pause) :
          \A k \in W \ {n} : E[k].end <= p \/ p + limit.pause <= E[k].start
    BY <1>6, <2>1, <2>2 DEF WithinLimit, Paused
  <2>4. E[n].end <= p
    BY <1>2, <2>1, <2>3
  <2> QED
    BY <2>3, <2>4 DEF Paused
<1>9. CASE E[j].end < E[n].end
  <2>1. j # n /\ E[j].end <= E[n].start
    BY <1>2, <1>9 DEF Overlap
  <2>2. i # n
    BY <1>1, <1>2, <1>6, <1>9, <2>1
  <2>3. PICK p \in E[i].end..(E[j].start - limit.pause) :
          \A k \in W \ {n} : E[k].end <= p \/ p + limit.pause <= E[k].start
    BY <1>6, <2>1, <2>2 DEF WithinLimit, Paused
  <2>4. p + limit.pause <= E[n].start
    BY <1>1, <1>2, <2>1, <2>3
  <2> QED
    BY <2>3, <2>4 DEF Paused
<1> QED
  BY <1>2, <1>7, <1>8, <1>9

----------------------------------------------------------------------------
(* The invariant                                                           *)

Reading ==
  [at : {"guard", "rules", "pause", "ready"}, max : Nat, pause : Nat]

DayTypeOK ==
  /\ category \in [EntryIds -> Categories]
  /\ exempt \in SUBSET EntryIds
  /\ counts \in [Categories -> BOOLEAN]
  /\ breaks \in Settings
  /\ reading \in [WorkRequests -> Reading]
  /\ judged \in [EntryIds -> Limits]

\* The work of a day that one limit was asked about.
JudgedBy(u, d, limit) == {k \in WorkOn(u, d, Live) : judged[k] = limit}

\* Any of it stays within the limit, also without the rest of it: an entry may
\* be deleted or rejected.
Guarded ==
  \A u \in Users, d \in Days, limit \in Limits :
    limit # NoLimit =>
      \A W \in SUBSET JudgedBy(u, d, limit) : WithinLimit(entries, W, limit)

DayInv == Inv /\ DayTypeOK /\ Guarded

LEMMA WorkOnIs ==
  ASSUME TypeOK, NEW u, NEW d, NEW k \in WorkOn(u, d, Live)
  PROVE  /\ k \in EntryIds /\ HasEntry(k) /\ entries[k] \in Entry
         /\ entries[k].user = u /\ entries[k].day = d /\ entries[k].status \in Live
         /\ entries[k].start \in Times /\ entries[k].end \in Times
         /\ entries[k].start < entries[k].end
         /\ counts[category[k]]
BY DEF WorkOn, TypeOK, HasEntry, Entry

\* Nothing is booked or moved: the work that is judged by a limit was before.
LEMMA NothingBooked ==
  ASSUME Guarded,
         \A k \in EntryIds :
           /\ HasEntry(k)' /\ entries'[k].status \in Live /\ counts'[category'[k]]
           /\ judged'[k] # NoLimit
           => /\ HasEntry(k) /\ entries[k].status \in Live /\ counts[category[k]]
              /\ judged[k] = judged'[k]
              /\ entries'[k].user = entries[k].user /\ entries'[k].day = entries[k].day
              /\ entries'[k].start = entries[k].start /\ entries'[k].end = entries[k].end
  PROVE  Guarded'
<1> SUFFICES ASSUME NEW u \in Users, NEW d \in Days, NEW limit \in Limits, limit # NoLimit,
                    NEW W \in SUBSET JudgedBy(u, d, limit)'
             PROVE  WithinLimit(entries', W, limit)
  BY DEF Guarded
<1>1. \A k \in W : /\ k \in JudgedBy(u, d, limit)
                   /\ entries'[k].start = entries[k].start /\ entries'[k].end = entries[k].end
  BY DEF JudgedBy, WorkOn, HasEntry
<1>2. WithinLimit(entries, W, limit)
  BY <1>1 DEF Guarded
<1> QED
  BY <1>1, <1>2 DEF WithinLimit, Paused

\* An entry is booked or moved, judged by the limit the request has read.
LEMMA OneBooked ==
  ASSUME TypeOK, Guarded, TypeOK', NoDoubleBooking',
         NEW n \in EntryIds, NEW u \in Users, NEW slot \in Slot, NEW c, NEW limit \in Limits,
         limit # NoLimit => StretchFits(u, slot, c, n, limit),
         UNCHANGED counts,
         HasEntry(n)', entries'[n].user = u, entries'[n].day = slot.day,
         entries'[n].start = slot.start, entries'[n].end = slot.end,
         category'[n] = c, judged'[n] = limit,
         \A k \in EntryIds \ {n} : HasEntry(k)' /\ entries'[k].status \in Live =>
           entries'[k] = entries[k] /\ category'[k] = category[k] /\ judged'[k] = judged[k]
  PROVE  Guarded'
<1> SUFFICES ASSUME NEW v \in Users, NEW d \in Days, NEW limit2 \in Limits, limit2 # NoLimit,
                    NEW W \in SUBSET JudgedBy(v, d, limit2)'
             PROVE  WithinLimit(entries', W, limit2)
  BY DEF Guarded
<1>1. \A k \in W \ {n} : k \in JudgedBy(v, d, limit2) /\ entries'[k] = entries[k]
  BY DEF JudgedBy, WorkOn, HasEntry
<1>2. W \ {n} \in SUBSET JudgedBy(v, d, limit2)
  BY <1>1
<1>3. WithinLimit(entries, W \ {n}, limit2)
  BY <1>2 DEF Guarded
<1>4. WithinLimit(entries', W \ {n}, limit2)
  BY <1>1, <1>3 DEF WithinLimit, Paused
<1>5. CASE n \notin W
  <2>1. W \ {n} = W
    BY <1>5
  <2> QED
    BY <1>4, <2>1
<1>6. CASE n \in W
  <2> DEFINE s == [start |-> slot.start, end |-> slot.end]
             slots == {SlotOf(k) : k \in WorkOn(u, slot.day, Live) \ {n}}
  <2>1. v = u /\ d = slot.day /\ limit2 = limit /\ counts[c]
    BY <1>6 DEF JudgedBy, WorkOn
  <2>2. \A k \in W : /\ k \in EntryIds /\ HasEntry(k)' /\ entries'[k].status \in Live
                     /\ entries'[k].user = u /\ entries'[k].day = d
    BY <2>1 DEF JudgedBy, WorkOn
  <2>3. \A k \in W : /\ entries'[k].start \in Times /\ entries'[k].end \in Times
                     /\ entries'[k].start < entries'[k].end
    BY <2>2 DEF TypeOK, HasEntry, Entry
  <2>4. \A k \in W \ {n} : ~Overlap(entries'[k], entries'[n])
    BY <1>6, <2>2 DEF NoDoubleBooking, SameDay, Live
  <2>5. s \in Interval /\ s.start = entries'[n].start /\ s.end = entries'[n].end
    BY <1>6, <2>3 DEF Interval
  <2>6. slots \in SUBSET Interval
    BY WorkOnIs DEF SlotOf, Interval
  <2>7. \A k \in W \ {n} : \E e \in slots : e.start = entries'[k].start /\ e.end = entries'[k].end
    <3> TAKE k \in W \ {n}
    <3>1. k \in WorkOn(u, slot.day, Live) \ {n} /\ entries'[k] = entries[k]
      BY <1>1, <2>1 DEF JudgedBy
    <3>2. SlotOf(k) \in slots
      BY <3>1
    <3> QED
      BY <3>1, <3>2 DEF SlotOf
  <2>8. StretchFrom(s, slots, limit.pause).end - StretchFrom(s, slots, limit.pause).start
          <= limit.max
    BY <2>1 DEF StretchFits
  <2>9. W \in SUBSET EntryIds
    BY <2>2
  <2> HIDE DEF s, slots
  <2> QED
    BY <1>4, <1>6, <2>1, <2>3, <2>4, <2>5, <2>6, <2>7, <2>8, <2>9, NewFits
<1> QED
  BY <1>5, <1>6

----------------------------------------------------------------------------
(* Every step of a day's work                                              *)

\* The ledger takes a step of its own or none.
LEMMA DayStepIsStep == [DayNext]_dayVars => [Next]_vars
<1> SUFFICES ASSUME [DayNext]_dayVars PROVE [Next]_vars
  OBVIOUS
<1>1. ASSUME NEW r, NEW u \in Users, NEW i \in EntryIds, NEW slot \in Slot, NEW c,
             CreateWork(r, u, i, slot, c) \/ UpdateWork(r, u, i, slot, c)
      PROVE  Next
  BY <1>1 DEF CreateWork, UpdateWork, Next, EntryStep
<1>2. ASSUME ReviewWork PROVE Next
  <2>1. PICK u \in Users :
          \/ \E i \in EntryIds : DeleteEntry(u, i)
          \/ SubmitBatch(u, EntryIds) \/ SubmitBatchAutoApproved(u, EntryIds)
          \/ \E ids \in SUBSET EntryIds :
               BatchApprove(u, ids) \/ BatchReject(u, ids) \/ ClosePending(u, ids, {})
          \/ \E d \in Days : PerformReopen(u, WeekOf[d])
    BY <1>2 DEF ReviewWork
  <2> QED
    BY <2>1 DEF Next, EntryStep
<1>3. ASSUME NEW x, ReadLimit(x) \/ SaveBreaks(x) \/ CheckCategory(x) \/ ChangeCategory(x)
      PROVE  UNCHANGED vars
  BY <1>3 DEF ReadLimit, SaveBreaks, CheckCategory, ChangeCategory, ledger, vars
<1>4. \A d \in Days, s, t \in Times : [day |-> d, start |-> s, end |-> t] \in Slot
  BY DEF Slot
<1>5. CASE UNCHANGED dayVars
  BY <1>5 DEF dayVars, ledger, vars
<1>6. CASE DayNext
  BY <1>1, <1>2, <1>3, <1>4, <1>6 DEF DayNext
<1> QED
  BY <1>5, <1>6

LEMMA LimitIsTyped ==
  ASSUME DayTypeOK, NEW r \in WorkRequests
  PROVE  LimitRead(r) \in Limits
BY DEF DayTypeOK, Reading, LimitRead, Limits

LEMMA ThresholdIsTyped ==
  ASSUME DayTypeOK, breaks.rules # {}
  PROVE  Min({b.over : b \in breaks.rules}) \in Nat
<1> DEFINE S == {b.over : b \in breaks.rules}
<1>1. breaks.rules \in SUBSET [over : Nat, minus : Nat]
  BY WorkAssumption DEF DayTypeOK
<1>2. S \in SUBSET Nat /\ S # {}
  BY <1>1
<1>3. \E m \in S : \A n \in S : m <= n
  BY <1>2, LeastNumber
<1> HIDE DEF S
<1>4. Min(S) \in S
  BY <1>3 DEF Min
<1> QED
  BY <1>2, <1>4 DEF S

LEMMA DayTypeStep ==
  ASSUME DayTypeOK, [DayNext]_dayVars
  PROVE  DayTypeOK'
<1> USE DEF DayTypeOK
<1>1. NoLimit \in Limits /\ Fresh \in Reading
  BY DEF NoLimit, Limits, Fresh, Reading
<1>2. ASSUME NEW r \in WorkRequests, ReadLimit(r)
      PROVE  DayTypeOK'
  <2>1. breaks.pause \in Nat
    BY WorkAssumption
  <2>2. reading[r] \in Reading
    OBVIOUS
  <2>3. reading' \in [WorkRequests -> Reading]
    BY <1>2, <2>1, <2>2, ThresholdIsTyped DEF ReadLimit, Reading
  <2> QED
    BY <1>2, <2>3 DEF ReadLimit
<1>3. ASSUME NEW r \in WorkRequests, NEW u \in Users, NEW i \in EntryIds, NEW slot \in Slot,
             NEW c \in Categories, CreateWork(r, u, i, slot, c)
      PROVE  DayTypeOK'
  BY <1>1, <1>3, LimitIsTyped DEF CreateWork
<1>4. ASSUME NEW r \in WorkRequests, NEW u \in Users, NEW i \in EntryIds, NEW slot \in Slot,
             NEW c \in Categories, UpdateWork(r, u, i, slot, c)
      PROVE  DayTypeOK'
  BY <1>1, <1>4, LimitIsTyped DEF UpdateWork
<1>5. ASSUME ReviewWork PROVE DayTypeOK'
  BY <1>1, <1>5 DEF ReviewWork
<1>6. ASSUME NEW x \in Settings, SaveBreaks(x) PROVE DayTypeOK'
  BY <1>6 DEF SaveBreaks
<1>7. ASSUME NEW c \in Categories, CheckCategory(c) PROVE DayTypeOK'
  BY <1>7 DEF CheckCategory
<1>8. ASSUME NEW c \in Categories, ChangeCategory(c) PROVE DayTypeOK'
  BY <1>1, <1>8 DEF ChangeCategory
<1>9. CASE UNCHANGED dayVars
  BY <1>9 DEF dayVars
<1>10. \A d \in Days, s, t \in Times : [day |-> d, start |-> s, end |-> t] \in Slot
  BY DEF Slot
<1> QED
  BY <1>2, <1>3, <1>4, <1>5, <1>6, <1>7, <1>8, <1>9, <1>10 DEF DayNext

LEMMA CreateStaysGuarded ==
  ASSUME DayInv, Inv', NEW r \in WorkRequests, NEW u \in Users, NEW i \in EntryIds,
         NEW slot \in Slot, NEW c \in Categories, CreateWork(r, u, i, slot, c)
  PROVE  Guarded'
<1>1. /\ TypeOK /\ Guarded /\ DayTypeOK /\ TypeOK' /\ NoDoubleBooking'
      /\ LimitRead(r) \in Limits
  BY LimitIsTyped DEF DayInv, Inv
<1>2. entries \in Entries /\ entries' \in Entries
  BY <1>1 DEF TypeOK, Entries
<1> DEFINE row == [user |-> u, day |-> slot.day, start |-> slot.start, end |-> slot.end,
                   status |-> "draft", resolved |-> FALSE, reviewer |-> NoUser]
<1>3. entries' = [entries EXCEPT ![i] = row]
  BY DEF CreateWork, CreateEntry, DoCreateEntry
<1>4. row \in Entry
  BY DEF Entry, EntryStatus, Slot
<1>5. /\ HasEntry(i)' /\ entries'[i].user = u /\ entries'[i].day = slot.day
      /\ entries'[i].start = slot.start /\ entries'[i].end = slot.end
  BY <1>2, <1>3, <1>4, NoRowAssumption DEF HasEntry, Entries
<1>6. /\ LimitRead(r) # NoLimit => StretchFits(u, slot, c, i, LimitRead(r))
      /\ UNCHANGED counts
      /\ category' = [category EXCEPT ![i] = c]
      /\ judged' = [judged EXCEPT ![i] = LimitRead(r)]
  BY DEF CreateWork
<1>7. category'[i] = c /\ judged'[i] = LimitRead(r)
  BY <1>1, <1>6 DEF DayTypeOK
<1>8. \A k \in EntryIds \ {i} :
        entries'[k] = entries[k] /\ category'[k] = category[k] /\ judged'[k] = judged[k]
  BY <1>1, <1>2, <1>3, <1>6 DEF DayTypeOK, Entries
<1> QED
  BY <1>1, <1>5, <1>6, <1>7, <1>8, OneBooked

LEMMA UpdateStaysGuarded ==
  ASSUME DayInv, Inv', NEW r \in WorkRequests, NEW u \in Users, NEW i \in EntryIds,
         NEW slot \in Slot, NEW c \in Categories, UpdateWork(r, u, i, slot, c)
  PROVE  Guarded'
<1>1. /\ TypeOK /\ Guarded /\ DayTypeOK /\ TypeOK' /\ NoDoubleBooking'
      /\ LimitRead(r) \in Limits
  BY LimitIsTyped DEF DayInv, Inv
<1>2. HasEntry(i) /\ entries[i] \in Entry /\ entries \in Entries /\ entries' \in Entries
  BY <1>1 DEF UpdateWork, UpdateEntry, CanUpdateEntry, TypeOK, HasEntry, Entries
<1> DEFINE moved == [entries EXCEPT ![i] = SetSlot(entries[i], slot)]
<1>3. SetSlot(entries[i], slot) \in Entry
  BY <1>2 DEF SetSlot, Entry, Slot
<1>4. moved \in Entries
  BY <1>2, <1>3 DEF Entries
<1>5. entries' = moved \/ entries' = ResolveRejected(moved, {i})
  BY DEF UpdateWork, UpdateEntry, DoUpdateEntry
<1>6. \A k \in EntryIds : /\ HasEntry(k)' <=> moved[k] # NoRow
                          /\ HasEntry(k)' =>
                               /\ entries'[k].user = moved[k].user
                               /\ entries'[k].day = moved[k].day
                               /\ entries'[k].start = moved[k].start
                               /\ entries'[k].end = moved[k].end
                               /\ entries'[k].status = moved[k].status
                               /\ moved[k].status # "rejected" => entries'[k] = moved[k]
  <2> TAKE k \in EntryIds
  <2> HIDE DEF moved
  <2> QED
    BY <1>4, <1>5, ResolveRejectedFacts DEF HasEntry
<1>7. /\ moved[i] # NoRow /\ moved[i].user = entries[i].user /\ moved[i].day = slot.day
      /\ moved[i].start = slot.start /\ moved[i].end = slot.end
      /\ moved[i].status = entries[i].status
      /\ \A k \in EntryIds \ {i} : moved[k] = entries[k]
  BY <1>2, <1>3, NoRowAssumption DEF Entries, SetSlot
<1> HIDE DEF moved
<1>8. /\ LimitRead(r) # NoLimit /\ JudgedOnUpdate(i, slot, c)
           => StretchFits(entries[i].user, slot, c, i, LimitRead(r))
      /\ category' = [category EXCEPT ![i] = c]
      /\ judged' = IF Moves(i, slot, c)
                   THEN [judged EXCEPT ![i] = IF i \in exempt THEN NoLimit ELSE LimitRead(r)]
                   ELSE judged
      /\ UNCHANGED counts
  BY DEF UpdateWork
<1>9. \A k \in EntryIds \ {i} : category'[k] = category[k] /\ judged'[k] = judged[k]
  BY <1>1, <1>8 DEF DayTypeOK
<1>10. category'[i] = c
  BY <1>1, <1>8 DEF DayTypeOK
<1>11. CASE Moves(i, slot, c)
  <2> DEFINE limit == IF i \in exempt THEN NoLimit ELSE LimitRead(r)
  <2>1. limit \in Limits /\ judged'[i] = limit
    BY <1>1, <1>8, <1>11 DEF DayTypeOK, NoLimit, Limits
  <2>2. limit # NoLimit => StretchFits(entries[i].user, slot, c, i, limit)
    BY <1>8, <1>11 DEF JudgedOnUpdate
  <2>3. entries[i].user \in Users
    BY <1>2 DEF Entry
  <2>4. /\ HasEntry(i)' /\ entries'[i].user = entries[i].user /\ entries'[i].day = slot.day
        /\ entries'[i].start = slot.start /\ entries'[i].end = slot.end
    BY <1>6, <1>7
  <2>5. \A k \in EntryIds \ {i} : HasEntry(k)' /\ entries'[k].status \in Live =>
          entries'[k] = entries[k] /\ category'[k] = category[k] /\ judged'[k] = judged[k]
    BY <1>6, <1>7, <1>9 DEF Live
  <2> HIDE DEF limit
  <2> QED
    BY <1>1, <1>8, <1>10, <2>1, <2>2, <2>3, <2>4, <2>5, OneBooked
<1>12. CASE ~Moves(i, slot, c)
  <2>1. /\ entries[i].day = slot.day /\ entries[i].start = slot.start
        /\ entries[i].end = slot.end /\ category[i] = c /\ judged' = judged
    BY <1>8, <1>12 DEF Moves
  <2>2. \A k \in EntryIds : HasEntry(k)' =>
          /\ HasEntry(k) /\ entries'[k].user = entries[k].user
          /\ entries'[k].day = entries[k].day /\ entries'[k].start = entries[k].start
          /\ entries'[k].end = entries[k].end /\ entries'[k].status = entries[k].status
          /\ category'[k] = category[k]
    BY <1>2, <1>6, <1>7, <1>9, <1>10, <2>1 DEF HasEntry
  <2> QED
    BY <1>1, <1>8, <2>1, <2>2, NothingBooked
<1> QED
  BY <1>11, <1>12

\* Reviewing, deleting and reopening move no entry, and an entry that comes
\* back from a rejection has passed no limit any more.
LEMMA ReviewStaysGuarded ==
  ASSUME DayInv, ReviewWork
  PROVE  Guarded'
<1>1. TypeOK /\ Guarded /\ DayTypeOK
  BY DEF DayInv, Inv
<1>2. /\ UNCHANGED <<category, counts>>
      /\ judged' = [i \in EntryIds |->
           IF HasEntry(i) /\ entries[i].status = "rejected" /\ entries'[i].status = "draft"
           THEN NoLimit ELSE judged[i]]
  BY DEF ReviewWork
<1>3. \A k \in EntryIds : HasEntry(k) => entries[k] \in Entry
  BY <1>1 DEF TypeOK, HasEntry
<1>4. ASSUME \A k \in EntryIds : entries'[k] # NoRow =>
               /\ entries[k] # NoRow
               /\ entries'[k].user = entries[k].user /\ entries'[k].day = entries[k].day
               /\ entries'[k].start = entries[k].start /\ entries'[k].end = entries[k].end
               /\ entries[k].status = "rejected" => entries'[k].status \in {"rejected", "draft"}
      PROVE  Guarded'
  <2> SUFFICES ASSUME NEW k \in EntryIds, HasEntry(k)', entries'[k].status \in Live,
                      judged'[k] # NoLimit
               PROVE  entries[k].status \in Live /\ judged'[k] = judged[k]
    BY <1>1, <1>2, <1>4, NothingBooked DEF HasEntry
  <2>1. HasEntry(k) /\ entries[k].status \in EntryStatus
    BY <1>3, <1>4 DEF HasEntry, Entry
  <2>2. ~(entries[k].status = "rejected" /\ entries'[k].status = "draft")
    BY <1>2, <2>1
  <2> QED
    BY <1>2, <1>4, <2>1, <2>2 DEF Live, EntryStatus, HasEntry
<1>5. PICK u \in Users :
        \/ \E i \in EntryIds : DeleteEntry(u, i)
        \/ SubmitBatch(u, EntryIds) \/ SubmitBatchAutoApproved(u, EntryIds)
        \/ \E ids \in SUBSET EntryIds :
             BatchApprove(u, ids) \/ BatchReject(u, ids) \/ ClosePending(u, ids, {})
        \/ \E d \in Days : PerformReopen(u, WeekOf[d])
  BY DEF ReviewWork
<1>6. entries \in Entries
  BY <1>1 DEF TypeOK, Entries
<1>7. ASSUME NEW i \in EntryIds, DeleteEntry(u, i) PROVE Guarded'
  <2>1. entries' = [entries EXCEPT ![i] = NoRow]
    BY <1>7 DEF DeleteEntry, DoDeleteEntry
  <2>2. \A k \in EntryIds : entries'[k] = entries[k] \/ entries'[k] = NoRow
    BY <1>6, <2>1 DEF Entries
  <2> QED
    BY <1>4, <2>2
<1>8. CASE SubmitBatch(u, EntryIds)
  BY <1>4, <1>8 DEF SubmitBatch, DoSubmitBatch, DraftsOf, SetReview, HasEntry
\* Entries that are drafts or submitted are approved.
<1>9. ASSUME NEW ids \in SUBSET EntryIds,
             \A k \in ids : HasEntry(k) /\ entries[k].status # "rejected",
             entries' = ResolveRejected(
               [k \in EntryIds |-> IF k \in ids
                  THEN SetReview(entries[k], "approved", entries[k].resolved, u)
                  ELSE entries[k]], ids)
      PROVE  Guarded'
  <2> DEFINE E == [k \in EntryIds |-> IF k \in ids
                     THEN SetReview(entries[k], "approved", entries[k].resolved, u)
                     ELSE entries[k]]
  <2>1. E \in Entries
    BY <1>3, <1>6, <1>9, UsersAssumption
       DEF Entries, Entry, EntryStatus, SetReview, HasEntry
  <2>2. \A k \in EntryIds : E[k] # NoRow =>
          /\ entries[k] # NoRow
          /\ E[k].user = entries[k].user /\ E[k].day = entries[k].day
          /\ E[k].start = entries[k].start /\ E[k].end = entries[k].end
          /\ entries[k].status = "rejected" => E[k].status = "rejected"
    BY <1>9 DEF SetReview, HasEntry
  <2>3. entries' = ResolveRejected(E, ids)
    BY <1>9
  <2> HIDE DEF E
  <2> QED
    BY <1>4, <2>1, <2>2, <2>3, ResolveRejectedFacts
<1>10. CASE SubmitBatchAutoApproved(u, EntryIds)
  <2>1. \A k \in DraftsOf(u, EntryIds) : HasEntry(k) /\ entries[k].status # "rejected"
    BY DEF DraftsOf
  <2> QED
    BY <1>9, <1>10, <2>1 DEF SubmitBatchAutoApproved, DoSubmitBatchAutoApproved, DraftsOf
<1>11. ASSUME NEW ids \in SUBSET EntryIds, BatchApprove(u, ids) PROVE Guarded'
  <2>1. \A k \in Reviewable(u, ids) : HasEntry(k) /\ entries[k].status # "rejected"
    BY DEF Reviewable
  <2>2. Reviewable(u, ids) \in SUBSET EntryIds
    BY DEF Reviewable
  <2> QED
    BY <1>9, <1>11, <2>1, <2>2 DEF BatchApprove, DoBatchApprove
<1>12. ASSUME NEW ids \in SUBSET EntryIds, BatchReject(u, ids) PROVE Guarded'
  BY <1>4, <1>12 DEF BatchReject, DoBatchReject, Reviewable, SetReview, HasEntry
<1>13. ASSUME NEW d \in Days, PerformReopen(u, WeekOf[d]) PROVE Guarded'
  BY <1>4, <1>13 DEF PerformReopen, DoPerformReopen, ReopenTargets, AsDraft, SetReview, HasEntry
<1>14. ASSUME NEW ids \in SUBSET EntryIds, ClosePending(u, ids, {}) PROVE Guarded'
  BY <1>4, <1>14 DEF ClosePending, DoClosePending, PendingEntries, AsDraft, SetReview, HasEntry
<1> QED
  BY <1>5, <1>7, <1>8, <1>10, <1>11, <1>12, <1>13, <1>14

LEMMA DayInvInit == DayInit => DayInv
<1> SUFFICES ASSUME DayInit PROVE DayInv
  OBVIOUS
<1>1. DayTypeOK /\ judged = [i \in EntryIds |-> NoLimit]
  BY DEF DayInit, DayTypeOK, Fresh, Reading, NoLimit, Limits
<1>2. Guarded
  <2> SUFFICES ASSUME NEW u \in Users, NEW d \in Days, NEW limit \in Limits, limit # NoLimit,
                      NEW W \in SUBSET JudgedBy(u, d, limit)
               PROVE  WithinLimit(entries, W, limit)
    BY DEF Guarded
  <2>1. W = {}
    BY <1>1 DEF JudgedBy, WorkOn
  <2> QED
    BY <2>1 DEF WithinLimit
<1>3. \A a \in AbsenceIds : ~HasAbsence(a)
  BY DEF DayInit, HasAbsence
<1>4. CASE entries = [i \in EntryIds |-> NoRow]
  <2>1. Init
    BY <1>4 DEF DayInit, Init
  <2> QED
    BY <1>1, <1>2, <2>1, InitInv DEF DayInv
<1>5. CASE \E i \in EntryIds, u \in Trackers, d \in Days, s, t \in Times :
             /\ s < t
             /\ entries = [j \in EntryIds |->
                  IF j # i THEN NoRow
                  ELSE [user |-> u, day |-> d, start |-> s, end |-> t,
                        status |-> "draft", resolved |-> FALSE, reviewer |-> NoUser]]
  <2>1. PICK i \in EntryIds, u \in Trackers, d \in Days, s \in Times, t \in Times :
             /\ s < t
             /\ entries = [j \in EntryIds |->
                  IF j # i THEN NoRow
                  ELSE [user |-> u, day |-> d, start |-> s, end |-> t,
                        status |-> "draft", resolved |-> FALSE, reviewer |-> NoUser]]
    BY <1>5
  <2> DEFINE row == [user |-> u, day |-> d, start |-> s, end |-> t,
                     status |-> "draft", resolved |-> FALSE, reviewer |-> NoUser]
  <2>2. row \in Entry
    BY UsersAssumption DEF Entry, EntryStatus
  <2>3. \A j \in EntryIds : HasEntry(j) => j = i /\ entries[j] = row
    BY <2>1 DEF HasEntry
  <2>4. absences = [a \in AbsenceIds |-> NoRow] /\ today \in Days
    BY DEF DayInit
  <2>5. TypeOK
    BY <1>3, <2>1, <2>2, <2>3, <2>4 DEF TypeOK
  <2>6. /\ NoDoubleBooking /\ NoWorkOnAbsence /\ AbsencesDisjoint
        /\ ReplacedRejectionsResolved /\ ReviewedByEntitled
    BY <1>3, <2>3 DEF NoDoubleBooking, NoWorkOnAbsence, AbsencesDisjoint,
       ReplacedRejectionsResolved, ReviewedByEntitled
  <2> QED
    BY <1>1, <1>2, <2>5, <2>6 DEF DayInv, Inv
<1> QED
  BY <1>4, <1>5 DEF DayInit

LEMMA DayInvStep ==
  ASSUME DayInv, [DayNext]_dayVars
  PROVE  DayInv'
<1>1. Inv /\ DayTypeOK /\ Guarded
  BY DEF DayInv
<1>2. Inv' /\ DayTypeOK'
  BY <1>1, DayStepIsStep, InvStep, DayTypeStep
<1>3. \A d \in Days, s, t \in Times : [day |-> d, start |-> s, end |-> t] \in Slot
  BY DEF Slot
\* No row changes, and no entry passes a limit.
<1>4. ASSUME UNCHANGED entries, UNCHANGED category, UNCHANGED counts, UNCHANGED judged
      PROVE  Guarded'
  BY <1>1, <1>4, NothingBooked DEF HasEntry
<1>5. ASSUME NEW c \in Categories, ChangeCategory(c)
      PROVE  Guarded'
  <2>1. /\ UNCHANGED <<entries, category>>
        /\ counts' = [counts EXCEPT ![c] = ~@]
        /\ judged' = [i \in EntryIds |-> IF category[i] = c THEN NoLimit ELSE judged[i]]
    BY <1>5 DEF ChangeCategory, ledger
  <2>2. \A k \in EntryIds : judged'[k] # NoLimit =>
          judged'[k] = judged[k] /\ counts'[category'[k]] = counts[category[k]]
    BY <1>1, <2>1 DEF DayTypeOK
  <2> QED
    BY <1>1, <2>1, <2>2, NothingBooked DEF HasEntry
<1>6. ASSUME NEW x, ReadLimit(x) \/ SaveBreaks(x) \/ CheckCategory(x) PROVE Guarded'
  BY <1>4, <1>6 DEF ReadLimit, SaveBreaks, CheckCategory, ledger
<1>7. ASSUME NEW r \in WorkRequests, NEW u \in Users, NEW i \in EntryIds, NEW slot \in Slot,
             NEW c \in Categories, CreateWork(r, u, i, slot, c) \/ UpdateWork(r, u, i, slot, c)
      PROVE  Guarded'
  BY <1>2, <1>7, CreateStaysGuarded, UpdateStaysGuarded
<1>8. ASSUME UNCHANGED dayVars PROVE Guarded'
  BY <1>4, <1>8 DEF dayVars, ledger
<1>9. ASSUME ReviewWork PROVE Guarded'
  BY <1>9, ReviewStaysGuarded
<1>10. ASSUME DayNext PROVE Guarded'
  BY <1>3, <1>5, <1>6, <1>7, <1>9, <1>10 DEF DayNext
<1> QED
  BY <1>2, <1>8, <1>10 DEF DayInv

\* The limit the settings make is a limit.
LEMMA SettingsLimit ==
  ASSUME DayTypeOK
  PROVE  LimitOf(breaks) \in Limits
<1>1. breaks.pause \in Nat
  BY WorkAssumption DEF DayTypeOK
<1>2. CASE ~breaks.guard \/ breaks.rules = {}
  BY <1>2 DEF LimitOf, NoLimit, Limits
<1>3. CASE ~(~breaks.guard \/ breaks.rules = {})
  BY <1>1, <1>3, ThresholdIsTyped DEF LimitOf, Limits
<1> QED
  BY <1>2, <1>3

LEMMA DayInvShortStretches == DayInv => NoLongStretch
<1> DEFINE limit == LimitOf(breaks)
<1> SUFFICES ASSUME DayInv, limit # NoLimit, NEW u \in Users, NEW d \in Days,
                    NEW i \in WorkOn(u, d, Live), NEW j \in WorkOn(u, d, Live),
                    entries[j].end - entries[i].start > limit.max,
                    \A k \in WorkOn(u, d, Live) :
                      entries[i].start <= entries[k].start /\ entries[k].end <= entries[j].end
                      => judged[k] = limit
             PROVE  PauseBetween(entries[i], entries[j], limit.pause, WorkOn(u, d, Live))
  BY DEF NoLongStretch
<1>1. TypeOK /\ NoDoubleBooking /\ Guarded /\ limit \in Limits
  BY SettingsLimit DEF DayInv, Inv
<1>2. limit.max \in Nat /\ limit.pause \in Nat
  BY <1>1 DEF Limits
<1> HIDE DEF limit
<1> DEFINE booked == WorkOn(u, d, Live)
           W == {k \in booked : entries[i].start <= entries[k].start
                                /\ entries[k].end <= entries[j].end}
<1>3. \A k \in booked : /\ k \in EntryIds /\ HasEntry(k) /\ entries[k].user = u
                      /\ entries[k].day = d /\ entries[k].status \in Live
                      /\ entries[k].start \in Int /\ entries[k].end \in Int
                      /\ entries[k].start < entries[k].end
  <2> TAKE k \in booked
  <2>1. k \in WorkOn(u, d, Live)
    OBVIOUS
  <2>2. /\ k \in EntryIds /\ HasEntry(k) /\ entries[k].user = u
        /\ entries[k].day = d /\ entries[k].status \in Live
        /\ entries[k].start \in Times /\ entries[k].end \in Times
        /\ entries[k].start < entries[k].end
    BY <1>1, <2>1, WorkOnIs
  <2> QED
    BY <2>2, CalendarAssumption
<1>4. \A k, l \in booked : k = l \/ entries[k].end <= entries[l].start
                               \/ entries[l].end <= entries[k].start
  <2> TAKE k \in booked, l \in booked
  <2>1. k = l \/ ~Overlap(entries[k], entries[l])
    BY <1>1, <1>3 DEF NoDoubleBooking, SameDay, Live
  <2> QED
    BY <1>3, <2>1 DEF Overlap
<1>5. W \in SUBSET JudgedBy(u, d, limit)
  BY DEF JudgedBy
<1>6. WithinLimit(entries, W, limit)
  BY <1>1, <1>5 DEF Guarded
<1>7. i \in booked /\ j \in booked
  OBVIOUS
<1>8. entries[i].start < entries[j].end
  BY <1>2, <1>3, <1>7
<1>9. i \in W /\ j \in W
  BY <1>3, <1>4, <1>7, <1>8
<1>10. PICK p \in entries[i].end..(entries[j].start - limit.pause) :
         \A k \in W : entries[k].end <= p \/ p + limit.pause <= entries[k].start
  BY <1>6, <1>9 DEF WithinLimit, Paused
<1>11. p \in Int /\ entries[i].end <= p /\ p + limit.pause <= entries[j].start
  BY <1>2, <1>3, <1>7, <1>10
<1>12. ASSUME NEW k \in booked
       PROVE  entries[k].end <= p \/ p + limit.pause <= entries[k].start
  <2>1. CASE k \in W
    BY <1>10, <2>1
  <2>2. CASE entries[k].start < entries[i].start
    <3>1. entries[k].end <= entries[i].start
      BY <1>3, <1>4, <1>7, <2>2
    <3> QED
      BY <1>3, <1>7, <1>11, <3>1
  <2>3. CASE entries[j].end < entries[k].end
    <3>1. entries[j].end <= entries[k].start
      BY <1>3, <1>4, <1>7, <2>3
    <3> QED
      BY <1>2, <1>3, <1>7, <1>11, <3>1
  <2> QED
    BY <1>3, <1>7, <2>1, <2>2, <2>3
<1> QED
  BY <1>10, <1>12 DEF PauseBetween

----------------------------------------------------------------------------
(* What a day is credited                                                  *)

\* The minutes in which some slot is worked.
MinutesOf(slots) == UNION {s.start..(s.end - 1) : s \in slots}

Apart(slots) ==
  \A s, t \in slots : s # t => s.end <= t.start \/ t.end <= s.start

First(slots) == CHOOSE s \in slots : TRUE

\* The equation by which MapThenSumSet adds lengths up.
LengthRule(slots, f) ==
  IF slots = {} THEN 0
  ELSE First(slots).end - First(slots).start + f[slots \ {First(slots)}]

LEMMA FewerLeft ==
  ASSUME NEW S, IsFiniteSet(S), S # {}
  PROVE  /\ First(S) \in S
         /\ IsFiniteSet(S \ {First(S)})
         /\ Cardinality(S) \in Nat \ {0}
         /\ Cardinality(S \ {First(S)}) = Cardinality(S) - 1
<1>1. First(S) \in S
  BY DEF First
<1>2. Cardinality(S) \in Nat /\ Cardinality(S) # 0
  BY FS_CardinalityType, FS_EmptySet
<1> QED
  BY <1>1, <1>2, FS_RemoveElement

\* It has a solution: it has one up to any number of slots.
LEMMA LengthExists ==
  ASSUME NEW S, IsFiniteSet(S)
  PROVE  \E f : f = [s \in SUBSET S |-> LengthRule(s, f)]
<1> DEFINE Small(n) == {s \in SUBSET S : Cardinality(s) <= n}
           Solved(n) == \E f : f = [s \in Small(n) |-> LengthRule(s, f)]
           Never == {n \in Nat : ~Solved(n)}
<1>1. ASSUME NEW s \in SUBSET S
      PROVE  IsFiniteSet(s) /\ Cardinality(s) \in Nat
  BY FS_Subset, FS_CardinalityType
<1>2. Solved(0)
  <2>1. \A s \in Small(0) : s = {}
    BY <1>1, FS_EmptySet
  <2>2. [s \in Small(0) |-> 0] = [s \in Small(0) |-> LengthRule(s, [t \in Small(0) |-> 0])]
    BY <2>1 DEF LengthRule
  <2> QED
    BY <2>2
<1>3. ASSUME NEW n \in Nat, Solved(n)
      PROVE  Solved(n + 1)
  <2>1. PICK f : f = [s \in Small(n) |-> LengthRule(s, f)]
    BY <1>3
  <2> DEFINE g == [s \in Small(n + 1) |-> LengthRule(s, f)]
  <2>2. ASSUME NEW s \in Small(n + 1)
        PROVE  LengthRule(s, f) = LengthRule(s, g)
    <3>1. CASE s = {}
      BY <3>1 DEF LengthRule
    <3>2. CASE s # {}
      <4> DEFINE t == s \ {First(s)}
      <4>1. t \in Small(n) /\ t \in Small(n + 1)
        BY <1>1, <3>2, FewerLeft
      <4>2. f[t] = LengthRule(t, f) /\ g[t] = LengthRule(t, f)
        BY <2>1, <4>1
      <4> HIDE DEF g, t
      <4> QED
        BY <3>2, <4>2 DEF LengthRule, t
    <3> QED
      BY <3>1, <3>2
  <2>3. g = [s \in Small(n + 1) |-> LengthRule(s, g)]
    <3> HIDE DEF Small
    <3> QED
      BY <2>2
  <2> QED
    BY <2>3
<1>4. Never = {}
  <2>1. SUFFICES ASSUME Never # {} PROVE FALSE
    OBVIOUS
  <2> HIDE DEF Solved
  <2>2. PICK m \in Never : \A n \in Never : m <= n
    BY <2>1, LeastNumber
  <2>3. m # 0 /\ m \in Nat
    BY <1>2, <2>2
  <2>4. Solved(m - 1)
    BY <2>2, <2>3
  <2>5. Solved((m - 1) + 1)
    BY <1>3, <2>3, <2>4
  <2> QED
    BY <2>2, <2>3, <2>5
<1>5. Solved(Cardinality(S))
  BY <1>1, <1>4
<1>6. Small(Cardinality(S)) = SUBSET S
  BY <1>1, FS_Subset
<1> QED
  BY <1>5, <1>6

\* Slots that are apart begin at different times, of which a day has finitely many.
LEMMA SlotsAreFinite ==
  ASSUME NEW S \in SUBSET Interval, Apart(S)
  PROVE  IsFiniteSet(S)
<1>1. CASE S = {}
  BY <1>1, FS_EmptySet
<1>2. CASE S # {}
  <2>1. Times # {}
    BY <1>2 DEF Interval
  <2>2. PICK first, last \in Times : Times \subseteq first..last
    BY <2>1, WorkAssumption
  <2>3. first \in Int /\ last \in Int
    BY CalendarAssumption
  <2> DEFINE f == [s \in S |-> s.start]
  <2>4. \A s \in S : s.start \in Int /\ s.end \in Int /\ s.start < s.end
    BY CalendarAssumption DEF Interval
  <2>5. \A s, t \in S : s.start = t.start => s = t
    BY <2>4 DEF Apart
  <2>6. f \in Injection(S, first..last)
    BY <2>2, <2>5 DEF Injection, IsInjective, Interval
  <2> QED
    BY <2>3, <2>6, FS_Interval, FS_Injection
<1> QED
  BY <1>1, <1>2

\* The lengths of slots that are apart add up to the number of their minutes.
LEMMA LengthIsMinutes ==
  ASSUME NEW S \in SUBSET Interval, Apart(S)
  PROVE  IsFiniteSet(MinutesOf(S)) /\ LengthOf(S) = Cardinality(MinutesOf(S))
<1> DEFINE sum == CHOOSE f : f = [s \in SUBSET S |-> LengthRule(s, f)]
           Right(s) == IsFiniteSet(MinutesOf(s)) /\ sum[s] = Cardinality(MinutesOf(s))
           Wrong == {n \in Nat : \E s \in SUBSET S : Cardinality(s) = n /\ ~Right(s)}
<1>1. IsFiniteSet(S)
  BY SlotsAreFinite
<1>2. sum = [s \in SUBSET S |-> LengthRule(s, sum)]
  BY <1>1, LengthExists
<1>3. LengthOf(S) = sum[S]
  BY DEF LengthOf, MapThenSumSet, MapThenFoldSet, LengthRule, First
<1> HIDE DEF sum
<1>4. Wrong = {}
  <2>1. SUFFICES ASSUME Wrong # {} PROVE FALSE
    OBVIOUS
  <2>2. PICK m \in Wrong : \A n \in Wrong : m <= n
    <3> HIDE DEF Wrong
    <3>1. Wrong \in SUBSET Nat
      BY DEF Wrong
    <3> QED
      BY <2>1, <3>1, LeastNumber
  <2>3. PICK s \in SUBSET S : Cardinality(s) = m /\ ~Right(s)
    BY <2>2
  <2>4. sum[s] = LengthRule(s, sum)
    BY <1>2
  <2>5. CASE s = {}
    <3>1. MinutesOf(s) = {}
      BY <2>5 DEF MinutesOf
    <3> QED
      BY <2>3, <2>4, <2>5, <3>1, FS_EmptySet DEF LengthRule
  <2>6. CASE s # {}
    <3> DEFINE x == First(s)
               t == s \ {x}
               now == x.start..(x.end - 1)
    <3>1. IsFiniteSet(s)
      BY <1>1, FS_Subset
    <3>2. x \in s /\ Cardinality(t) = m - 1 /\ m - 1 \in Nat
      BY <2>3, <2>6, <3>1, FewerLeft
    <3>3. Right(t)
      BY <2>2, <3>2
    <3>4. x \in Interval /\ x.start \in Int /\ x.end \in Int /\ x.start < x.end
      BY <3>2, CalendarAssumption DEF Interval
    <3>5. IsFiniteSet(now) /\ Cardinality(now) = x.end - x.start
      <4> DEFINE first == x.start
                 last == x.end - 1
      <4>1. first \in Int /\ last \in Int /\ first <= last
        BY <3>4
      <4>2. x.end - x.start = last - first + 1
        BY <3>4
      <4> HIDE DEF first, last
      <4>3. IsFiniteSet(first..last) /\ Cardinality(first..last) = last - first + 1
        BY <4>1, FS_Interval
      <4> QED
        BY <4>2, <4>3 DEF first, last
    <3>6. MinutesOf(s) = MinutesOf(t) \cup now
      BY <3>2 DEF MinutesOf
    <3>7. MinutesOf(t) \cap now = {}
      <4> SUFFICES ASSUME NEW y \in t, NEW p \in y.start..(y.end - 1), p \in now
                   PROVE  FALSE
        BY DEF MinutesOf
      <4>1. y.end <= x.start \/ x.end <= y.start
        BY <3>2 DEF Apart
      <4>2. y.start \in Int /\ y.end \in Int
        BY CalendarAssumption DEF Interval
      <4> QED
        BY <3>4, <4>1, <4>2
    <3>8. sum[s] = x.end - x.start + sum[t]
      BY <2>4, <2>6 DEF LengthRule
    <3>9. Cardinality(MinutesOf(t)) \in Nat
      BY <3>3, FS_CardinalityType
    <3> HIDE DEF x, t, now
    <3>10. IsFiniteSet(MinutesOf(t) \cup now)
           /\ Cardinality(MinutesOf(t) \cup now)
                = Cardinality(MinutesOf(t)) + Cardinality(now) - Cardinality({})
      BY <3>3, <3>5, <3>7, FS_Union
    <3> QED
      BY <2>3, <3>3, <3>4, <3>5, <3>6, <3>8, <3>9, <3>10, FS_EmptySet
  <2> QED
    BY <2>5, <2>6
<1>5. Cardinality(S) \in Nat
  BY <1>1, FS_CardinalityType
<1>6. Right(S)
  BY <1>4, <1>5
<1> QED
  BY <1>3, <1>6

\* Slots and the blocks they make have the same minutes, and blocks are apart.
LEMMA BlocksAre ==
  ASSUME NEW S \in SUBSET Interval, S # {}
  PROVE  /\ BlocksOf(S) \in SUBSET Interval /\ BlocksOf(S) # {}
         /\ Apart(BlocksOf(S))
         /\ MinutesOf(BlocksOf(S)) = MinutesOf(S)
<1> DEFINE EndOf(t) == Min({x \in Ends(S) : x > t})
<1>1. \A s \in S : /\ s.start \in Times /\ s.end \in Times /\ s.start \in Int /\ s.end \in Int
                   /\ s.start < s.end
  BY CalendarAssumption DEF Interval
<1>2. \A t \in Begins(S) : /\ \E s \in S : t = s.start
                           /\ \A e \in S : e.start < t => e.end < t
  BY DEF Begins
<1>3. \A t \in Ends(S) : /\ \E s \in S : t = s.end
                         /\ \A e \in S : e.end > t => e.start > t
  BY DEF Ends
<1>4. ASSUME NEW s \in S, \A e \in S : e.start < s.start => e.end < s.start
      PROVE  s.start \in Begins(S)
  BY <1>4 DEF Begins
<1>5. ASSUME NEW s \in S, \A e \in S : e.end > s.end => e.start > s.end
      PROVE  s.end \in Ends(S)
  BY <1>5 DEF Ends
\* Among the slots begun by a time, the last to end ends a block, unless one of
\* them lasts beyond that time.
<1>6. ASSUME NEW m \in Int, NEW s \in S, s.start <= m,
             \A e \in S : e.start <= m => e.end <= m
      PROVE  \E x \in Ends(S) : s.end <= x /\ x <= m
  <2> DEFINE begun == {e.end : e \in {f \in S : f.start <= m}}
  <2>1. begun \in SUBSET Times /\ s.end \in begun
    BY <1>1, <1>6
  <2>2. Max(begun) \in begun /\ \A x \in begun : x <= Max(begun)
    BY <2>1, TimesHaveEnds
  <2>3. PICK f \in S : f.start <= m /\ f.end = Max(begun)
    BY <2>2
  <2>4. \A e \in S : e.start <= m => e.end <= f.end
    BY <2>2, <2>3
  <2>5. f.end \in Ends(S)
    BY <1>1, <1>5, <1>6, <2>3, <2>4
  <2> QED
    BY <1>6, <2>3, <2>4, <2>5
<1>7. ASSUME NEW t \in Begins(S)
      PROVE  /\ t \in Times /\ t \in Int /\ EndOf(t) \in Ends(S) /\ EndOf(t) \in Int
             /\ EndOf(t) \in Times /\ EndOf(t) > t
             /\ \A x \in Ends(S) : x > t => EndOf(t) <= x
  <2> DEFINE later == {x \in Ends(S) : x > t}
  <2>1. PICK s \in S : t = s.start
    BY <1>2
  <2> DEFINE ends == {e.end : e \in S}
  <2>2. ends \in SUBSET Times /\ s.end \in ends
    BY <1>1
  <2>3. Max(ends) \in ends /\ \A x \in ends : x <= Max(ends)
    BY <2>2, TimesHaveEnds
  <2>4. PICK f \in S : f.end = Max(ends)
    BY <2>3
  <2>5. \A e \in S : e.end <= f.end
    BY <2>3, <2>4
  <2>6. f.end \in Ends(S)
    BY <1>1, <1>5, <2>5
  <2>7. f.end \in later
    BY <1>1, <2>1, <2>5, <2>6
  <2>8. later \in SUBSET Times
    BY <1>1, <1>3
  <2>9. Min(later) \in later /\ \A x \in later : Min(later) <= x
    BY <2>7, <2>8, TimesHaveEnds
  <2>10. t \in Times /\ t \in Int
    BY <1>1, <2>1
  <2>11. Min(later) \in Times /\ Min(later) \in Int
    BY <2>8, <2>9, CalendarAssumption
  <2>12. EndOf(t) = Min(later)
    OBVIOUS
  <2>13. EndOf(t) \in Ends(S) /\ EndOf(t) > t /\ \A x \in Ends(S) : x > t => EndOf(t) <= x
    BY <2>9, <2>12
  <2> HIDE DEF later, EndOf
  <2> QED
    BY <2>10, <2>11, <2>12, <2>13
<1>8. BlocksOf(S) = {[start |-> t, end |-> EndOf(t)] : t \in Begins(S)}
  BY DEF BlocksOf
<1> HIDE DEF EndOf
<1>9. /\ \A b \in BlocksOf(S) : /\ b.start \in Begins(S) /\ b.end = EndOf(b.start)
                                /\ b = [start |-> b.start, end |-> b.end]
      /\ \A t \in Begins(S) : [start |-> t, end |-> EndOf(t)] \in BlocksOf(S)
  BY <1>8
<1>10. BlocksOf(S) \in SUBSET Interval
  <2> SUFFICES ASSUME NEW b \in BlocksOf(S) PROVE b \in Interval
    OBVIOUS
  <2> QED
    BY <1>7, <1>9 DEF Interval
<1>11. ASSUME NEW b \in BlocksOf(S), NEW c \in BlocksOf(S), b.start < c.start
       PROVE  b.end < c.start
  <2> DEFINE m == c.start - 1
  <2>1. b.start \in Begins(S) /\ c.start \in Begins(S) /\ b.end = EndOf(b.start)
    BY <1>9
  <2>2. b.start \in Int /\ c.start \in Int /\ m \in Int
    BY <1>7, <2>1
  <2>3. PICK s \in S : b.start = s.start
    BY <1>2, <2>1
  <2>4. \A e \in S : e.start <= m => e.end <= m
    BY <1>1, <1>2, <2>1, <2>2
  <2>5. PICK x \in Ends(S) : s.end <= x /\ x <= m
    BY <1>6, <1>11, <2>2, <2>3, <2>4
  <2>6. x \in Int /\ x > b.start
    BY <1>1, <1>3, <2>3, <2>5
  <2> QED
    BY <1>7, <2>1, <2>2, <2>5, <2>6
<1>12. Apart(BlocksOf(S))
  <2> SUFFICES ASSUME NEW b \in BlocksOf(S), NEW c \in BlocksOf(S), b # c
               PROVE  b.end <= c.start \/ c.end <= b.start
    BY DEF Apart
  <2>1. b.start # c.start
    BY <1>9
  <2>2. b.start \in Int /\ c.start \in Int /\ b.end \in Int /\ c.end \in Int
    BY <1>7, <1>9
  <2> QED
    BY <1>11, <2>1, <2>2
\* A minute of a slot lies in the last block that has begun by then.
<1>13. ASSUME NEW s \in S, NEW m \in s.start..(s.end - 1)
       PROVE  \E b \in BlocksOf(S) : m \in b.start..(b.end - 1)
  <2>1. m \in Int /\ s.start <= m /\ m < s.end
    BY <1>1
  <2> DEFINE begun == {t \in Begins(S) : t <= m}
             starts == {e.start : e \in S}
  <2>2. begun \in SUBSET Times
    BY <1>7
  <2>3. begun # {}
    <3>1. starts \in SUBSET Times /\ s.start \in starts
      BY <1>1
    <3>2. Min(starts) \in starts /\ \A t \in starts : Min(starts) <= t
      BY <3>1, TimesHaveEnds
    <3>3. PICK f \in S : f.start = Min(starts)
      BY <3>2
    <3>4. \A e \in S : f.start <= e.start
      BY <3>2, <3>3
    <3>5. f.start \in Begins(S)
      BY <1>1, <1>4, <3>4
    <3> QED
      BY <1>1, <2>1, <3>4, <3>5
  <2>4. Max(begun) \in begun /\ \A t \in begun : t <= Max(begun)
    BY <2>2, <2>3, TimesHaveEnds
  <2> DEFINE t == Max(begun)
  <2>5. t \in Begins(S) /\ t <= m /\ t \in Int
    BY <1>7, <2>4
  <2>6. \A x \in Begins(S) : x <= m => x <= t
    BY <2>4
  <2> HIDE DEF t
  <2>7. /\ EndOf(t) \in Int /\ EndOf(t) \in Ends(S) /\ EndOf(t) > t
    BY <1>7, <2>5
  <2>8. ASSUME EndOf(t) <= m PROVE FALSE
    <3> DEFINE x == EndOf(t)
               next == {e.start : e \in {f \in S : f.start > x}}
    <3>1. s.start > x
      BY <1>1, <1>3, <2>1, <2>7, <2>8
    <3>2. next \in SUBSET Times /\ s.start \in next
      BY <1>1, <3>1
    <3>3. Min(next) \in next /\ \A y \in next : Min(next) <= y
      BY <3>2, TimesHaveEnds
    <3>4. PICK f \in S : f.start > x /\ f.start = Min(next)
      BY <3>3
    <3>5. \A e \in S : e.start > x => f.start <= e.start
      BY <3>3, <3>4
    <3> HIDE DEF next
    <3>6. ASSUME NEW e \in S, e.start < f.start PROVE e.end < f.start
      <4>1. e.start <= x
        BY <1>1, <2>7, <3>5, <3>6
      <4>2. e.end <= x
        BY <1>1, <1>3, <2>7, <4>1
      <4> QED
        BY <1>1, <2>7, <3>4, <4>2
    <3>7. f.start \in Begins(S)
      BY <1>4, <3>6
    <3>8. f.start <= m
      BY <1>1, <2>1, <3>1, <3>5
    <3>9. f.start <= t
      BY <2>6, <3>7, <3>8
    <3> QED
      BY <1>1, <2>5, <2>7, <3>4, <3>9
  <2>9. m \in t..(EndOf(t) - 1)
    BY <2>1, <2>5, <2>7, <2>8
  <2> QED
    BY <1>9, <2>5, <2>9
\* A block is worked until its end.
<1>14. ASSUME NEW b \in BlocksOf(S), NEW m \in b.start..(b.end - 1)
       PROVE  \E s \in S : m \in s.start..(s.end - 1)
  <2>1. b.start \in Begins(S) /\ b.end = EndOf(b.start) /\ b.start \in Int /\ b.end \in Int
    BY <1>7, <1>9
  <2>2. m \in Int /\ b.start <= m /\ m < b.end
    BY <2>1
  <2>3. SUFFICES ASSUME \A e \in S : e.start <= m => e.end <= m PROVE FALSE
    BY <1>1, <2>2
  <2>4. PICK s \in S : b.start = s.start
    BY <1>2, <2>1
  <2>5. PICK x \in Ends(S) : s.end <= x /\ x <= m
    BY <1>6, <2>2, <2>3, <2>4
  <2>6. x \in Int /\ x > b.start
    BY <1>1, <1>3, <2>4, <2>5
  <2>7. b.end <= x
    BY <1>7, <2>1, <2>5, <2>6
  <2> QED
    BY <2>1, <2>2, <2>5, <2>6, <2>7
<1>15. MinutesOf(BlocksOf(S)) = MinutesOf(S)
  BY <1>13, <1>14 DEF MinutesOf
<1>16. BlocksOf(S) # {}
  <2>1. PICK s \in S : TRUE
    OBVIOUS
  <2>2. s.start \in s.start..(s.end - 1)
    BY <1>1
  <2> QED
    BY <1>13, <2>2
<1> QED
  BY <1>10, <1>12, <1>15, <1>16

LEMMA MaxOfTwo ==
  ASSUME NEW x \in Int, NEW y \in Int
  PROVE  Max({x, y}) = IF x >= y THEN x ELSE y
<1> DEFINE m == IF x >= y THEN x ELSE y
<1>1. m \in {x, y} /\ \A z \in {x, y} : m >= z
  OBVIOUS
<1>2. \A n \in {x, y} : (\A z \in {x, y} : n >= z) => n = m
  OBVIOUS
<1> QED
  BY <1>1, <1>2 DEF Max

Rules == [over : Nat, minus : Nat]

\* The rule with the highest threshold the work exceeds is one, so that choosing
\* it is choosing what it asks.
LEMMA RequiredIsOwed ==
  ASSUME NEW rules \in SUBSET Rules, \A r, q \in rules : r.over = q.over => r = q,
         NEW worked \in Nat
  PROVE  /\ RequiredBreak(worked, rules) = BreakOwed(worked, rules)
         /\ BreakOwed(worked, rules) \in Nat
<1> DEFINE exceeded == {r \in rules : worked > r.over}
           highest == {r \in rules : \A s \in rules : s.over > r.over => worked <= s.over}
           due == {r \in highest : worked > r.over}
<1>1. \A r \in rules : r.over \in Nat /\ r.minus \in Nat
  BY DEF Rules
<1>2. CASE exceeded = {}
  <2>1. due = {}
    BY <1>2
  <2>2. {0} \cup {r.minus : r \in due} = {0, 0}
    BY <2>1
  <2>3. BreakOwed(worked, rules) = 0
    BY <2>2, MaxOfTwo DEF BreakOwed
  <2> QED
    BY <1>2, <2>3 DEF RequiredBreak
<1>3. CASE exceeded # {}
  <2> DEFINE room == {worked - r.over : r \in exceeded}
  <2>1. room \in SUBSET Nat /\ room # {}
    <3>1. \A r \in exceeded : worked - r.over \in Nat
      BY <1>1
    <3> QED
      BY <1>3, <3>1
  <2>2. PICK least \in room : \A n \in room : least <= n
    BY <2>1, LeastNumber
  <2>3. PICK top \in exceeded : least = worked - top.over
    BY <2>2
  <2>4. \A r \in exceeded : r.over <= top.over
    <3> TAKE r \in exceeded
    <3>1. least <= worked - r.over
      BY <2>2
    <3> QED
      BY <1>1, <2>3, <3>1
  <2>5. \A r \in exceeded : (\A s \in exceeded : s.over <= r.over) => r = top
    BY <1>1, <2>3, <2>4
  <2>6. RequiredBreak(worked, rules) = top.minus
    <3>1. (CHOOSE r \in exceeded : \A s \in exceeded : s.over <= r.over) = top
      BY <2>3, <2>4, <2>5
    <3> QED
      BY <1>3, <3>1 DEF RequiredBreak
  <2>7. due = {top}
    <3>1. top \in due
      BY <1>1, <2>3, <2>4
    <3>2. ASSUME NEW r \in due PROVE r = top
      <4>1. ~(top.over > r.over)
        BY <1>1, <2>3
      <4> QED
        BY <1>1, <2>3, <2>4, <4>1
    <3> QED
      BY <3>1, <3>2
  <2>8. top.minus \in Nat
    BY <1>1, <2>3
  <2>9. {0} \cup {r.minus : r \in due} = {top.minus, 0}
    BY <2>7
  <2>10. BreakOwed(worked, rules) = Max({top.minus, 0})
    BY <2>9 DEF BreakOwed
  <2> QED
    BY <2>6, <2>8, <2>10, MaxOfTwo
<1> QED
  BY <1>2, <1>3

\* From the first block to the end of the last, the minutes that are not worked.
LEMMA RestIs ==
  ASSUME NEW S \in SUBSET Interval, S # {}
  PROVE  LET worked == MinutesOf(S)
             span == Hull(BlocksOf(S))
             length == Cardinality(worked)
         IN  /\ worked # {} /\ LengthOf(BlocksOf(S)) = length /\ length \in Nat
             /\ span.start \in Int /\ span.end \in Int
             /\ Cardinality((Min(worked)..Max(worked)) \ worked)
                  = span.end - span.start - length
             /\ span.end - span.start - length \in Nat
<1> DEFINE worked == MinutesOf(S)
           blocks == BlocksOf(S)
           first == Hull(blocks).start
           end == Hull(blocks).end
           last == end - 1
<1>1. /\ blocks \in SUBSET Interval /\ blocks # {} /\ Apart(blocks)
      /\ MinutesOf(blocks) = worked
  BY BlocksAre
<1>2. IsFiniteSet(worked) /\ LengthOf(blocks) = Cardinality(worked)
  BY <1>1, LengthIsMinutes
<1>3. Cardinality(worked) \in Nat
  BY <1>2, FS_CardinalityType
<1>4. /\ first \in Times /\ end \in Times
      /\ \A e \in blocks : first <= e.start /\ e.end <= end
      /\ \E e \in blocks : first = e.start
      /\ \E e \in blocks : end = e.end
  BY <1>1, HullIs
<1>5. first \in Int /\ end \in Int /\ last \in Int /\ end - first = last - first + 1
  <2>1. first \in Int /\ end \in Int
    BY <1>4, CalendarAssumption
  <2> HIDE DEF first, end
  <2> QED
    BY <2>1
<1> HIDE DEF first, end, blocks, worked
<1>6. \A e \in blocks : e.start \in Int /\ e.end \in Int /\ e.start < e.end
  BY <1>1, CalendarAssumption DEF Interval
<1>7. worked = UNION {e.start..(e.end - 1) : e \in blocks}
  BY <1>1 DEF MinutesOf
<1>8. first \in worked /\ last \in worked
  BY <1>4, <1>5, <1>6, <1>7
<1>9. \A m \in worked : m \in Int /\ first <= m /\ m <= last
  <2> SUFFICES ASSUME NEW e \in blocks, NEW m \in e.start..(e.end - 1)
               PROVE  m \in Int /\ first <= m /\ m <= last
    BY <1>7
  <2> QED
    BY <1>4, <1>5, <1>6
<1> HIDE DEF last
<1>10. Min(worked) = first /\ Max(worked) = last
  <2>1. \A m \in worked : (\A n \in worked : m <= n) => m = first
    BY <1>5, <1>8, <1>9
  <2>2. \A m \in worked : (\A n \in worked : m >= n) => m = last
    BY <1>5, <1>8, <1>9
  <2>3. (\A n \in worked : first <= n) /\ \A n \in worked : last >= n
    BY <1>5, <1>9
  <2> QED
    BY <1>8, <2>1, <2>2, <2>3 DEF Min, Max
<1>11. first..last \cap worked = worked
  BY <1>5, <1>9
<1>12. first <= last
  BY <1>5, <1>8, <1>9
<1>13. IsFiniteSet(first..last) /\ Cardinality(first..last) = end - first
  BY <1>5, <1>12, FS_Interval
<1>14. /\ IsFiniteSet(first..last \ worked)
       /\ Cardinality(first..last \ worked) = end - first - Cardinality(worked)
  <2> DEFINE span == first..last
  <2>1. IsFiniteSet(span) /\ span \cap worked = worked /\ Cardinality(span) = end - first
    BY <1>11, <1>13
  <2> HIDE DEF span
  <2>2. /\ IsFiniteSet(span \ worked)
        /\ Cardinality(span \ worked) = Cardinality(span) - Cardinality(span \cap worked)
    BY <2>1, FS_Difference
  <2> QED
    BY <2>1, <2>2 DEF span
<1>15. Cardinality(first..last \ worked) \in Nat
  BY <1>14, FS_CardinalityType
<1>16. worked # {}
  BY <1>8
<1> QED
  BY <1>2, <1>3, <1>5, <1>10, <1>14, <1>15, <1>16 DEF first, end, blocks, worked

LEMMA CreditOfDay ==
  ASSUME NEW S \in SUBSET Interval, Apart(S),
         NEW rules \in SUBSET Rules, \A r, q \in rules : r.over = q.over => r = q
  PROVE  LET worked == MinutesOf(S)
             rested == IF worked = {} THEN {} ELSE (Min(worked)..Max(worked)) \ worked
             owed == BreakOwed(Cardinality(worked), rules) - Cardinality(rested)
         IN  Max({LengthOf(S) - DayAutoBreak(S, rules), 0})
               = Max({Cardinality(worked) - Max({owed, 0}), 0})
<1> DEFINE worked == MinutesOf(S)
           rested == IF worked = {} THEN {} ELSE (Min(worked)..Max(worked)) \ worked
           length == Cardinality(worked)
           owed == BreakOwed(length, rules) - Cardinality(rested)
<1>1. IsFiniteSet(worked) /\ LengthOf(S) = length
  BY LengthIsMinutes
<1>2. length \in Nat
  BY <1>1, FS_CardinalityType
<1>3. /\ RequiredBreak(length, rules) = BreakOwed(length, rules)
      /\ BreakOwed(length, rules) \in Nat
  BY <1>2, RequiredIsOwed
<1>4. CASE S = {}
  <2>1. worked = {} /\ rested = {} /\ length = 0 /\ Cardinality(rested) = 0
    BY <1>4, FS_EmptySet DEF MinutesOf
  <2>2. DayAutoBreak(S, rules) = 0
    BY <1>4 DEF DayAutoBreak
  <2>3. owed \in Nat /\ LengthOf(S) = 0
    BY <1>1, <1>3, <2>1
  <2> HIDE DEF owed, length
  <2>4. Max({owed, 0}) = owed
    BY <2>3, MaxOfTwo
  <2>5. Max({LengthOf(S) - DayAutoBreak(S, rules), 0}) = 0
    BY <2>2, <2>3, MaxOfTwo
  <2>6. Max({length - owed, 0}) = 0
    BY <1>2, <2>1, <2>3, MaxOfTwo
  <2> QED
    BY <2>4, <2>5, <2>6 DEF owed, length
<1>5. CASE S # {}
  <2> DEFINE taken == Hull(BlocksOf(S)).end - Hull(BlocksOf(S)).start - length
  <2>1. /\ Cardinality(rested) = taken /\ taken \in Nat
        /\ LengthOf(BlocksOf(S)) = length
    BY <1>5, RestIs
  <2>2. CASE rules = {}
    <3>1. DayAutoBreak(S, rules) = 0
      BY <2>2 DEF DayAutoBreak
    <3>2. BreakOwed(length, rules) = 0
      BY <1>3, <2>2 DEF RequiredBreak
    <3>3. owed \in Int /\ owed <= 0
      BY <2>1, <3>2
    <3> HIDE DEF owed, length
    <3>4. Max({owed, 0}) = 0
      BY <3>3, MaxOfTwo
    <3> QED
      BY <1>1, <3>1, <3>4 DEF owed, length
  <2>3. CASE rules # {}
    <3>1. DayAutoBreak(S, rules) = Max({RequiredBreak(length, rules) - taken, 0})
      BY <1>5, <2>1, <2>3 DEF DayAutoBreak
    <3>2. RequiredBreak(length, rules) - taken = owed
      BY <1>3, <2>1
    <3> HIDE DEF owed, length, taken
    <3> QED
      BY <1>1, <3>1, <3>2 DEF owed, length
  <2> QED
    BY <2>2, <2>3
<1> QED
  BY <1>4, <1>5

LEMMA DayInvCredit == DayInv => CreditIsByMinutes
<1> SUFFICES ASSUME DayInv, NEW u \in Users, NEW d \in Days,
                    NEW states \in {{"approved"}, {"approved", "submitted"}}
             PROVE  Credited(u, d, states)
                      = MinutesCredited(WorkOn(u, d, states), breaks.rules)
  BY DEF CreditIsByMinutes
<1> DEFINE booked == WorkOn(u, d, states)
           slots == {SlotOf(i) : i \in booked}
<1>1. TypeOK /\ NoDoubleBooking /\ DayTypeOK
  BY DEF DayInv, Inv
<1>2. /\ breaks.rules \in SUBSET Rules
      /\ \A r, q \in breaks.rules : r.over = q.over => r = q
  BY <1>1, WorkAssumption DEF DayTypeOK, Rules
<1>3. \A i \in booked : i \in WorkOn(u, d, Live)
  BY DEF WorkOn, Live
<1>4. \A i \in booked : /\ i \in EntryIds /\ HasEntry(i) /\ entries[i].user = u
                        /\ entries[i].day = d /\ entries[i].status \in Live
                        /\ entries[i].start \in Times /\ entries[i].end \in Times
                        /\ entries[i].start < entries[i].end
  BY <1>1, <1>3, WorkOnIs
<1>5. slots \in SUBSET Interval
  BY <1>4 DEF SlotOf, Interval
<1>6. Apart(slots)
  <2> SUFFICES ASSUME NEW i \in booked, NEW j \in booked, SlotOf(i) # SlotOf(j)
               PROVE  entries[i].end <= entries[j].start \/ entries[j].end <= entries[i].start
    BY DEF Apart, SlotOf
  <2>1. ~Overlap(entries[i], entries[j])
    BY <1>1, <1>4 DEF NoDoubleBooking, SameDay, Live
  <2>2. /\ entries[i].start \in Int /\ entries[i].end \in Int
        /\ entries[j].start \in Int /\ entries[j].end \in Int
    BY <1>4, CalendarAssumption
  <2> QED
    BY <2>1, <2>2 DEF Overlap
<1>7. MinutesWorked(booked) = MinutesOf(slots)
  <2> DEFINE Minutes(e) == e.start..(e.end - 1)
  <2>1. \A i \in booked : Minutes(SlotOf(i)) = Minutes(entries[i])
    BY DEF SlotOf
  <2>2. MinutesWorked(booked) = UNION {Minutes(entries[i]) : i \in booked}
    BY DEF MinutesWorked
  <2>3. MinutesOf(slots) = UNION {Minutes(s) : s \in slots}
    BY DEF MinutesOf
  <2> HIDE DEF Minutes
  <2> QED
    BY <2>1, <2>2, <2>3
<1>8. Credited(u, d, states) = Max({LengthOf(slots) - DayAutoBreak(slots, breaks.rules), 0})
  BY DEF Credited
<1> HIDE DEF slots, booked
<1>9. MinutesCredited(booked, breaks.rules)
        = Max({LengthOf(slots) - DayAutoBreak(slots, breaks.rules), 0})
  BY <1>2, <1>5, <1>6, <1>7, CreditOfDay DEF MinutesCredited
<1> QED
  BY <1>8, <1>9 DEF booked

----------------------------------------------------------------------------
(* What is proved of a day's work                                          *)

LEMMA DayWorkInvariant == (DaySpec => []DayInv) /\ (MCSpec => [](part = "work" => DayInv))
<1>1. DaySpec => []DayInv
  BY DayInvInit, DayInvStep, PTL DEF DaySpec
<1> DEFINE I == part = "work" => DayInv
<1>2. MCInit => I
  BY DayInvInit DEF MCInit
<1>3. I /\ [MCNext]_all => I'
  <2> SUFFICES ASSUME I, [MCNext]_all, part' = "work" PROVE DayInv'
    OBVIOUS
  <2>1. part = "work"
    BY DEF MCNext, all
  <2>2. CASE DayNext
    BY <2>1, <2>2, DayInvStep
  <2>3. CASE UNCHANGED all
    <3>1. UNCHANGED dayVars
      BY <2>3 DEF all, vars, work, dayVars, ledger
    <3> QED
      BY <2>1, <3>1, DayInvStep
  <2> QED
    BY <2>1, <2>2, <2>3 DEF MCNext
<1>4. MCSpec => []I
  <2> HIDE DEF I
  <2> QED
    BY <1>2, <1>3, PTL DEF MCSpec
<1> QED
  BY <1>1, <1>4

\* A day's work keeps what the ledger keeps: with categories, settings and the
\* guard beside them, the requests take steps of the ledger only.
THEOREM DayWorkKeepsLedger == DaySpec => []Inv
<1>1. DayInv => Inv
  BY DEF DayInv
<1> QED
  BY <1>1, DayWorkInvariant, PTL

\* The guard holds for whole days (validate_work_stretch): from the start of an
\* entry to the end of another there is no more work without a pause than the
\* limit allows, unless an entry between them was not judged by that limit.
\* A new entry keeps this because the stretch the guard measures is closed:
\* everything outside of it is a whole pause away.
THEOREM NoLongStretchAlways ==
  (DaySpec => []NoLongStretch) /\ (MCSpec => []NoLongStretchAllDay)
<1>1. (part = "work" => DayInv) => NoLongStretchAllDay
  BY DayInvShortStretches DEF NoLongStretchAllDay
<1> QED
  BY <1>1, DayInvShortStretches, DayWorkInvariant, PTL

\* What a report credits depends on the minutes of the day alone
\* (compute_day_auto_break): each worked minute counts once, since no two entries
\* overlap and the blocks they are joined to have the same minutes, and what
\* lies between the blocks counts as a break.
THEOREM CreditAlwaysByMinutes ==
  (DaySpec => []CreditIsByMinutes) /\ (MCSpec => []CreditIsByMinutesEachDay)
<1>1. (part = "work" => DayInv) => CreditIsByMinutesEachDay
  BY DayInvCredit DEF CreditIsByMinutesEachDay
<1> QED
  BY <1>1, DayInvCredit, DayWorkInvariant, PTL
=============================================================================
