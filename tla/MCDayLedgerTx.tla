---------------------------- MODULE MCDayLedgerTx ---------------------------
(***************************************************************************)
(* Instances of DayLedgerTx for TLC.  User 1 is an admin without a time    *)
(* sheet and approves the others.                                          *)
(***************************************************************************)
EXTENDS DayLedgerTx, TLC

MCAdmins == {1}
MCTrackers == Users \ {1}
MCApprovers == [u \in Users |-> IF u = 1 THEN {} ELSE {1}]
MCWeekOf == [d \in Days |-> d]

\* Requests differ in nothing, nor do ids of entries.
Symmetry == Permutations(Requests) \cup Permutations(EntryIds)

\* All rows are about the last day, so that midnight before it falls between
\* the steps of a request while the rows all meet.
RowsOnLastDay ==
  /\ \A i \in EntryIds : HasEntry(i) => entries[i].day + 1 \notin Days
  /\ \A a \in AbsenceIds : HasAbsence(a) => absences[a].from + 1 \notin Days

\* Conflicts are between two rows.
TwoRows == (\A i \in EntryIds : HasEntry(i)) => ~\E a \in AbsenceIds : HasAbsence(a)

Focus == RowsOnLastDay /\ TwoRows
=============================================================================
