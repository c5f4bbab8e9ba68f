---------------------------- MODULE MCDayLedger ----------------------------
(***************************************************************************)
(* Instances of DayLedger and WorkDay for TLC, one at a time: the rows of   *)
(* an employee, her lead, who submits his own time without approval, and an *)
(* admin over three days (the constants of the .cfg), and one day of the    *)
(* employee's work, reviewed by the admin, with a category that counts as   *)
(* work and one that does not.  The variables WorkDay adds hold 0 in the    *)
(* first; the properties of DayLedger are checked of both.                  *)
(***************************************************************************)
EXTENDS WorkDay, TLC

CONSTANTS emp, lead, boss, e1, e2, e3, a1, a2

VARIABLE part

work == <<category, exempt, counts, breaks, reading, flip, judged, changes>>
all == <<part, vars, work>>

MCApprovers == (emp :> {lead}) @@ (lead :> {boss}) @@ (boss :> {})

\* Days 1 and 2 lie in one week, day 3 begins the next.
MCWeekOf == [d \in Days |-> IF d <= 2 THEN 1 ELSE 2]

OwnedBy(u) ==
  /\ \A i \in EntryIds : HasEntry(i) => entries[i].user = u
  /\ \A a \in AbsenceIds : HasAbsence(a) => absences[a].user = u

\* The employee's rows: two entries and an absence in one week.
EntriesFocus ==
  /\ OwnedBy(emp)
  /\ today <= 2
  /\ \E a \in AbsenceIds : ~HasAbsence(a)
  /\ \A a \in AbsenceIds : HasAbsence(a) => absences[a].to <= 2
  /\ \E i \in EntryIds : ~HasEntry(i)
  /\ \A i \in EntryIds : HasEntry(i) => entries[i].day <= 2 /\ entries[i].end <= 2

\* The lead's rows: an entry and two absences across two weeks.
AbsencesFocus ==
  /\ OwnedBy(lead)
  /\ \A i, j \in EntryIds : HasEntry(i) /\ HasEntry(j) => i = j
  /\ \A i \in EntryIds : HasEntry(i) => entries[i].end <= 1

\* One day's work: without automatic breaks, with one break rule and a pause of
\* two, or with two rules and a pause of one.
Rule(over, minus) == [over |-> over, minus |-> minus]

WorkSettings ==
  {[rules |-> {}, guard |-> FALSE, pause |-> 2],
   [rules |-> {Rule(2, 1)}, guard |-> TRUE, pause |-> 2],
   [rules |-> {Rule(1, 2), Rule(2, 3)}, guard |-> TRUE, pause |-> 1]}

WorkFocus ==
  /\ today = 1
  /\ \/ OwnedBy(emp) /\ \A i \in EntryIds : HasEntry(i) => entries[i].reviewer # lead
     \/ OwnedBy(lead) /\ \A i, j \in EntryIds : HasEntry(i) /\ HasEntry(j) => i = j

Focus == IF part = "work" THEN WorkFocus ELSE EntriesFocus \/ AbsencesFocus

\* Nothing but its id tells one new row from another.
Symmetry == Permutations(EntryIds) \cup Permutations(AbsenceIds)

NoWork ==
  /\ category = 0 /\ exempt = 0 /\ counts = 0 /\ breaks = 0
  /\ reading = 0 /\ flip = 0 /\ judged = 0 /\ changes = 0

MCInit ==
  /\ \/ part = "ledger" /\ Init /\ NoWork
     \/ part = "work" /\ DayInit
  /\ Focus

MCNext ==
  /\ UNCHANGED part
  /\ \/ part = "ledger" /\ Next /\ UNCHANGED work
     \/ part = "work" /\ DayNext
  /\ Focus'

MCSpec == MCInit /\ [][MCNext]_all

\* The properties of WorkDay.
NoLongStretchAllDay == part = "work" => NoLongStretch
CreditIsByMinutesEachDay == part = "work" => CreditIsByMinutes
=============================================================================
