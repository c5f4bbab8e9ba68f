------------------------- MODULE PayrollLedgerProofs -------------------------
(***************************************************************************)
(* Proofs about PayrollLedger for any number of months, days, entries and  *)
(* absences.  Five invariants, each resting on those before it:            *)
(*   Inv       the queue, the marker that says how far it was filled, the  *)
(*             run's own list and the months accounted for agree;          *)
(*   Types     every variable keeps its type, and figures are whole;       *)
(*   BooksInv  the document being accounted for is the one the server      *)
(*             accepted;                                                   *)
(*   ShownInv  a day a document shows is past the marker and marked;       *)
(*   HoursInv  work is marked only together with a row that declares it,   *)
(*             or in a month that will never be reported.                  *)
(***************************************************************************)
EXTENDS PayrollLedger, FiniteSetTheorems, WellFoundedInduction, TLAPS

USE PayrollAssumption

Phases == {"idle", "queue", "mark", "check", "members", "build", "send", "record", "settle"}

RunTypes == [at : Phases, target : Nat, due : BOOLEAN, left : SUBSET Nat,
             snap : SUBSET Entries, owed : SUBSET Int, member : BOOLEAN, stale : BOOLEAN]
RunType == run \in RunTypes

\* The queue reaches to the last month at most, and a run knows how far.
QueueInv ==
  /\ month \in Nat /\ marker \in Nat /\ marker < month
  /\ queue \subseteq 1..(month - 1)
  /\ delivered \subseteq 1..marker
  /\ run.at # "idle" => /\ run.target \in 1..(month - 1) /\ marker <= run.target
                        /\ queue \subseteq 1..run.target

\* Past the marker a run works off months that are queued.
ListInv ==
  run.at \notin {"idle", "queue", "mark"} =>
    run.left # {} /\ run.left \subseteq queue /\ marker = run.target

ClockType == reached \in BOOLEAN
EntryRows == DOMAIN entries = Entries

Inv == RunType /\ ClockType /\ EntryRows /\ QueueInv /\ ListInv /\ AccountedOnce

----------------------------------------------------------------------------
(* Totals of figures: the sums are finite, so a least set with a wrong one *)
(* would exist.                                                            *)

First(s) == CHOOSE x \in s : TRUE
SumRule(s, f) == IF s = {} THEN 0 ELSE First(s)[2] + f[s \ {First(s)}]

\* Every property of naturals that fails does so at a least number.
LEMMA LeastNumber ==
  ASSUME NEW S \in SUBSET Nat, S # {}
  PROVE  \E m \in S : \A n \in S : m <= n
<1> DEFINE Less == {p \in Nat \X Nat : p[1] < p[2]}
<1>1. IsWellFoundedOn(Less, Nat)
  BY NatLessThanWellFounded DEF OpToRel
<1>2. PICK m \in S : \A y \in S : ~(<<y, m>> \in Less)
  BY <1>1, WFMin
<1>3. ASSUME NEW y \in S
      PROVE  m <= y
  <2>1. ~(y < m)
    BY <1>2
  <2>2. QED
    BY <2>1
<1>4. QED
  BY <1>3

LEMMA FewerLeft ==
  ASSUME NEW s, IsFiniteSet(s), s # {}
  PROVE  /\ IsFiniteSet(s \ {First(s)})
         /\ Cardinality(s) \in Nat \ {0}
         /\ Cardinality(s \ {First(s)}) = Cardinality(s) - 1
<1>1. First(s) \in s
  BY DEF First
<1>2. Cardinality(s) \in Nat /\ Cardinality(s) # 0
  BY FS_CardinalityType, FS_EmptySet
<1>3. QED
  BY <1>1, <1>2, FS_RemoveElement

LEMMA SumExists ==
  ASSUME NEW S, IsFiniteSet(S)
  PROVE  \E f : f = [s \in SUBSET S |-> SumRule(s, f)]
<1> DEFINE Small(n) == {s \in SUBSET S : Cardinality(s) <= n}
           Summed(n) == \E f : f = [s \in Small(n) |-> SumRule(s, f)]
           Never == {n \in Nat : ~Summed(n)}
<1>1. ASSUME NEW s \in SUBSET S
      PROVE  IsFiniteSet(s) /\ Cardinality(s) \in Nat
  BY FS_Subset, FS_CardinalityType
<1>2. Summed(0)
  <2>1. \A s \in Small(0) : s = {}
    BY <1>1, FS_EmptySet
  <2>2. [s \in Small(0) |-> 0] = [s \in Small(0) |-> SumRule(s, [t \in Small(0) |-> 0])]
    BY <2>1 DEF SumRule
  <2>3. QED
    BY <2>2
<1>3. ASSUME NEW n \in Nat, Summed(n)
      PROVE  Summed(n + 1)
  <2>1. PICK f : f = [s \in Small(n) |-> SumRule(s, f)]
    BY <1>3
  <2> DEFINE g == [s \in Small(n + 1) |-> SumRule(s, f)]
  <2>2. ASSUME NEW s \in Small(n + 1)
        PROVE  SumRule(s, f) = SumRule(s, g)
    <3>1. CASE s = {}
      BY <3>1 DEF SumRule
    <3>2. CASE s # {}
      <4> DEFINE t == s \ {First(s)}
      <4>1. t \in Small(n) /\ t \in Small(n + 1)
        BY <1>1, <3>2, FewerLeft
      <4>2. f[t] = SumRule(t, f)
        BY <2>1, <4>1
      <4>3. g[t] = SumRule(t, f)
        BY <4>1
      <4> HIDE DEF g, t
      <4>4. QED
        BY <3>2, <4>2, <4>3 DEF SumRule, t
    <3>3. QED
      BY <3>1, <3>2
  <2>3. g = [s \in Small(n + 1) |-> SumRule(s, g)]
    <3> HIDE DEF Small
    <3>1. QED
      BY <2>2
  <2>4. QED
    BY <2>3
<1>4. Never = {}
  <2>1. SUFFICES ASSUME Never # {} PROVE FALSE
    OBVIOUS
  <2> HIDE DEF Summed
  <2>2. PICK m \in Never : \A n \in Never : m <= n
    BY <2>1, LeastNumber
  <2>3. m # 0 /\ m \in Nat
    BY <1>2, <2>2
  <2>4. Summed(m - 1)
    BY <2>2, <2>3
  <2>5. Summed((m - 1) + 1)
    BY <1>3, <2>3, <2>4
  <2>6. QED
    BY <2>2, <2>3, <2>5
<1>5. Summed(Cardinality(S))
  BY <1>1, <1>4
<1>6. Small(Cardinality(S)) = SUBSET S
  BY <1>1, FS_Subset
<1>7. QED
  BY <1>5, <1>6

\* The total of finitely many whole figures is a whole figure, of none it is zero.
LEMMA TotalIsInt ==
  ASSUME NEW S, IsFiniteSet(S), \A x \in S : x[2] \in Int
  PROVE  Total(S) \in Int
<1> DEFINE sum == CHOOSE f : f = [s \in SUBSET S |-> SumRule(s, f)]
           Bad == {n \in Nat : \E s \in SUBSET S : Cardinality(s) = n /\ sum[s] \notin Int}
<1>1. sum = [s \in SUBSET S |-> SumRule(s, sum)]
  BY SumExists
<1>2. Total(S) = sum[S]
  BY DEF Total, MapThenSumSet, MapThenFoldSet, SumRule, First
<1> HIDE DEF sum
<1>3. Bad = {}
  <2>1. SUFFICES ASSUME Bad # {} PROVE FALSE
    OBVIOUS
  <2>2. PICK m \in Bad : \A n \in Bad : m <= n
    <3> HIDE DEF Bad
    <3>1. Bad \in SUBSET Nat
      BY DEF Bad
    <3>2. QED
      BY <2>1, <3>1, LeastNumber
  <2>3. PICK s \in SUBSET S : Cardinality(s) = m /\ sum[s] \notin Int
    BY <2>2
  <2>4. sum[s] = SumRule(s, sum)
    BY <1>1
  <2>5. s # {}
    BY <2>3, <2>4 DEF SumRule
  <2>6. IsFiniteSet(s)
    BY FS_Subset
  <2>7. /\ Cardinality(s \ {First(s)}) = m - 1
        /\ m - 1 \in Nat /\ First(s) \in s
    <3>1. First(s) \in s
      BY <2>5 DEF First
    <3>2. Cardinality(s) \in Nat \ {0} /\ Cardinality(s \ {First(s)}) = Cardinality(s) - 1
      BY <2>5, <2>6, FewerLeft
    <3>3. QED
      BY <2>3, <3>1, <3>2
  <2>8. sum[s \ {First(s)}] \in Int
    BY <2>2, <2>7
  <2>9. QED
    BY <2>3, <2>4, <2>5, <2>7, <2>8 DEF SumRule
<1>4. Cardinality(S) \in Nat
  BY FS_CardinalityType
<1>5. QED
  BY <1>2, <1>3, <1>4

LEMMA TotalOfNone == Total({}) = 0
<1>1. PICK f : f = [s \in SUBSET {} |-> SumRule(s, f)]
  BY SumExists, FS_EmptySet
<1> DEFINE sum == CHOOSE g : g = [s \in SUBSET {} |-> SumRule(s, g)]
<1>2. sum = [s \in SUBSET {} |-> SumRule(s, sum)]
  BY <1>1
<1>3. Total({}) = sum[{}]
  BY DEF Total, MapThenSumSet, MapThenFoldSet, SumRule, First
<1> HIDE DEF sum
<1>4. QED
  BY <1>2, <1>3 DEF SumRule

----------------------------------------------------------------------------

\* Min chooses the least of a set of naturals.
LEMMA MinInSet ==
  ASSUME NEW S \in SUBSET Nat, S # {}
  PROVE  Min(S) \in S
<1>1. PICK m \in S : \A n \in S : m <= n
  BY LeastNumber
<1>2. QED
  BY <1>1 DEF Min

LEMMA InitInv ==
  ASSUME Init
  PROVE  Inv
<1>1. RunType
  BY DEF Init, RunType, RunTypes, Idle, Phases
<1>2. run.at = "idle"
  BY DEF Init, Idle
<1>3. QueueInv
  BY <1>2 DEF Init, QueueInv
<1>4. ClockType
  BY DEF Init, ClockType
<1>5. QED
  BY <1>1, <1>2, <1>3, <1>4 DEF Init, Inv, ListInv, AccountedOnce, EntryRows

\* A run that moves on to another of its months, or ends, keeps the invariant when what
\* it leaves in the queue is what it still has to do.
LEMMA NextPeriodType ==
  ASSUME RunType, NEW left \in SUBSET Nat
  PROVE  /\ NextPeriod(left) \in RunTypes
         /\ left = {} => NextPeriod(left).at = "idle"
         /\ left # {} => /\ NextPeriod(left).at = "check"
                        /\ NextPeriod(left).left = left
                        /\ NextPeriod(left).target = run.target
<1>1. Idle \in RunTypes
  BY DEF Idle, Phases, RunTypes
<1>2. Idle.at = "idle"
  BY DEF Idle
<1>3. CASE left = {}
  BY <1>1, <1>2, <1>3 DEF NextPeriod
<1>4. CASE left # {}
  <2>1. NextPeriod(left) = [at |-> "check", target |-> run.target, due |-> run.due,
                            left |-> left, snap |-> {}, owed |-> {}, member |-> FALSE,
                            stale |-> FALSE]
    BY <1>4 DEF NextPeriod, Idle
  <2>2. run.due \in BOOLEAN /\ run.target \in Nat
    BY Zenon DEF RunType, RunTypes
  <2>3. "check" \in Phases /\ {} \in SUBSET Entries /\ {} \in SUBSET Int
        /\ FALSE \in BOOLEAN
    BY DEF Phases
  <2>4. NextPeriod(left) \in RunTypes
    BY <2>1, <2>2, <2>3 DEF RunTypes
  <2>5. NextPeriod(left).at = "check" /\ NextPeriod(left).left = left
        /\ NextPeriod(left).target = run.target
    BY <2>1
  <2>6. QED
    BY <1>4, <2>4, <2>5
<1>5. QED
  BY <1>3, <1>4

LEMMA SkipKeepsInv ==
  ASSUME Inv, run.at \notin {"idle", "queue", "mark"}, Skip,
         UNCHANGED <<clock, marker, queue, delivered, entries>>
  PROVE  Inv'
<1>1. run.left \ {Period} \in SUBSET Nat
  BY DEF Inv, RunType, RunTypes
<1>2. run' = NextPeriod(run.left \ {Period})
  BY DEF Skip
<1>3. RunType'
  BY <1>1, <1>2, NextPeriodType DEF Inv, RunType, RunTypes
<1>4. ClockType'
  BY DEF clock, Inv, ClockType
<1>5. QueueInv'
  BY <1>1, <1>2, NextPeriodType DEF Inv, QueueInv, RunType, RunTypes, clock
<1>6. ListInv'
  BY <1>1, <1>2, NextPeriodType DEF Inv, ListInv, RunType
<1>7. QED
  BY <1>3, <1>4, <1>5, <1>6 DEF Inv, AccountedOnce, EntryRows

\* The months a run adds are those after the marker.
LEMMA BackfillRange ==
  ASSUME NEW target \in Nat \ {0}, marker \in Nat, marker <= target
  PROVE  /\ Backfill(target) \subseteq 1..target
         /\ \A m \in Backfill(target) : m > marker
BY DEF Backfill, Months

LEMMA BeginKeepsInv ==
  ASSUME Inv, Begin
  PROVE  Inv'
<1>1. RunType'
  <2>1. run' = [at |-> "queue", target |-> month - 1, due |-> reached, left |-> run.left,
                snap |-> run.snap, owed |-> run.owed, member |-> run.member,
                stale |-> run.stale]
    BY DEF Begin, Inv, RunType, RunTypes
  <2>2. month - 1 \in Nat /\ run.left \in SUBSET Nat /\ run.snap \in SUBSET Entries
        /\ run.owed \in SUBSET Int
    BY DEF Begin, Inv, QueueInv, RunType, RunTypes
  <2>3. reached \in BOOLEAN /\ run.member \in BOOLEAN /\ run.stale \in BOOLEAN
    BY Zenon DEF Inv, RunType, RunTypes, ClockType
  <2>4. QED
    BY Zenon, <2>1, <2>2, <2>3 DEF RunType, RunTypes, Phases
<1>2. run'.at = "queue" /\ run'.target = month - 1
  BY DEF Begin, Inv, RunType, RunTypes
<1>3. QueueInv'
  BY <1>2 DEF Begin, Inv, QueueInv, clock
<1>4. EntryRows'
  BY DEF Begin, Inv, EntryRows, Initialize
<1>5. QED
  BY <1>1, <1>2, <1>3, <1>4 DEF Begin, Inv, ListInv, AccountedOnce, ClockType, clock

LEMMA EnqueueKeepsInv ==
  ASSUME Inv, Enqueue
  PROVE  Inv'
<1>1. /\ Backfill(run.target) \subseteq 1..run.target
      /\ \A m \in Backfill(run.target) : m > marker
  BY BackfillRange DEF Inv, QueueInv, RunType, RunTypes, Enqueue
<1>2. QED
  BY <1>1 DEF Inv, RunType, RunTypes, QueueInv, ListInv, AccountedOnce, ClockType, EntryRows,
     Enqueue, clock, Phases

LEMMA ListKeepsInv ==
  ASSUME Inv, List
  PROVE  Inv'
<1>1. queue \in SUBSET Nat /\ run' = NextPeriod(queue)
  BY DEF Inv, QueueInv, List
<1>2. RunType'
  BY <1>1, NextPeriodType DEF Inv, RunType, RunTypes
<1>3. QueueInv'
  BY <1>1, NextPeriodType DEF Inv, QueueInv, RunType, RunTypes, List, clock
<1>4. ListInv'
  BY <1>1, NextPeriodType DEF Inv, ListInv, RunType, RunTypes, List
<1>5. QED
  BY <1>2, <1>3, <1>4 DEF Inv, AccountedOnce, ClockType, EntryRows, List, clock

LEMMA RecordKeepsInv ==
  ASSUME Inv, Record
  PROVE  Inv'
<1>1. Period \in run.left
  BY MinInSet DEF Inv, RunType, RunTypes, ListInv, Record, Period
<1>2. /\ run.left \ {Period} \in SUBSET Nat
      /\ run' = NextPeriod(run.left \ {Period})
      /\ delivered' = delivered \cup {Period} /\ queue' = queue \ {Period}
      /\ UNCHANGED <<month, reached, marker>>
  BY DEF Inv, RunType, RunTypes, Record, Account, Skip, clock
<1>3. RunType'
  BY <1>2, NextPeriodType DEF Inv, RunType, RunTypes
<1>4. QueueInv'
  BY <1>1, <1>2, NextPeriodType DEF Inv, QueueInv, ListInv, RunType, RunTypes, Record
<1>5. ListInv'
  BY <1>2, NextPeriodType DEF Inv, ListInv, RunType, RunTypes, Record
<1>6. AccountedOnce'
  BY <1>2 DEF Inv, AccountedOnce
<1>7. EntryRows'
  BY DEF Record, Account, MarkEntries, EntryRows
<1>8. QED
  BY <1>2, <1>3, <1>4, <1>5, <1>6, <1>7 DEF Inv, ClockType

\* Writes to entries and absences leave the queue alone, and a run where it is.
LEMMA WritesKeepInv ==
  ASSUME Inv, Hours \/ Leave
  PROVE  Inv'
<1>1. UNCHANGED <<clock, marker, queue, delivered>>
  BY DEF Hours, Leave, CreateEntry, ApproveEntry, ReopenEntry, UpdateEntry, DeleteEntry,
     CreateAbsence, DecideAbsence, RequestCancellation, KeepAbsence, CancelAbsence,
     ArchiveOwner, clock, books
<1>2. \/ UNCHANGED run
      \/ \E e \in Entries : Touch(e)
      \/ \E b \in BOOLEAN : run' = [run EXCEPT !.stale = b]
  <2>1. CASE Hours
    BY <2>1 DEF Hours, CreateEntry, ApproveEntry, ReopenEntry, UpdateEntry, DeleteEntry, work
  <2>2. CASE ArchiveOwner
    BY <2>2 DEF ArchiveOwner, Inv, RunType
  <2>3. CASE Leave /\ ~ArchiveOwner
    BY <2>3 DEF Leave, CreateAbsence, DecideAbsence, RequestCancellation, KeepAbsence,
       CancelAbsence, work
  <2>4. QED
    BY <2>1, <2>2, <2>3
<1>7. EntryRows'
  <2>1. CASE Hours
    BY <2>1 DEF Hours, CreateEntry, ApproveEntry, ReopenEntry, UpdateEntry, DeleteEntry,
       Inv, EntryRows
  <2>2. CASE Leave
    BY <2>2 DEF Leave, CreateAbsence, DecideAbsence, RequestCancellation, KeepAbsence,
       CancelAbsence, ArchiveOwner, Inv, EntryRows
  <2>3. QED
    BY <2>1, <2>2
<1>3. CASE UNCHANGED run
  BY <1>1, <1>7, <1>3 DEF Inv, RunType, RunTypes, QueueInv, ListInv, AccountedOnce, ClockType, EntryRows, clock
<1>4. ASSUME NEW e \in Entries, Touch(e)
      PROVE  Inv'
  BY <1>1, <1>7, <1>4 DEF Inv, RunType, RunTypes, QueueInv, ListInv, AccountedOnce, ClockType, EntryRows, Touch, clock
<1>5. ASSUME NEW b \in BOOLEAN, run' = [run EXCEPT !.stale = b]
      PROVE  Inv'
  BY <1>1, <1>7, <1>5 DEF Inv, RunType, RunTypes, QueueInv, ListInv, AccountedOnce, ClockType, EntryRows, clock
<1>6. QED
  BY <1>2, <1>3, <1>4, <1>5

LEMMA NextKeepsInv ==
  ASSUME Inv, [Next]_vars
  PROVE  Inv'
<1>1. CASE Hours \/ Leave
  BY <1>1, WritesKeepInv
<1>2. CASE Begin
  BY <1>2, BeginKeepsInv
<1>3. CASE Enqueue
  BY <1>3, EnqueueKeepsInv
<1>4. CASE List
  BY <1>4, ListKeepsInv
<1>5. CASE Defer
  BY <1>5, SkipKeepsInv DEF Defer, clock, books
<1>6. CASE Snapshot
  <2>1. queue \cup Backfill(month - 1) \subseteq Int
    BY BackfillRange, <1>6 DEF Inv, RunType, RunTypes, QueueInv, ListInv, Snapshot
  <2>2. {e \in Live(entries) : MonthOf[entries[e].day] = Period} \subseteq Entries
    BY DEF Inv, EntryRows, Live
  <2>3. QED
    BY <1>6, <2>1, <2>2 DEF Inv, RunType, RunTypes, QueueInv, ListInv, AccountedOnce, ClockType, EntryRows, Snapshot, clock, books, Phases
<1>7. CASE HoldBack
  BY <1>7, SkipKeepsInv DEF HoldBack, clock, books
<1>8. CASE Evaluate
  <2>1. Member \in BOOLEAN /\ (IF others \/ Member THEN "build" ELSE "settle") \in Phases
    BY DEF Member, Phases
  <2>2. run' \in RunTypes
    BY <1>8, <2>1 DEF Evaluate, Inv, RunType, RunTypes
  <2>3. run'.left = run.left /\ run'.target = run.target /\ run'.at \in {"build", "settle"}
    BY <1>8 DEF Evaluate, Inv, RunType, RunTypes
  <2>4. QED
    BY <1>8, <2>2, <2>3 DEF Evaluate, Inv, RunType, QueueInv, ListInv, AccountedOnce,
       ClockType, EntryRows, clock, books
<1>9. CASE Build
  BY <1>9 DEF Build, Inv, RunType, RunTypes, QueueInv, ListInv, AccountedOnce, ClockType, EntryRows, clock, books, Phases
<1>10. CASE Send
  <2>1. CASE Skip
    BY <1>10, <2>1, SkipKeepsInv DEF Send, clock
  <2>2. CASE run' = [run EXCEPT !.at = "record"]
    BY <1>10, <2>2 DEF Send, Inv, RunType, RunTypes, QueueInv, ListInv, AccountedOnce, ClockType, EntryRows, clock, Phases
  <2>3. QED
    BY <1>10, <2>1, <2>2 DEF Send
<1>11. CASE FailToSend
  BY <1>11, SkipKeepsInv DEF FailToSend, clock, books
<1>12. CASE Record
  BY <1>12, RecordKeepsInv
<1>13. CASE RecordRefused
  BY <1>13, SkipKeepsInv DEF RecordRefused, clock, books
<1>14. CASE RecordFails
  BY <1>14, SkipKeepsInv DEF RecordFails, clock, books
<1>15. CASE Restart
  BY <1>15 DEF Restart, Inv, RunType, RunTypes, QueueInv, ListInv, AccountedOnce, ClockType, EntryRows, Idle, clock, books, Phases
<1>16. CASE SendDay
  BY <1>16 DEF SendDay, Inv, RunType, RunTypes, QueueInv, ListInv, AccountedOnce, ClockType, EntryRows, work, books
<1>17. CASE NextMonth
  <2>1. UNCHANGED <<entries, marker, queue, delivered, run>> /\ month' = month + 1
    BY <1>17 DEF NextMonth, books, work
  <2>2. ClockType'
    BY <1>17 DEF NextMonth, ClockType
  <2>3. QueueInv'
    BY <2>1 DEF Inv, RunType, RunTypes, QueueInv
  <2>4. QED
    BY <2>1, <2>2, <2>3 DEF Inv, RunType, ListInv, AccountedOnce, EntryRows
<1>18. CASE UNCHANGED vars
  BY <1>18 DEF vars, Inv, RunType, RunTypes, QueueInv, ListInv, AccountedOnce, ClockType, EntryRows
<1>19. QED
  BY <1>1, <1>2, <1>3, <1>4, <1>5, <1>6, <1>7, <1>8, <1>9, <1>10, <1>11, <1>12, <1>13, <1>14,
     <1>15, <1>16, <1>17, <1>18 DEF Next, Work

\* No month accounted for is ever queued again, whatever runs crash, mails fail and rows
\* change: record_payroll_report_delivery takes it off the queue and the marker is past it.
THEOREM MonthAccountedOnce == Spec => []AccountedOnce
<1>1. Init => Inv
  BY InitInv
<1>2. Inv /\ [Next]_vars => Inv'
  BY NextKeepsInv
<1>3. Inv => AccountedOnce
  BY DEF Inv
<1>4. QED
  BY <1>1, <1>2, <1>3, PTL DEF Spec

----------------------------------------------------------------------------
(* The further invariants                                                  *)

Types ==
  /\ TypeOK
  /\ IsFiniteSet(doc.minutes) /\ IsFiniteSet(ledger)

\* The document in hand is what the server accepted, and outside the locked part of a
\* run there is none.
BooksInv ==
  /\ run.at \notin {"send", "record"} => doc = EmptyDoc
  /\ run.at = "record" /\ Covers(doc) => mailed[Period] = doc
  /\ unsent \subseteq delivered
  /\ BooksMatch

\* Months the run may still report are all in what it takes to be owed.
Working == run.at \in {"members", "build", "settle", "send", "record"}

ShownInv ==
  /\ Working => queue \subseteq run.owed
  /\ run.at \in {"send", "record"} => \A x \in doc.shown :
       /\ Counts(x[1]) /\ x[2] \in DaysOf(x[1])
       /\ \/ MonthOf[x[2]] = Period
          \/ MonthOf[x[2]] < Period /\ MonthOf[x[2]] \notin run.owed
  /\ \A p \in delivered \ unsent : \A x \in mailed[p].shown :
       /\ absences[x[1]].status # "none" /\ absences[x[1]].mark \in Months
       /\ x[2] \in DaysOf(x[1]) /\ MonthOf[x[2]] <= marker /\ MonthOf[x[2]] \notin queue
  /\ CancellationsHeard

\* A month no report will ever be made for.
Closed(q) == q \notin queue \cup delivered /\ (q < first \/ q <= marker)

StartInv ==
  /\ first < month
  /\ first = 0 => marker = 0 /\ queue = {} /\ run.at = "idle"
  /\ marker # 0 => first <= marker
  /\ run.at # "idle" => first <= run.target

\* What the run has read of the entries still holds of those it has kept.
SnapInv ==
  /\ Working => \A e \in run.snap :
       entries[e].status # "none" /\ MonthOf[entries[e].day] = Period
  /\ Working /\ run.at # "members" =>
       /\ \A e \in run.snap : entries[e].status = "approved"
       /\ run.at = "settle" \/ ~run.member => run.snap = {}

HasRow(d) == \E row \in doc.minutes : row[1] = d

\* A document has a row for all it will mark, except work of closed months.
DocInv ==
  run.at \in {"send", "record"} =>
    /\ \A e \in run.snap : HasRow(entries[e].day)
    /\ \A d \in doc.late : MonthOf[d] < Period /\ (HasRow(d) \/ Closed(MonthOf[d]))

\* Marked work is declared, or of a closed month.
MarksInv ==
  \A e \in Live(entries) : entries[e].mark # NoMark =>
    DeclaredRows(entries[e].day) # {} \/ Closed(MonthOf[entries[e].day])

HoursInv ==
  StartInv /\ (kind = "assistant" => SnapInv /\ DocInv /\ MarksInv)

----------------------------------------------------------------------------
(* Figures                                                                 *)

LEMMA ImageFinite ==
  ASSUME NEW S, IsFiniteSet(S), NEW f
  PROVE  IsFiniteSet({f[x] : x \in S})
<1> DEFINE T == {f[x] : x \in S}
           g == [x \in S |-> f[x]]
<1>1. g \in Surjection(S, T)
  BY DEF Surjection
<1>2. QED
  BY <1>1, FS_Surjection

LEMMA RowsTyped ==
  ASSUME TypeOK
  PROVE  /\ Live(entries) \subseteq Entries /\ IsFiniteSet(Live(entries))
         /\ \A e \in Live(entries) : entries[e] \in Entry
         /\ Live(absences) \subseteq Absences
         /\ \A a \in Live(absences) : absences[a] \in Absence
<1>1. DOMAIN entries = Entries /\ DOMAIN absences = Absences
  BY DEF TypeOK
<1>2. NoRow.status = "none"
  BY DEF NoRow
<1>3. Live(entries) \subseteq Entries /\ Live(absences) \subseteq Absences
  BY <1>1 DEF Live
<1>4. \A e \in Live(entries) : entries[e] \in Entry
  BY <1>1, <1>2 DEF TypeOK, Live
<1>5. \A a \in Live(absences) : absences[a] \in Absence
  BY <1>1, <1>2 DEF TypeOK, Live
<1>6. IsFiniteSet(Live(entries))
  BY <1>3, FS_Subset
<1>7. QED
  BY <1>3, <1>4, <1>5, <1>6

\* The work of any set of entries is a whole number of minutes, of none it is zero.
LEMMA NetIsInt ==
  ASSUME TypeOK, NEW ids \in SUBSET Live(entries)
  PROVE  Net(ids) \in Int
<1> DEFINE f == [e \in ids |-> <<e, entries[e].min>>]
           S == {<<e, entries[e].min>> : e \in ids}
<1>1. IsFiniteSet(ids)
  BY RowsTyped, FS_Subset
<1>2. S = {f[e] : e \in ids}
  OBVIOUS
<1>3. IsFiniteSet(S)
  <2> HIDE DEF f
  <2> QED
    BY <1>1, <1>2, ImageFinite
<1>4. \A e \in ids : entries[e].min \in Int
  <2>1. \A e \in ids : entries[e] \in Entry
    BY RowsTyped
  <2>2. Minutes \subseteq Int
    OBVIOUS
  <2>3. QED
    BY <2>1, <2>2 DEF Entry
<1>5. \A x \in S : x[2] \in Int
  BY <1>4
<1> HIDE DEF S
<1>6. Total(S) \in Int
  BY <1>3, <1>5, TotalIsInt
<1>7. QED
  BY <1>6 DEF Net, S

LEMMA NetOfNone == Net({}) = 0
<1>1. {<<e, entries[e].min>> : e \in {}} = {}
  OBVIOUS
<1>2. Net({}) = (IF Total({}) > BreakAfter THEN Total({}) - 1 ELSE Total({}))
  BY <1>1 DEF Net
<1>3. QED
  BY <1>2, TotalOfNone

\* What the ledger holds of a day is a whole number of minutes, zero without a row.
LEMMA DeclaredIsInt ==
  ASSUME TypeOK, IsFiniteSet(ledger), NEW d \in Days
  PROVE  /\ Declared(d) \in Int
         /\ DeclaredRows(d) = {} => Declared(d) = 0
<1> DEFINE R == DeclaredRows(d)
           f == [row \in R |-> <<row.period, row.min>>]
           S == {<<row.period, row.min>> : row \in R}
<1>1. R \subseteq ledger
  BY DEF DeclaredRows
<1>2. IsFiniteSet(R)
  BY <1>1, FS_Subset
<1>3. \A row \in R : row.min \in Int
  BY <1>1 DEF TypeOK
<1> HIDE DEF R
<1>4. S = {f[row] : row \in R}
  OBVIOUS
<1>5. IsFiniteSet(S)
  <2> HIDE DEF f, S
  <2> QED
    BY <1>2, <1>4, ImageFinite
<1>6. \A x \in S : x[2] \in Int
  BY <1>3
<1>7. R = {} => S = {}
  OBVIOUS
<1> HIDE DEF S
<1>8. Total(S) \in Int /\ (R = {} => Total(S) = 0)
  BY <1>5, <1>6, <1>7, TotalIsInt, TotalOfNone
<1>9. QED
  BY <1>8 DEF Declared, S, R

LEMMA DeltaIsInt ==
  ASSUME TypeOK, IsFiniteSet(ledger), NEW d \in Days
  PROVE  Delta(d) \in Int
<1>1. WorkOn(d) \in SUBSET Live(entries) /\ MarkedOn(d) \in SUBSET Live(entries)
  BY DEF WorkOn, MarkedOn, EntriesOn
<1>2. Net(WorkOn(d)) \in Int /\ Net(MarkedOn(d)) \in Int
  BY <1>1, NetIsInt
<1>3. QED
  BY <1>2, DeclaredIsInt DEF Delta

----------------------------------------------------------------------------
(* Types                                                                   *)

LEMMA HoursShape ==
  ASSUME NEW m, NEW l
  PROVE  [EmptyDoc EXCEPT !.minutes = m, !.late = l]
           \in [minutes : {m}, late : {l}, shown : {{}}, withdrawn : {{}}]
BY DEF EmptyDoc

LEMMA AbsencesShape ==
  ASSUME NEW s, NEW w
  PROVE  [EmptyDoc EXCEPT !.shown = s, !.withdrawn = w]
           \in [minutes : {{}}, late : {{}}, shown : {s}, withdrawn : {w}]
BY DEF EmptyDoc

LEMMA NoneInHand == EmptyDoc \in Docs /\ IsFiniteSet(EmptyDoc.minutes)
BY FS_EmptySet DEF EmptyDoc, Docs

\* The document a run builds has the right shape, whichever month it is for.
LEMMA DocumentTyped ==
  ASSUME TypeOK, IsFiniteSet(ledger), NEW p
  PROVE  Document(p) \in Docs /\ IsFiniteSet(Document(p).minutes)
<1>1. HoursDoc(p) \in Docs /\ IsFiniteSet(HoursDoc(p).minutes)
  <2> DEFINE late == LateDays(p, run.owed)
             D1 == {day \in Days : MonthOf[day] = p /\ WorkOn(day) # {}}
             D2 == {day \in late : LedgerBacked(day)}
             f == [d \in Days |-> <<d, Net(WorkOn(d))>>]
             g == [d \in Days |-> <<d, Delta(d)>>]
  <2>1. late \subseteq Days /\ D1 \subseteq Days /\ D2 \subseteq Days
    BY DEF LateDays
  <2>2. \A d \in Days : Net(WorkOn(d)) \in Int /\ Delta(d) \in Int
    BY NetIsInt, DeltaIsInt DEF WorkOn, EntriesOn
  <2>3. IsFiniteSet(D1) /\ IsFiniteSet(D2)
    BY <2>1, FS_Subset
  <2>4. HoursRows(p) = {f[d] : d \in D1} /\ CorrectionRows(late) = {g[d] : d \in D2}
    BY <2>1 DEF HoursRows, CorrectionRows
  <2>5. \A d \in Days : f[d] \in Days \X Int /\ g[d] \in Days \X Int
    BY <2>2
  <2> HIDE DEF f, g, D1, D2, late
  <2>6. IsFiniteSet(HoursRows(p)) /\ IsFiniteSet(CorrectionRows(late))
    BY <2>3, <2>4, ImageFinite
  <2>7. HoursRows(p) \cup CorrectionRows(late) \in SUBSET (Days \X Int)
    BY <2>1, <2>4, <2>5
  <2>8. IsFiniteSet(HoursRows(p) \cup CorrectionRows(late))
    BY <2>6, FS_Union
  <2>9. HoursDoc(p) \in [minutes : {HoursRows(p) \cup CorrectionRows(late)}, late : {late},
                         shown : {{}}, withdrawn : {{}}]
    BY Zenon, HoursShape DEF HoursDoc, late
  <2>10. QED
    BY <2>1, <2>7, <2>8, <2>9 DEF Docs
<1>2. AbsenceDoc(p) \in Docs /\ IsFiniteSet(AbsenceDoc(p).minutes)
  <2>1. /\ AbsenceRows(p) \cup LateAbsenceRows(p) \in SUBSET (Absences \X Days)
        /\ CancelledRows \in SUBSET Absences
    BY RowsTyped DEF AbsenceRows, LateAbsenceRows, CancelledRows
  <2>2. AbsenceDoc(p) \in [minutes : {{}}, late : {{}},
             shown : {AbsenceRows(p) \cup LateAbsenceRows(p)}, withdrawn : {CancelledRows}]
    BY Zenon, AbsencesShape DEF AbsenceDoc
  <2>3. QED
    BY <2>1, <2>2, FS_EmptySet DEF Docs
<1>3. QED
  BY <1>1, <1>2 DEF Document

\* What each kind of step leaves alone.
LEMMA WhoWrites ==
  ASSUME [Next]_vars
  PROVE  /\ Hours \/ Begin \/ Record \/ UNCHANGED entries
         /\ Leave \/ Begin \/ Record \/ UNCHANGED absences
         /\ Begin \/ UNCHANGED first
         /\ Record \/ UNCHANGED <<delivered, ledger, unsent>>
         /\ Send \/ UNCHANGED mailed
         /\ Build \/ doc' = doc \/ doc' = EmptyDoc
         /\ NextMonth \/ UNCHANGED month
         /\ UNCHANGED <<kind, others>>
<1>1. CASE Hours
  BY <1>1 DEF Hours, CreateEntry, ApproveEntry, ReopenEntry, UpdateEntry, DeleteEntry,
     setup, clock, books, work
<1>2. CASE Leave
  BY <1>2 DEF Leave, CreateAbsence, DecideAbsence, RequestCancellation, KeepAbsence,
     CancelAbsence, ArchiveOwner, setup, clock, books, work
<1>3. CASE Begin \/ Enqueue \/ List \/ Snapshot \/ Evaluate \/ Build
  BY <1>3 DEF Begin, Enqueue, List, Snapshot, Evaluate, Build, setup, clock, books, work
<1>4. CASE Defer \/ HoldBack \/ FailToSend \/ RecordRefused \/ RecordFails \/ Restart
  BY <1>4 DEF Defer, HoldBack, FailToSend, RecordRefused, RecordFails, Restart, Skip,
     setup, clock, books, work
<1>5. CASE Send
  BY <1>5 DEF Send, Skip, setup, clock
<1>6. CASE Record
  BY <1>6 DEF Record, Account, Skip, setup, clock
<1>7. CASE SendDay \/ NextMonth \/ UNCHANGED vars
  BY <1>7 DEF SendDay, NextMonth, vars, setup, books, work
<1>8. QED
  BY <1>1, <1>2, <1>3, <1>4, <1>5, <1>6, <1>7 DEF Next, Work

LEMMA EntriesTyped ==
  ASSUME Inv, Types, [Next]_vars
  PROVE  entries' \in [Entries -> Entry \cup {NoRow}]
<1> DEFINE Rows == Entry \cup {NoRow}
<1>1. entries \in [Entries -> Rows]
  BY DEF Types, TypeOK
<1>2. \A e \in Entries : entries[e].status # "none" => entries[e] \in Entry
  BY <1>1 DEF NoRow
<1>3. CASE Hours
  <2>1. PICK e \in Entries :
           \/ \E d \in Days, n \in Minutes : CreateEntry(e, d, n) \/ UpdateEntry(e, d, n)
           \/ ApproveEntry(e) \/ ReopenEntry(e) \/ DeleteEntry(e)
    BY <1>3 DEF Hours
  <2>2. \A row \in Rows : [entries EXCEPT ![e] = row] \in [Entries -> Rows]
    BY <1>1
  <2>3. ASSUME NEW d \in Days, NEW n \in Minutes, CreateEntry(e, d, n)
        PROVE  entries' \in [Entries -> Rows]
    <3>1. [status |-> "open", day |-> d, min |-> n, mark |-> NoMark] \in Rows
      BY DEF Entry, Marks
    <3>2. QED
      BY <2>2, <2>3, <3>1 DEF CreateEntry
  <2>4. ASSUME NEW d \in Days, NEW n \in Minutes, UpdateEntry(e, d, n)
        PROVE  entries' \in [Entries -> Rows]
    <3>1. entries[e] \in Entry
      BY <1>2, <2>4 DEF UpdateEntry
    <3>2. MarkAfter(e, d) \in Marks
      BY <3>1 DEF MarkAfter, Entry, Marks
    <3>3. [entries[e] EXCEPT !.day = d, !.min = n, !.mark = MarkAfter(e, d)] \in Rows
      BY <3>1, <3>2 DEF Entry
    <3>4. entries' = [entries EXCEPT ![e] =
                       [entries[e] EXCEPT !.day = d, !.min = n, !.mark = MarkAfter(e, d)]]
      BY <1>1, <2>4 DEF UpdateEntry
    <3>5. QED
      BY <2>2, <3>3, <3>4
  <2>5. CASE ApproveEntry(e) \/ ReopenEntry(e)
    <3>1. entries[e] \in Entry
      BY <1>2, <2>5 DEF ApproveEntry, ReopenEntry
    <3>2. \A s \in {"open", "approved"} : [entries[e] EXCEPT !.status = s] \in Rows
      BY <3>1 DEF Entry
    <3>3. \E s \in {"open", "approved"} :
             entries' = [entries EXCEPT ![e] = [entries[e] EXCEPT !.status = s]]
      BY <1>1, <2>5 DEF ApproveEntry, ReopenEntry
    <3>4. QED
      BY <2>2, <3>2, <3>3
  <2>6. CASE DeleteEntry(e)
    BY <2>2, <2>6 DEF DeleteEntry
  <2>7. QED
    BY <2>1, <2>3, <2>4, <2>5, <2>6
<1>4. CASE Begin
  <2>1. CASE Initialize(month - 1)
    <3>1. \A e \in Entries : entries[e].status = "approved" =>
             [entries[e] EXCEPT !.mark = History] \in Rows
      BY <1>2 DEF Entry, Marks
    <3>2. QED
      BY <1>1, <2>1, <3>1 DEF Initialize
  <2>2. CASE UNCHANGED entries
    BY <1>1, <2>2
  <2>3. QED
    BY <1>4, <2>1, <2>2 DEF Begin
<1>5. CASE Record
  <2>1. Period \in Marks
    <3>1. Period \in run.left
      BY <1>5, MinInSet DEF Inv, RunType, RunTypes, ListInv, Record, Period
    <3>2. QED
      BY <3>1 DEF Types, TypeOK, Marks
  <2>2. MarkEntries(Period)
    BY <1>5 DEF Record, Account
  <2>3. \A e \in Entries : entries[e].status # "none" =>
           [entries[e] EXCEPT !.mark = Period] \in Rows
    BY <1>2, <2>1 DEF Entry
  <2>4. QED
    BY <1>1, <2>2, <2>3 DEF MarkEntries
<1>6. CASE UNCHANGED entries
  BY <1>1, <1>6
<1>7. QED
  BY <1>3, <1>4, <1>5, <1>6, WhoWrites

LEMMA AbsencesTyped ==
  ASSUME Inv, Types, [Next]_vars
  PROVE  absences' \in [Absences -> Absence \cup {NoRow}]
<1> DEFINE Rows == Absence \cup {NoRow}
<1>1. absences \in [Absences -> Rows]
  BY DEF Types, TypeOK
<1>2. \A a \in Absences : absences[a].status # "none" => absences[a] \in Absence
  BY <1>1 DEF NoRow
<1>3. \A a \in Absences, row \in Rows : [absences EXCEPT ![a] = row] \in [Absences -> Rows]
  BY <1>1
<1>4. ASSUME NEW a \in Absences, NEW s \in AbsenceStatus, absences[a].status # "none",
             SetAbsence(a, s)
      PROVE  absences' \in [Absences -> Rows]
  <2>1. [absences[a] EXCEPT !.status = s] \in Rows
    BY <1>2, <1>4 DEF Absence
  <2>2. absences' = [absences EXCEPT ![a] = [absences[a] EXCEPT !.status = s]]
    BY <1>1, <1>4 DEF SetAbsence
  <2>3. QED
    BY <1>3, <2>1, <2>2
<1>5. ASSUME NEW a \in Absences, NEW from \in Days, NEW to \in Days, NEW s \in AbsenceStatus,
             CreateAbsence(a, from, to, s)
      PROVE  absences' \in [Absences -> Rows]
  <2>1. [status |-> s, from |-> from, to |-> to, mark |-> NoMark, review |-> FALSE] \in Rows
    BY DEF Absence, Marks
  <2>2. QED
    BY <1>3, <1>5, <2>1 DEF CreateAbsence
<1>6. ASSUME NEW a \in Absences,
             \/ \E s \in AbsenceStatus : DecideAbsence(a, s)
             \/ RequestCancellation(a) \/ KeepAbsence(a)
      PROVE  absences' \in [Absences -> Rows]
  BY <1>4, <1>6 DEF DecideAbsence, RequestCancellation, KeepAbsence, AbsenceStatus
<1>7. ASSUME NEW a \in Absences, CancelAbsence(a)
      PROVE  absences' \in [Absences -> Rows]
  <2>1. absences[a] \in Absence
    BY <1>2, <1>7 DEF CancelAbsence, Counts
  <2>2. NeedsReview(a) \in BOOLEAN
    BY DEF NeedsReview
  <2>3. [absences[a] EXCEPT !.status = "cancelled", !.review = NeedsReview(a)] \in Rows
    BY <2>1, <2>2 DEF Absence, AbsenceStatus
  <2>4. absences' = [absences EXCEPT ![a] =
          [absences[a] EXCEPT !.status = "cancelled", !.review = NeedsReview(a)]]
    BY <1>1, <1>7 DEF CancelAbsence
  <2>5. QED
    BY <1>3, <2>3, <2>4
<1>8. CASE ArchiveOwner
  <2>1. \A a \in Absences : \A s \in {"rejected", "approved"} : absences[a].status # "none" =>
           [absences[a] EXCEPT !.status = s] \in Rows
    BY <1>2 DEF Absence, AbsenceStatus
  <2>2. QED
    BY <1>1, <1>8, <2>1 DEF ArchiveOwner
<1>9. CASE Leave
  BY <1>5, <1>6, <1>7, <1>8, <1>9 DEF Leave
<1>10. CASE Begin
  <2>1. CASE Initialize(month - 1)
    <3>1. \A a \in Absences : Counts(a) => [absences[a] EXCEPT !.mark = History] \in Rows
      BY <1>2 DEF Absence, Marks, Counts
    <3>2. QED
      BY <1>1, <2>1, <3>1 DEF Initialize
  <2>2. CASE UNCHANGED absences
    BY <1>1, <2>2
  <2>3. QED
    BY <1>10, <2>1, <2>2 DEF Begin
<1>11. CASE Record
  <2>1. Period \in Marks
    <3>1. Period \in run.left
      BY <1>11, MinInSet DEF Inv, RunType, RunTypes, ListInv, Record, Period
    <3>2. QED
      BY <3>1 DEF Types, TypeOK, Marks
  <2>2. MarkAbsences(Period)
    BY <1>11 DEF Record, Account
  <2>3. \A a \in Absences : absences[a].status # "none" =>
           /\ [absences[a] EXCEPT !.mark = Period] \in Rows
           /\ [absences[a] EXCEPT !.review = FALSE] \in Rows
    BY <1>2, <2>1 DEF Absence
  <2>4. QED
    BY <1>1, <2>2, <2>3 DEF MarkAbsences
<1>12. CASE UNCHANGED absences
  BY <1>1, <1>12
<1>13. QED
  BY <1>9, <1>10, <1>11, <1>12, WhoWrites

\* What is in hand is nothing, what was there before, or what the run has built.
LEMMA DocTyped ==
  ASSUME Inv, Types, [Next]_vars
  PROVE  doc' \in Docs /\ IsFiniteSet(doc'.minutes)
<1>1. CASE Build
  BY <1>1, DocumentTyped, NoneInHand DEF Build, Types
<1>2. CASE doc' = doc \/ doc' = EmptyDoc
  BY <1>2, NoneInHand DEF Types, TypeOK
<1>3. QED
  BY <1>1, <1>2, WhoWrites

LEMMA PeriodTyped ==
  ASSUME Inv, Types, run.at \notin {"idle", "queue", "mark"}
  PROVE  Period \in run.left /\ Period \in queue /\ Period \in Months
BY MinInSet DEF Inv, RunType, RunTypes, ListInv, Period, Types, TypeOK

\* The ledger is finite, and what a document adds to it is typed as the document is.
LEMMA LedgerTyped ==
  ASSUME Inv, Types, [Next]_vars
  PROVE  /\ ledger' \subseteq [period : Months, day : Days, min : Int]
         /\ IsFiniteSet(ledger')
<1>1. CASE Record
  <2> DEFINE old == {row \in ledger :
                       row.period # Period \/ ~\E new \in doc.minutes : new[1] = row.day}
             f == [new \in doc.minutes |-> [period |-> Period, day |-> new[1], min |-> new[2]]]
             added == {[period |-> Period, day |-> new[1], min |-> new[2]] : new \in doc.minutes}
  <2>1. Period \in Months
    BY <1>1, PeriodTyped DEF Record
  <2>2. ledger' = old \cup added
    BY <1>1 DEF Record, Account, RecordDays
  <2>3. doc.minutes \subseteq Days \X Int
    BY DEF Types, TypeOK, Docs
  <2>4. added \subseteq [period : Months, day : Days, min : Int]
    BY <2>1, <2>3
  <2>5. added = {f[new] : new \in doc.minutes}
    OBVIOUS
  <2>6. IsFiniteSet(added)
    <3> HIDE DEF f, added
    <3> QED
      BY <2>5, ImageFinite DEF Types
  <2>7. IsFiniteSet(old) /\ old \subseteq ledger
    BY FS_Subset DEF Types
  <2> HIDE DEF old, added
  <2>8. IsFiniteSet(old \cup added)
    BY <2>6, <2>7, FS_Union
  <2>9. QED
    BY <2>2, <2>4, <2>7, <2>8 DEF Types, TypeOK
<1>2. CASE UNCHANGED ledger
  BY <1>2 DEF Types, TypeOK
<1>3. QED
  BY <1>1, <1>2, WhoWrites

LEMMA ClockTyped ==
  ASSUME Inv, Types, [Next]_vars
  PROVE  /\ month' \in 1..LastMonth + 1 /\ first' \in 0..LastMonth
<1>1. month' \in 1..LastMonth + 1
  <2>1. CASE NextMonth
    BY <2>1 DEF NextMonth, Types, TypeOK
  <2>2. CASE UNCHANGED month
    BY <2>2 DEF Types, TypeOK
  <2>3. QED
    BY <2>1, <2>2, WhoWrites
<1>2. first' \in 0..LastMonth
  <2>1. CASE Begin
    BY <2>1 DEF Begin, Initialize, Types, TypeOK
  <2>2. CASE UNCHANGED first
    BY <2>2 DEF Types, TypeOK
  <2>3. QED
    BY <2>1, <2>2, WhoWrites
<1>3. QED
  BY <1>1, <1>2

\* What a run takes to be owed are months.
LEMMA OwedTyped ==
  ASSUME Inv, Types, [Next]_vars
  PROVE  run'.left \subseteq Months /\ run'.owed \subseteq Months
<1> DEFINE Goal == run'.left \subseteq Months /\ run'.owed \subseteq Months
<1>1. run \in RunTypes /\ run.left \subseteq Months /\ run.owed \subseteq Months
      /\ queue \subseteq Months
  BY DEF Inv, RunType, Types, TypeOK
<1>2. \A left \in SUBSET Months : /\ NextPeriod(left).left \subseteq Months
                                  /\ NextPeriod(left).owed \subseteq Months
  BY DEF NextPeriod, Idle
<1>3. CASE Hours \/ Leave \/ Begin \/ Enqueue \/ Evaluate \/ Build
  <2>1. CASE Hours
    BY <1>1, <2>1 DEF Hours, CreateEntry, ApproveEntry, ReopenEntry, UpdateEntry, DeleteEntry,
       Touch, work, RunTypes
  <2>2. CASE Leave
    BY <1>1, <2>2 DEF Leave, CreateAbsence, DecideAbsence, RequestCancellation, KeepAbsence,
       CancelAbsence, ArchiveOwner, work, RunTypes
  <2>3. CASE Begin \/ Enqueue \/ Evaluate \/ Build
    BY <1>1, <2>3 DEF Begin, Enqueue, Evaluate, Build, RunTypes
  <2>4. QED
    BY <1>3, <2>1, <2>2, <2>3
<1>4. CASE List
  BY <1>1, <1>2, <1>4 DEF List
<1>5. CASE Skip
  BY <1>1, <1>2, <1>5 DEF Skip
<1>6. CASE Snapshot
  <2>1. month - 1 \in 1..LastMonth
    <3>1. month \in 1..LastMonth + 1 /\ run.target \in 1..(month - 1)
      BY <1>6 DEF Types, TypeOK, Inv, QueueInv, Snapshot
    <3>2. QED
      BY <3>1
  <2>2. Backfill(month - 1) \subseteq Months
    BY <2>1 DEF Backfill, Months
  <2>3. QED
    BY <1>1, <1>6, <2>2 DEF Snapshot, RunTypes
<1>7. CASE Send
  BY <1>1, <1>5, <1>7 DEF Send, RunTypes
<1>8. CASE Restart
  BY <1>8 DEF Restart, Idle
<1>9. CASE SendDay \/ NextMonth \/ UNCHANGED vars
  BY <1>1, <1>9 DEF SendDay, NextMonth, vars, work
<1>10. QED
  BY <1>3, <1>4, <1>5, <1>6, <1>7, <1>8, <1>9 DEF Next, Work, Defer, HoldBack, FailToSend,
     Record, Account, RecordRefused, RecordFails

LEMMA NextKeepsTypes ==
  ASSUME Inv, Types, [Next]_vars
  PROVE  Types'
<1>1. Inv'
  BY NextKeepsInv
<1>2. run'.at \in Phases /\ run'.snap \subseteq Entries /\ run'.stale \in BOOLEAN
  BY <1>1, Zenon DEF Inv, RunType, RunTypes
<1> DEFINE m == month'
           k == marker'
           q == queue'
           D == delivered'
<1>3. marker' \in 0..LastMonth /\ queue' \subseteq Months /\ delivered' \subseteq Months
  <2>1. /\ k \in Nat /\ k < m /\ m \in 1..LastMonth + 1
        /\ q \subseteq 1..(m - 1) /\ D \subseteq 1..k
    BY <1>1, ClockTyped DEF Inv, QueueInv
  <2> HIDE DEF m, k, q, D
  <2>2. k \in 0..LastMonth /\ m - 1 \in 0..LastMonth
    BY <2>1
  <2>3. q \subseteq 1..LastMonth /\ D \subseteq 1..LastMonth
    BY <2>1, <2>2
  <2>4. QED
    BY <2>2, <2>3 DEF Months, k, q, D
<1>4. unsent' \subseteq Months
  <2>1. CASE Record
    BY <2>1, PeriodTyped DEF Record, Account, Types, TypeOK
  <2>2. CASE UNCHANGED unsent
    BY <2>2 DEF Types, TypeOK
  <2>3. QED
    BY <2>1, <2>2, WhoWrites
<1>5. mailed' \in [Months -> Docs \cup {NoDoc}]
  <2>1. CASE Send
    BY <2>1 DEF Send, Types, TypeOK
  <2>2. CASE UNCHANGED mailed
    BY <2>2 DEF Types, TypeOK
  <2>3. QED
    BY <2>1, <2>2, WhoWrites
<1>6. kind' \in {"assistant", "employee"} /\ others' \in BOOLEAN
  BY Zenon, WhoWrites DEF Types, TypeOK
<1>7. reached' \in BOOLEAN
  BY <1>1, Zenon DEF Inv, ClockType
<1>8. QED
  BY <1>2, <1>3, <1>4, <1>5, <1>6, <1>7, EntriesTyped, AbsencesTyped, DocTyped, LedgerTyped,
     ClockTyped, OwedTyped DEF Types, TypeOK, Phases

LEMMA InitTypes ==
  ASSUME Init
  PROVE  Types
<1>1. IsFiniteSet({}) /\ doc.minutes = {} /\ ledger = {}
  BY FS_EmptySet DEF Init, EmptyDoc
<1>2. mailed \in [Months -> Docs \cup {NoDoc}] /\ doc \in Docs
  BY NoneInHand DEF Init
<1>3. /\ entries \in [Entries -> Entry \cup {NoRow}]
      /\ absences \in [Absences -> Absence \cup {NoRow}]
  BY DEF Init
<1>4. /\ run.at = "idle" /\ run.left = {} /\ run.snap = {} /\ run.owed = {} /\ run.stale = FALSE
  BY DEF Init, Idle
<1>5. month \in 1..LastMonth + 1 /\ first \in 0..LastMonth /\ marker \in 0..LastMonth
  BY DEF Init
<1>6. kind \in {"assistant", "employee"} /\ others \in BOOLEAN /\ reached \in BOOLEAN
  BY Zenon DEF Init
<1>7. TypeOK
  BY <1>1, <1>2, <1>3, <1>4, <1>5, <1>6 DEF Init, TypeOK
<1>8. QED
  BY <1>1, <1>7 DEF Types

\* Every variable keeps its type: the rows of the tables are complete, the figures of the
\* ledger whole numbers, and the months of the queue months that exist.
THEOREM TypeCorrect == Spec => []TypeOK
<1>1. Init => Inv /\ Types
  BY InitInv, InitTypes
<1>2. Inv /\ Types /\ [Next]_vars => Inv' /\ Types'
  BY NextKeepsInv, NextKeepsTypes
<1>3. Types => TypeOK
  BY DEF Types
<1>4. QED
  BY <1>1, <1>2, <1>3, PTL DEF Spec

----------------------------------------------------------------------------
(* The books                                                               *)

\* A step beside the run: somebody's write, or the passing of time.
Aside ==
  /\ UNCHANGED <<books, doc>> /\ month <= month'
  /\ run'.at = run.at /\ run'.target = run.target /\ run'.left = run.left
  /\ run'.owed = run.owed /\ run'.member = run.member /\ run'.snap \subseteq run.snap

\* The run leaves a month, or ends, with nothing done.
GivesUp ==
  /\ UNCHANGED <<clock, entries, absences, books>> /\ doc' = EmptyDoc
  /\ \/ run'.at = "idle"
     \/ /\ run.at # "idle" /\ run'.at = "check"
        /\ run'.target = run.target

LEMMA NextPeriodAt ==
  ASSUME NEW left
  PROVE  \/ NextPeriod(left).at = "idle"
         \/ /\ NextPeriod(left).at = "check"
            /\ NextPeriod(left).target = run.target
BY DEF NextPeriod, Idle

LEMMA StepKinds ==
  ASSUME Inv, [Next]_vars
  PROVE  \/ /\ Aside
            /\ Hours \/ Leave \/ UNCHANGED <<entries, absences>>
         \/ GivesUp
         \/ Begin \/ Enqueue \/ List \/ Snapshot \/ Evaluate \/ Build \/ Send \/ Record
<1>1. run \in RunTypes /\ month \in Nat
  BY DEF Inv, RunType, QueueInv
<1>2. ASSUME UNCHANGED <<books, clock, doc>>,
             \/ UNCHANGED run
             \/ \E e \in Entries : Touch(e)
             \/ \E b \in BOOLEAN : run' = [run EXCEPT !.stale = b]
      PROVE  Aside
  BY <1>1, <1>2 DEF Touch, clock, Aside, RunTypes
<1>3. CASE Hours \/ Leave
  <2>1. CASE Hours
    <3>1. UNCHANGED <<books, clock, doc>> /\ (UNCHANGED run \/ \E e \in Entries : Touch(e))
      BY <2>1 DEF Hours, CreateEntry, ApproveEntry, ReopenEntry, UpdateEntry, DeleteEntry, work
    <3>2. QED
      BY <1>2, <2>1, <3>1
  <2>2. CASE ArchiveOwner
    <3>1. UNCHANGED <<books, clock, doc>>
      BY <2>2 DEF ArchiveOwner
    <3>2. \E b \in BOOLEAN : run' = [run EXCEPT !.stale = b]
      BY <1>1, <2>2 DEF ArchiveOwner, RunTypes
    <3>3. QED
      BY <1>2, <2>2, <3>1, <3>2 DEF Leave
  <2>3. CASE Leave /\ ~ArchiveOwner
    <3>1. UNCHANGED <<books, clock, doc, run>>
      BY <2>3 DEF Leave, CreateAbsence, DecideAbsence, RequestCancellation, KeepAbsence,
         CancelAbsence, work
    <3>2. QED
      BY <1>2, <2>3, <3>1
  <2>4. QED
    BY <1>3, <2>1, <2>2, <2>3
<1>4. CASE Defer \/ HoldBack \/ FailToSend \/ RecordRefused \/ RecordFails
  <2>1. Skip /\ UNCHANGED <<clock, entries, absences, books>> /\ run.at # "idle"
    BY <1>4 DEF Defer, HoldBack, FailToSend, RecordRefused, RecordFails
  <2>2. QED
    BY <2>1, NextPeriodAt DEF Skip, GivesUp
<1>5. CASE Restart
  BY <1>5 DEF Restart, Idle, GivesUp
<1>6. CASE SendDay \/ UNCHANGED vars
  BY <1>1, <1>6 DEF SendDay, vars, work, books, Aside
<1>7. CASE NextMonth
  BY <1>1, <1>7 DEF NextMonth, work, Aside
<1>8. QED
  BY <1>3, <1>4, <1>5, <1>6, <1>7 DEF Next, Work

LEMMA NoDocIsNone ==
  ASSUME NEW d \in Docs
  PROVE  d # NoDoc
<1>1. "minutes" \in DOMAIN d
  BY DEF Docs
<1>2. DOMAIN NoDoc = {"none"}
  BY DEF NoDoc
<1>3. QED
  BY <1>1, <1>2

LEMMA BooksStay ==
  ASSUME BooksInv, UNCHANGED <<others, delivered, ledger, mailed, unsent>>,
         \/ doc' = doc /\ run'.at = run.at /\ run'.left = run.left
         \/ doc' = EmptyDoc /\ run'.at \notin {"send", "record"}
  PROVE  BooksInv'
<1>1. BooksMatch'
  BY DEF BooksInv, BooksMatch
<1>2. CASE doc' = doc /\ run'.at = run.at /\ run'.left = run.left
  BY <1>1, <1>2 DEF BooksInv, Covers, Period
<1>3. CASE doc' = EmptyDoc /\ run'.at \notin {"send", "record"}
  BY <1>1, <1>3 DEF BooksInv
<1>4. QED
  BY <1>2, <1>3

\* The rows a month gets are those of the document, for it had none before.
LEMMA RecordKeepsBooks ==
  ASSUME Inv, Types, BooksInv, Record
  PROVE  BooksInv'
<1> DEFINE p == Period
           new == {[period |-> p, day |-> x[1], min |-> x[2]] : x \in doc.minutes}
<1>1. p \in queue /\ p \notin delivered /\ p \notin unsent
  BY PeriodTyped DEF Record, Inv, AccountedOnce, BooksInv
<1>2. \A row \in ledger : row.period # p
  BY <1>1 DEF BooksInv, BooksMatch
<1>3. ledger' = ledger \cup new
  BY <1>2 DEF Record, Account, RecordDays
<1>4. delivered' = delivered \cup {p} /\ mailed' = mailed
  BY DEF Record, Account
<1>5. unsent' = IF run.at = "record" /\ Covers(doc) THEN unsent ELSE unsent \cup {p}
  BY DEF Record, Account
<1>6. \A row \in new : row.period = p
  OBVIOUS
<1>7. {<<row.day, row.min>> : row \in new} = doc.minutes
  <2>1. doc.minutes \subseteq Days \X Int
    BY DEF Types, TypeOK, Docs
  <2>2. \A x \in doc.minutes : x = <<x[1], x[2]>>
    BY <2>1
  <2>3. \A row \in new : <<row.day, row.min>> \in doc.minutes
    BY <2>2
  <2>4. ASSUME NEW x \in doc.minutes
        PROVE  x \in {<<row.day, row.min>> : row \in new}
    <3> DEFINE row == [period |-> p, day |-> x[1], min |-> x[2]]
    <3>1. row \in new /\ row.day = x[1] /\ row.min = x[2]
      OBVIOUS
    <3> HIDE DEF row
    <3>2. <<row.day, row.min>> = x
      BY <2>2, <3>1
    <3>3. QED
      BY <3>1, <3>2
  <2>5. QED
    BY <2>3, <2>4
<1> HIDE DEF new, p
<1>8. {r \in ledger' : r.period = p} = new
  BY <1>2, <1>3, <1>6
<1>9. ASSUME NEW q, q # p
      PROVE  {r \in ledger' : r.period = q} = {r \in ledger : r.period = q}
  BY <1>3, <1>6, <1>9
<1>10. \A row \in ledger' : row.period \in delivered'
  BY <1>3, <1>4, <1>6 DEF BooksInv, BooksMatch
<1>11. ASSUME NEW q \in delivered' \ unsent'
       PROVE  /\ mailed'[q] # NoDoc
              /\ {<<row.day, row.min>> : row \in {r \in ledger' : r.period = q}}
                   = mailed'[q].minutes
  <2>1. CASE q = p
    <3>1. run.at = "record" /\ Covers(doc)
      BY <1>5, <1>11, <2>1
    <3>2. mailed[q] = doc
      BY <2>1, <3>1 DEF BooksInv, p
    <3>3. doc # NoDoc
      BY NoDocIsNone DEF Types, TypeOK
    <3>4. QED
      BY <1>4, <1>7, <1>8, <2>1, <3>2, <3>3
  <2>2. CASE q # p
    <3>1. q \in delivered \ unsent
      BY <1>4, <1>5, <1>11, <2>2
    <3>2. /\ mailed[q] # NoDoc
          /\ {<<row.day, row.min>> : row \in {r \in ledger : r.period = q}}
               = mailed[q].minutes
      BY <3>1 DEF BooksInv, BooksMatch
    <3>3. QED
      BY <1>4, <1>9, <2>2, <3>2
  <2>3. QED
    BY <2>1, <2>2
<1>12. ASSUME NEW q \in unsent', NEW row \in ledger', row.period = q
       PROVE  row.min = 0
  <2>1. CASE q = p
    <3>1. ~(run.at = "record" /\ Covers(doc))
      BY <1>1, <1>5, <1>12, <2>1
    <3>2. PICK x \in doc.minutes : row = [period |-> p, day |-> x[1], min |-> x[2]]
      BY <1>8, <1>12, <2>1 DEF new
    <3>3. CASE run.at = "record"
      <4>1. x[2] = 0
        BY <3>1, <3>3 DEF Covers
      <4>2. QED
        BY <3>2, <4>1
    <3>4. CASE run.at # "record"
      <4>1. doc = EmptyDoc
        BY <3>4 DEF Record, BooksInv
      <4>2. QED
        BY <3>2, <4>1 DEF EmptyDoc
    <3>5. QED
      BY <3>3, <3>4
  <2>2. CASE q # p
    <3>1. q \in unsent /\ row \in ledger
      BY <1>3, <1>5, <1>6, <1>12, <2>2
    <3>2. QED
      BY <1>12, <3>1 DEF BooksInv, BooksMatch
  <2>3. QED
    BY <2>1, <2>2
<1>13. BooksMatch'
  BY <1>10, <1>11, <1>12 DEF BooksMatch
<1>14. unsent' \subseteq delivered'
  BY <1>4, <1>5 DEF BooksInv
<1>15. doc' = EmptyDoc /\ run'.at \notin {"send", "record"}
  BY NextPeriodAt DEF Record, Account, Skip
<1>16. QED
  BY <1>13, <1>14, <1>15 DEF BooksInv

LEMMA NextKeepsBooks ==
  ASSUME Inv, Types, BooksInv, [Next]_vars
  PROVE  BooksInv'
<1>1. others' = others
  BY WhoWrites
<1>2. run \in RunTypes
  BY DEF Inv, RunType
<1>3. CASE Aside
  BY <1>1, <1>3, BooksStay DEF Aside, books
<1>4. CASE GivesUp
  BY <1>1, <1>4, BooksStay DEF GivesUp, books
<1>5. CASE Begin \/ Enqueue \/ List \/ Snapshot \/ Evaluate
  <2>1. run.at \notin {"send", "record"} /\ UNCHANGED <<doc, delivered, ledger, mailed, unsent>>
    BY <1>5 DEF Begin, Enqueue, List, Snapshot, Evaluate, books
  <2>2. run'.at \notin {"send", "record"}
    BY <1>2, <1>5, NextPeriodAt DEF Begin, Enqueue, List, Snapshot, Evaluate, RunTypes
  <2>3. doc = EmptyDoc
    BY <2>1 DEF BooksInv
  <2>4. QED
    BY <1>1, <2>1, <2>2, <2>3, BooksStay
<1>6. CASE Build
  <2>1. /\ UNCHANGED <<delivered, ledger, mailed, unsent>>
        /\ \/ run'.at = "send"
           \/ /\ run'.at = "record"
              /\ ~Covers(doc')
    BY <1>2, <1>6 DEF Build, books, RunTypes
  <2>2. BooksMatch'
    BY <2>1 DEF BooksInv, BooksMatch
  <2>3. Covers(doc)' <=> Covers(doc')
    BY <1>1 DEF Covers
  <2>4. QED
    BY <2>1, <2>2, <2>3 DEF BooksInv
<1>7. CASE Send
  <2>1. Period \notin delivered /\ Period \in Months
    BY <1>7, PeriodTyped DEF Send, Inv, AccountedOnce
  <2>2. UNCHANGED <<delivered, ledger, unsent>> /\ mailed' = [mailed EXCEPT ![Period] = doc]
    BY <1>7 DEF Send
  <2>3. DOMAIN mailed = Months
    BY DEF Types, TypeOK
  <2>4. \A q \in delivered : mailed'[q] = mailed[q]
    BY <2>1, <2>2, <2>3
  <2>5. BooksMatch'
    BY <2>2, <2>4 DEF BooksInv, BooksMatch
  <2>6. CASE Skip
    BY <2>2, <2>5, <2>6, NextPeriodAt DEF Skip, BooksInv
  <2>7. CASE run' = [run EXCEPT !.at = "record"] /\ doc' = doc
    <3>1. run'.at = "record" /\ run'.left = run.left
      BY <1>2, <2>7 DEF RunTypes
    <3>2. Period' = Period
      BY <3>1 DEF Period
    <3>3. mailed'[Period'] = doc'
      BY <2>1, <2>2, <2>3, <2>7, <3>2
    <3>4. QED
      BY <2>2, <2>5, <3>1, <3>3 DEF BooksInv
  <2>8. QED
    BY <1>7, <2>6, <2>7 DEF Send
<1>8. CASE Record
  BY <1>8, RecordKeepsBooks
<1>9. QED
  BY <1>3, <1>4, <1>5, <1>6, <1>7, <1>8, StepKinds

LEMMA InitBooks ==
  ASSUME Init
  PROVE  BooksInv
BY DEF Init, Idle, BooksInv, BooksMatch

\* The ledger and the documents the server accepted never disagree: record_payroll_report_
\* delivery writes the figures of the very document that was mailed, whatever crashes, lost
\* answers and failing statements lie between the two.
THEOREM LedgerMatchesDocuments == Spec => []BooksMatch
<1>1. Init => Inv /\ Types /\ BooksInv
  BY InitInv, InitTypes, InitBooks
<1>2. Inv /\ Types /\ BooksInv /\ [Next]_vars => Inv' /\ Types' /\ BooksInv'
  BY NextKeepsInv, NextKeepsTypes, NextKeepsBooks
<1>3. BooksInv => BooksMatch
  BY DEF BooksInv
<1>4. QED
  BY <1>1, <1>2, <1>3, PTL DEF Spec

----------------------------------------------------------------------------
(* Absences that are cancelled after a document has shown them             *)

LEMMA HeldPeriod ==
  ASSUME Inv, run' = [run EXCEPT !.at = run'.at]
  PROVE  run'.left = run.left /\ run'.owed = run.owed /\ Period' = Period
BY DEF Inv, RunType, RunTypes, Period

\* A live absence keeps its days; the month it is marked with stands; a cancelled one stays
\* cancelled.
LEMMA AbsenceKept ==
  ASSUME Inv, Types, [Next]_vars, NEW a \in Live(absences)
  PROVE  /\ absences'[a].status # "none"
         /\ absences'[a].from = absences[a].from /\ absences'[a].to = absences[a].to
         /\ absences[a].mark \in Months => absences'[a].mark = absences[a].mark
         /\ absences[a].status = "cancelled" => absences'[a].status = "cancelled"
         /\ Held => (Counts(a) <=> absences'[a].status \in {"approved", "cancellation_pending"})
         /\ (absences'[a].status = "cancelled" /\ absences[a].status # "cancelled") =>
              CancelAbsence(a)
         /\ (absences[a].status = "cancelled" /\ absences[a].review) =>
              absences'[a].review \/ (Record /\ a \in doc.withdrawn)
<1> DEFINE Goal(row) ==
      /\ row.status # "none"
      /\ row.from = absences[a].from /\ row.to = absences[a].to
      /\ absences[a].mark \in Months => row.mark = absences[a].mark
      /\ absences[a].status = "cancelled" => row.status = "cancelled"
      /\ Held => (Counts(a) <=> row.status \in {"approved", "cancellation_pending"})
      /\ (row.status = "cancelled" /\ absences[a].status # "cancelled") => CancelAbsence(a)
      /\ (absences[a].status = "cancelled" /\ absences[a].review) =>
           row.review \/ (Record /\ a \in doc.withdrawn)
<1>1. a \in Absences /\ absences[a] \in Absence /\ absences[a].status # "none"
  BY RowsTyped DEF Types, Live
<1>2. absences \in [Absences -> Absence \cup {NoRow}]
  BY DEF Types, TypeOK
<1>3. 0 \notin Months /\ -1 \notin Months
  BY DEF Months
<1>4. Goal(absences[a])
  BY <1>1 DEF Counts
<1>5. ASSUME NEW b \in Absences, NEW s, SetAbsence(b, s), ~Held,
             absences[b].status \in {"requested", "approved", "cancellation_pending"},
             s \in {"approved", "rejected", "cancellation_pending"}
      PROVE  Goal(absences'[a])
  <2>1. CASE b # a
    BY <1>1, <1>2, <1>4, <1>5, <2>1 DEF SetAbsence
  <2>2. CASE b = a
    <3>1. absences'[a] = [absences[a] EXCEPT !.status = s]
      BY <1>1, <1>2, <1>5, <2>2 DEF SetAbsence
    <3>2. QED
      BY <1>1, <1>5, <2>2, <3>1 DEF Absence
  <2>3. QED
    BY <2>1, <2>2
<1>6. ASSUME NEW b \in Absences, NEW from \in Days, NEW to \in Days, NEW s \in AbsenceStatus,
             CreateAbsence(b, from, to, s)
      PROVE  Goal(absences'[a])
  <2>1. absences'[a] = absences[a]
    BY <1>1, <1>2, <1>6 DEF CreateAbsence
  <2>2. QED
    BY <1>4, <2>1
<1>7. ASSUME NEW b \in Absences, CancelAbsence(b)
      PROVE  Goal(absences'[a])
  <2>1. CASE b # a
    <3>1. absences'[a] = absences[a]
      BY <1>1, <1>2, <1>7, <2>1 DEF CancelAbsence
    <3>2. QED
      BY <1>4, <3>1
  <2>2. CASE b = a
    <3>1. absences'[a] = [absences[a] EXCEPT !.status = "cancelled", !.review = NeedsReview(a)]
      BY <1>1, <1>2, <1>7, <2>2 DEF CancelAbsence
    <3>2. absences[a].status # "cancelled" /\ ~Held
      BY <1>7, <2>2 DEF CancelAbsence, Counts
    <3>3. /\ absences'[a].status = "cancelled" /\ absences'[a].from = absences[a].from
          /\ absences'[a].to = absences[a].to /\ absences'[a].mark = absences[a].mark
      BY <1>1, <3>1 DEF Absence
    <3>4. QED
      BY <1>7, <2>2, <3>2, <3>3
  <2>3. QED
    BY <2>1, <2>2
<1>8. CASE ArchiveOwner
  <2>1. absences'[a] =
          CASE absences[a].status = "requested" -> [absences[a] EXCEPT !.status = "rejected"]
            [] absences[a].status = "cancellation_pending" ->
                 [absences[a] EXCEPT !.status = "approved"]
            [] OTHER -> absences[a]
    BY <1>1, <1>8 DEF ArchiveOwner
  <2>2. CASE absences[a].status = "requested"
    <3>1. absences'[a] = [absences[a] EXCEPT !.status = "rejected"]
      BY <2>1, <2>2
    <3>2. QED
      BY <1>1, <2>2, <3>1 DEF Absence, Counts
  <2>3. CASE absences[a].status = "cancellation_pending"
    <3>1. absences'[a] = [absences[a] EXCEPT !.status = "approved"]
      BY <2>1, <2>3
    <3>2. QED
      BY <1>1, <2>3, <3>1 DEF Absence, Counts
  <2>4. CASE absences[a].status \notin {"requested", "cancellation_pending"}
    <3>1. absences'[a] = absences[a]
      BY <2>1, <2>4
    <3>2. QED
      BY <1>4, <3>1
  <2>5. QED
    BY <2>2, <2>3, <2>4
<1>9. CASE Leave
  <2>1. CASE ArchiveOwner
    BY <1>8, <2>1
  <2>2. CASE \E b \in Absences :
               \/ \E s \in AbsenceStatus : DecideAbsence(b, s)
               \/ RequestCancellation(b) \/ KeepAbsence(b)
    BY <1>5, <2>2 DEF DecideAbsence, RequestCancellation, KeepAbsence
  <2>3. QED
    BY <1>6, <1>7, <1>9, <2>1, <2>2 DEF Leave
<1>10. CASE Begin
  <2>1. CASE Initialize(month - 1)
    <3>1. \/ absences'[a] = absences[a]
          \/ /\ absences[a].mark = NoMark
             /\ absences'[a] = [absences[a] EXCEPT !.mark = History]
      BY <1>1, <2>1 DEF Initialize
    <3>2. CASE absences'[a] = absences[a]
      BY <1>4, <3>2
    <3>3. CASE /\ absences[a].mark = NoMark
               /\ absences'[a] = [absences[a] EXCEPT !.mark = History]
      BY <1>1, <1>3, <1>10, <3>3 DEF Absence, NoMark, Begin, Held
    <3>4. QED
      BY <3>1, <3>2, <3>3
  <2>2. CASE UNCHANGED absences
    BY <1>4, <2>2
  <2>3. QED
    BY <1>10, <2>1, <2>2 DEF Begin
<1>11. CASE Record
  <2>1. \/ absences'[a] = absences[a]
        \/ /\ absences[a].mark \in {NoMark, History} /\ Counts(a)
           /\ absences'[a] = [absences[a] EXCEPT !.mark = Period]
        \/ /\ a \in doc.withdrawn
           /\ absences'[a] = [absences[a] EXCEPT !.review = FALSE]
    BY <1>1, <1>11 DEF Record, Account, MarkAbsences
  <2>2. CASE absences'[a] = absences[a]
    BY <1>4, <2>2
  <2>3. CASE /\ absences[a].mark \in {NoMark, History} /\ Counts(a)
             /\ absences'[a] = [absences[a] EXCEPT !.mark = Period]
    BY <1>1, <1>3, <2>3 DEF Absence, Counts, NoMark, History
  <2>4. CASE /\ a \in doc.withdrawn
             /\ absences'[a] = [absences[a] EXCEPT !.review = FALSE]
    BY <1>1, <1>11, <2>4 DEF Absence, Counts
  <2>5. QED
    BY <2>1, <2>2, <2>3, <2>4
<1>12. CASE UNCHANGED absences
  BY <1>4, <1>12
<1>13. Goal(absences'[a])
  BY <1>9, <1>10, <1>11, <1>12, WhoWrites
<1>14. QED
  BY <1>13

\* A month past the marker that is off the queue stays off it.
LEMMA PastStays ==
  ASSUME Inv, Types, [Next]_vars, NEW q \in Months, q <= marker, q \notin queue
  PROVE  q <= marker' /\ q \notin queue'
<1>1. marker \in Nat /\ run \in RunTypes
  BY DEF Inv, QueueInv, RunType
<1>2. CASE UNCHANGED <<marker, queue>>
  BY <1>2
<1>3. CASE Enqueue
  <2>1. /\ run.target \in Nat \ {0} /\ marker <= run.target
    BY <1>3 DEF Inv, QueueInv, Enqueue
  <2>2. \A m \in Backfill(run.target) : m > marker
    BY <1>1, <2>1, BackfillRange
  <2>3. QED
    BY <1>1, <1>3, <2>2 DEF Enqueue, Months
<1>4. CASE List
  <2>1. marker' = run.target /\ queue' = queue /\ marker <= run.target /\ run.target \in Nat
    BY <1>1, <1>4 DEF List, Inv, QueueInv, RunTypes
  <2>2. QED
    BY <1>1, <2>1 DEF Months
<1>5. CASE Record
  BY <1>5 DEF Record, Account
<1>6. QED
  BY <1>2, <1>3, <1>4, <1>5, StepKinds DEF Aside, GivesUp, books, Begin, Snapshot, Evaluate,
     Build, Send

LEMMA MailedStays ==
  ASSUME Inv, Types, [Next]_vars, NEW q \in delivered
  PROVE  q \in delivered' /\ mailed'[q] = mailed[q]
<1>1. CASE Send
  <2>1. Period \notin delivered
    BY <1>1, PeriodTyped DEF Send, Inv, AccountedOnce
  <2>2. QED
    BY <1>1, <2>1 DEF Send, Types, TypeOK
<1>2. CASE Record
  BY <1>2 DEF Record, Account
<1>3. QED
  BY <1>1, <1>2, WhoWrites

\* A month is accounted for with the document in hand, or was before.
LEMMA DeliveredNow ==
  ASSUME Inv, Types, BooksInv, [Next]_vars, NEW q \in delivered' \ unsent'
  PROVE  \/ q \in delivered \ unsent /\ mailed'[q] = mailed[q]
         \/ /\ Record /\ run.at = "record" /\ q = Period
            /\ mailed[q] = doc /\ mailed'[q] = doc
<1>1. CASE q \in delivered \ unsent
  BY <1>1, MailedStays
<1>2. CASE q \notin delivered \ unsent
  <2>1. Record
    BY <1>2, WhoWrites
  <2>2. q = Period /\ run.at = "record" /\ Covers(doc) /\ mailed' = mailed
    BY <1>2, <2>1 DEF Record, Account
  <2>3. QED
    BY <2>1, <2>2 DEF BooksInv
<1>3. QED
  BY <1>1, <1>2

LEMMA OwedCovers ==
  ASSUME Inv, Types, ShownInv, [Next]_vars
  PROVE  (Working => queue \subseteq run.owed)'
<1>1. run \in RunTypes
  BY DEF Inv, RunType
<1>2. CASE Aside
  BY <1>2 DEF Aside, books, ShownInv, Working
<1>3. CASE GivesUp \/ Record
  BY <1>3, NextPeriodAt DEF GivesUp, Record, Account, Skip, Working
<1>4. CASE Begin \/ Enqueue \/ List
  BY <1>1, <1>4, NextPeriodAt DEF Begin, Enqueue, List, Working, RunTypes
<1>5. CASE Snapshot
  BY <1>1, <1>5 DEF Snapshot, books, Working, RunTypes
<1>6. CASE Evaluate \/ Build
  BY <1>1, <1>6 DEF Evaluate, Build, books, ShownInv, Working, RunTypes
<1>7. CASE Send
  BY <1>1, <1>7, NextPeriodAt DEF Send, Skip, ShownInv, Working, RunTypes
<1>8. QED
  BY <1>2, <1>3, <1>4, <1>5, <1>6, <1>7, StepKinds

\* What a document in hand shows still counts when it is accounted for.
LEMMA HandStaysGood ==
  ASSUME Inv, Types, BooksInv, ShownInv, [Next]_vars, run'.at \in {"send", "record"},
         NEW x \in doc'.shown
  PROVE  /\ Counts(x[1])' /\ x[2] \in DaysOf(x[1])'
         /\ \/ MonthOf[x[2]] = Period'
            \/ /\ MonthOf[x[2]] < Period'
               /\ MonthOf[x[2]] \notin run'.owed
<1> DEFINE Good(d, p, owed) == MonthOf[d] = p \/ (MonthOf[d] < p /\ MonthOf[d] \notin owed)
<1>1. run \in RunTypes /\ doc \in Docs
  BY DEF Inv, RunType, Types, TypeOK
<1>2. ASSUME run.at \in {"send", "record"}, x \in doc.shown,
             run'.left = run.left, run'.owed = run.owed
      PROVE  Counts(x[1])' /\ x[2] \in DaysOf(x[1])' /\ Good(x[2], Period', run'.owed)
  <2>1. Counts(x[1]) /\ x[2] \in DaysOf(x[1]) /\ Good(x[2], Period, run.owed)
    BY <1>2 DEF ShownInv
  <2>2. x[1] \in Live(absences)
    BY <1>1, <1>2, <2>1 DEF Live, Counts, Docs, Types, TypeOK
  <2>3. Counts(x[1])' /\ DaysOf(x[1])' = DaysOf(x[1])
    BY <1>2, <2>1, <2>2, AbsenceKept DEF Held, Counts, DaysOf
  <2>4. Period' = Period
    BY <1>2 DEF Period
  <2>5. QED
    BY <1>2, <2>1, <2>3, <2>4
<1>3. CASE Aside
  BY <1>2, <1>3 DEF Aside
<1>4. CASE Build
  <2>1. x \in AbsenceRows(Period) \cup LateAbsenceRows(Period)
    <3>1. HoursDoc(Period).shown = {} /\ EmptyDoc.shown = {}
      BY DEF HoursDoc, EmptyDoc
    <3>2. AbsenceDoc(Period).shown = AbsenceRows(Period) \cup LateAbsenceRows(Period)
      BY DEF AbsenceDoc, EmptyDoc
    <3>3. QED
      BY <1>4, <3>1, <3>2 DEF Build, Document
  <2>2. Counts(x[1]) /\ x[2] \in DaysOf(x[1]) /\ Good(x[2], Period, run.owed)
    BY <2>1 DEF AbsenceRows, LateAbsenceRows
  <2>3. UNCHANGED absences /\ run'.owed = run.owed /\ run'.left = run.left
    BY <1>1, <1>4 DEF Build, RunTypes
  <2>4. Period' = Period /\ (Counts(x[1])' <=> Counts(x[1])) /\ DaysOf(x[1])' = DaysOf(x[1])
    BY <2>3 DEF Period, Counts, DaysOf
  <2>5. QED
    BY <2>2, <2>3, <2>4
<1>5. CASE Send
  <2>1. run' = [run EXCEPT !.at = "record"] /\ doc' = doc /\ run.at = "send"
    BY <1>5, NextPeriodAt DEF Send, Skip
  <2>2. run'.left = run.left /\ run'.owed = run.owed
    BY <1>1, <2>1 DEF RunTypes
  <2>3. QED
    BY <1>2, <2>1, <2>2
<1>6. CASE GivesUp \/ Begin \/ Enqueue \/ List \/ Snapshot \/ Evaluate \/ Record
  <2>1. run'.at \notin {"send", "record"}
    BY <1>1, <1>6, NextPeriodAt DEF GivesUp, Begin, Enqueue, List, Snapshot, Evaluate, Record,
       Account, Skip, RunTypes
  <2>2. QED
    BY <2>1
<1>7. QED
  BY <1>3, <1>4, <1>5, <1>6, StepKinds

\* What a document accounted for has shown is marked, and of months off the queue for good.
LEMMA ShownStays ==
  ASSUME Inv, Types, BooksInv, ShownInv, [Next]_vars,
         NEW p \in delivered' \ unsent', NEW x \in mailed'[p].shown
  PROVE  /\ absences'[x[1]].status # "none" /\ absences'[x[1]].mark \in Months
         /\ x[2] \in DaysOf(x[1])' /\ MonthOf[x[2]] <= marker' /\ MonthOf[x[2]] \notin queue'
<1>1. CASE p \in delivered \ unsent /\ mailed'[p] = mailed[p]
  <2>1. /\ absences[x[1]].status # "none" /\ absences[x[1]].mark \in Months
        /\ x[2] \in DaysOf(x[1]) /\ MonthOf[x[2]] <= marker /\ MonthOf[x[2]] \notin queue
    BY <1>1 DEF ShownInv
  <2>2. x \in Absences \X Days
    <3>1. mailed[p] # NoDoc /\ p \in Months
      BY <1>1 DEF BooksInv, BooksMatch, Types, TypeOK
    <3>2. mailed[p] \in Docs
      BY <3>1 DEF Types, TypeOK
    <3>3. QED
      BY <1>1, <3>2 DEF Docs
  <2>3. x[1] \in Live(absences) /\ MonthOf[x[2]] \in Months
    BY <2>1, <2>2 DEF Live, Types, TypeOK, Months
  <2>4. DaysOf(x[1])' = DaysOf(x[1])
    BY <2>3, AbsenceKept DEF DaysOf
  <2>5. QED
    BY <2>1, <2>3, <2>4, AbsenceKept, PastStays
<1>2. CASE Record /\ run.at = "record" /\ p = Period /\ mailed'[p] = doc
  <2>1. x \in doc.shown /\ x \in Absences \X Days
    BY <1>2 DEF Types, TypeOK, Docs
  <2>2. /\ Counts(x[1]) /\ x[2] \in DaysOf(x[1])
        /\ \/ MonthOf[x[2]] = p
           \/ /\ MonthOf[x[2]] < p
              /\ MonthOf[x[2]] \notin run.owed
    BY <1>2, <2>1 DEF ShownInv
  <2>3. x[1] \in Live(absences) /\ x[1] \in Absences
    BY <2>1, <2>2 DEF Live, Counts, Types, TypeOK
  <2>4. DaysOf(x[1])' = DaysOf(x[1]) /\ absences'[x[1]].status # "none"
    BY <2>3, AbsenceKept DEF DaysOf
  <2>5. absences'[x[1]].mark \in Months
    <3>1. CASE absences[x[1]].mark \in {NoMark, History}
      <4>1. absences'[x[1]] = [absences[x[1]] EXCEPT !.mark = p]
        <5>1. <<x[1], x[2]>> = x
          BY <2>1
        <5>2. \E d \in Days : /\ <<x[1], d>> \in doc.shown /\ Counts(x[1])
                              /\ absences[x[1]].mark \in {NoMark, History}
          BY <2>1, <2>2, <3>1, <5>1
        <5>3. absences[x[1]].status # "none"
          BY <2>3 DEF Live
        <5>4. QED
          BY <1>2, <2>3, <5>2, <5>3 DEF Record, Account, MarkAbsences
      <4>2. p \in Months /\ absences[x[1]] \in Absence
        BY <1>2, <2>3, PeriodTyped, RowsTyped DEF Types
      <4>3. QED
        BY <4>1, <4>2 DEF Absence
    <3>2. CASE absences[x[1]].mark \in Months
      BY <2>3, <3>2, AbsenceKept
    <3>3. absences[x[1]].mark \in Marks
      BY <2>3, RowsTyped DEF Types, Absence
    <3>4. QED
      BY <3>1, <3>2, <3>3 DEF Marks
  <2>6. MonthOf[x[2]] <= marker' /\ MonthOf[x[2]] \notin queue'
    <3>1. /\ p \in queue /\ queue \subseteq 1..marker /\ marker \in Nat
      BY <1>2, PeriodTyped DEF Inv, QueueInv, ListInv
    <3>2. queue' = queue \ {p} /\ marker' = marker
      BY <1>2 DEF Record, Account
    <3>3. queue \subseteq run.owed
      BY <1>2 DEF ShownInv, Working
    <3>4. MonthOf[x[2]] \in Nat /\ p \in Nat
      <4>1. MonthOf[x[2]] \in 1..LastMonth
        BY <2>1
      <4>2. QED
        BY <3>1, <4>1
    <3>5. QED
      BY <2>2, <3>1, <3>2, <3>3, <3>4
  <2>7. QED
    BY <2>2, <2>4, <2>5, <2>6
<1>3. QED
  BY <1>1, <1>2, DeliveredNow

LEMMA CancellationsStayHeard ==
  ASSUME Inv, Types, BooksInv, ShownInv, [Next]_vars
  PROVE  CancellationsHeard'
<1> SUFFICES ASSUME NEW a \in Live(absences)', absences'[a].status = "cancelled",
                    NEW p \in delivered' \ unsent', NEW d \in Days, <<a, d>> \in mailed'[p].shown
             PROVE  \/ absences'[a].review
                    \/ \E q \in delivered' : mailed'[q] # NoDoc /\ a \in mailed'[q].withdrawn
  BY DEF CancellationsHeard
<1>1. CASE p \in delivered \ unsent /\ mailed'[p] = mailed[p]
  <2>1. /\ absences[a].status # "none" /\ absences[a].mark \in Months
        /\ d \in DaysOf(a) /\ MonthOf[d] <= marker /\ MonthOf[d] \notin queue
    BY <1>1 DEF ShownInv
  <2>2. a \in Live(absences)
    <3>1. mailed[p] # NoDoc /\ p \in Months
      BY <1>1 DEF BooksInv, BooksMatch, Types, TypeOK
    <3>2. mailed[p] \in Docs
      BY <3>1 DEF Types, TypeOK
    <3>3. <<a, d>> \in Absences \X Days
      BY <1>1, <3>2 DEF Docs
    <3>4. QED
      BY <2>1, <3>3 DEF Live, Types, TypeOK
  <2>3. CASE absences[a].status = "cancelled"
    <3>1. \/ absences[a].review
          \/ \E q \in delivered : mailed[q] # NoDoc /\ a \in mailed[q].withdrawn
      BY <1>1, <2>2, <2>3 DEF ShownInv, CancellationsHeard
    <3>2. CASE \E q \in delivered : mailed[q] # NoDoc /\ a \in mailed[q].withdrawn
      BY <3>2, MailedStays
    <3>3. CASE absences[a].review /\ Record /\ a \in doc.withdrawn
      <4>1. run.at = "record"
        BY <3>3 DEF Record, BooksInv, EmptyDoc
      <4>2. Covers(doc)
        BY <3>3 DEF Covers
      <4>3. mailed[Period] = doc /\ Period \in delivered' /\ mailed' = mailed
        BY <3>3, <4>1, <4>2 DEF BooksInv, Record, Account
      <4>4. doc # NoDoc
        BY NoDocIsNone DEF Types, TypeOK
      <4>5. QED
        BY <3>3, <4>3, <4>4
    <3>4. CASE absences[a].review /\ absences'[a].review
      BY <3>4
    <3>5. QED
      BY <2>2, <2>3, <3>1, <3>2, <3>3, <3>4, AbsenceKept
  <2>4. CASE absences[a].status # "cancelled"
    <3>1. CancelAbsence(a)
      BY <2>2, <2>4, AbsenceKept
    <3>2. NeedsReview(a)
      BY <2>1 DEF NeedsReview
    <3>3. a \in Absences /\ absences[a] \in Absence /\ absences \in [Absences -> Absence \cup {NoRow}]
      BY <2>2, RowsTyped DEF Types, TypeOK
    <3>4. absences'[a] = [absences[a] EXCEPT !.status = "cancelled", !.review = NeedsReview(a)]
      BY <3>1, <3>3 DEF CancelAbsence
    <3>5. absences'[a].review = NeedsReview(a)
      BY <3>3, <3>4 DEF Absence
    <3>6. QED
      BY <3>2, <3>5
  <2>5. QED
    BY <2>3, <2>4
<1>2. CASE Record /\ run.at = "record" /\ p = Period /\ mailed'[p] = doc
  <2>1. Counts(a)
    BY <1>2 DEF ShownInv
  <2>2. a \in Live(absences)
    BY <1>2, <2>1 DEF Types, TypeOK, Docs, Live, Counts
  <2>3. absences'[a].status \in {"approved", "cancellation_pending"}
    BY <1>2, <2>1, <2>2, AbsenceKept DEF Held
  <2>4. QED
    BY <2>3
<1>3. QED
  BY <1>1, <1>2, DeliveredNow

LEMMA NextKeepsShown ==
  ASSUME Inv, Types, BooksInv, ShownInv, [Next]_vars
  PROVE  ShownInv'
<1>1. (Working => queue \subseteq run.owed)'
  BY OwedCovers
<1>2. run'.at \in {"send", "record"} => \A x \in doc'.shown :
        /\ Counts(x[1])' /\ x[2] \in DaysOf(x[1])'
        /\ \/ MonthOf[x[2]] = Period'
           \/ /\ MonthOf[x[2]] < Period'
              /\ MonthOf[x[2]] \notin run'.owed
  BY HandStaysGood
<1>3. \A p \in delivered' \ unsent' : \A x \in mailed'[p].shown :
        /\ absences'[x[1]].status # "none" /\ absences'[x[1]].mark \in Months
        /\ x[2] \in DaysOf(x[1])' /\ MonthOf[x[2]] <= marker' /\ MonthOf[x[2]] \notin queue'
  BY ShownStays
<1>4. QED
  BY <1>1, <1>2, <1>3, CancellationsStayHeard DEF ShownInv

LEMMA InitShown ==
  ASSUME Init
  PROVE  ShownInv
BY DEF Init, Idle, EmptyDoc, ShownInv, Working, CancellationsHeard

\* Whatever a document has shown of an absence that is cancelled later is withdrawn by
\* another, or still marked to be: CANCELLATION_NEEDS_PAYROLL_REVIEW misses none.
THEOREM CancellationsAreHeard == Spec => []CancellationsHeard
<1>1. Init => Inv /\ Types /\ BooksInv /\ ShownInv
  BY InitInv, InitTypes, InitBooks, InitShown
<1>2. Inv /\ Types /\ BooksInv /\ ShownInv /\ [Next]_vars =>
        Inv' /\ Types' /\ BooksInv' /\ ShownInv'
  BY NextKeepsInv, NextKeepsTypes, NextKeepsBooks, NextKeepsShown
<1>3. ShownInv => CancellationsHeard
  BY DEF ShownInv
<1>4. QED
  BY <1>1, <1>2, <1>3, PTL DEF Spec

----------------------------------------------------------------------------
(* Hours                                                                   *)

LEMMA NextKeepsStart ==
  ASSUME Inv, Types, StartInv, [Next]_vars
  PROVE  StartInv'
<1>1. run \in RunTypes /\ month \in Nat /\ first \in Nat /\ marker \in Nat
  BY DEF Inv, RunType, QueueInv, Types, TypeOK
<1>2. CASE Aside
  <2>1. month' \in Nat
    BY ClockTyped
  <2>2. QED
    BY <1>1, <1>2, <2>1 DEF Aside, books, StartInv
<1>3. CASE GivesUp
  BY <1>1, <1>3 DEF GivesUp, books, clock, StartInv
<1>4. CASE Begin
  <2>1. run'.at = "queue" /\ run'.target = month - 1 /\ month > 1
        /\ UNCHANGED <<month, marker, queue>>
    BY <1>1, <1>4 DEF Begin, clock, RunTypes
  <2>2. CASE marker = 0 /\ first = 0
    <3>1. first' = month - 1
      BY <1>4, <2>2 DEF Begin, Initialize
    <3>2. QED
      BY <1>1, <2>1, <2>2, <3>1 DEF StartInv
  <2>3. CASE ~(marker = 0 /\ first = 0)
    <3>1. first' = first
      BY <1>4, <2>3 DEF Begin
    <3>2. QED
      BY <1>1, <2>1, <2>3, <3>1 DEF StartInv
  <2>4. QED
    BY <2>2, <2>3
<1>5. CASE Enqueue
  BY <1>1, <1>5 DEF Enqueue, clock, StartInv, RunTypes
<1>6. CASE List
  <2>1. /\ marker' = run.target /\ UNCHANGED <<month, first, queue>>
        /\ run.at # "idle" /\ run.target \in Nat
        /\ run'.at = "idle" \/ run'.target = run.target
    BY <1>1, <1>6, NextPeriodAt DEF List, clock, RunTypes
  <2>2. QED
    BY <1>1, <2>1 DEF StartInv
<1>7. CASE Snapshot \/ Evaluate \/ Build
  BY <1>1, <1>7 DEF Snapshot, Evaluate, Build, clock, books, StartInv, RunTypes
<1>8. CASE Send
  <2>1. /\ UNCHANGED <<month, first, marker, queue>> /\ run.at # "idle"
        /\ run'.at = "idle" \/ run'.target = run.target
    BY <1>1, <1>8, NextPeriodAt DEF Send, Skip, clock, RunTypes
  <2>2. QED
    BY <1>1, <2>1 DEF StartInv
<1>9. CASE Record
  <2>1. /\ UNCHANGED <<month, first, marker>> /\ run.at # "idle"
        /\ run'.at = "idle" \/ run'.target = run.target
    BY <1>9, NextPeriodAt DEF Record, Account, Skip, clock
  <2>2. QED
    BY <1>1, <2>1 DEF StartInv
<1>10. QED
  BY <1>2, <1>3, <1>4, <1>5, <1>6, <1>7, <1>8, <1>9, StepKinds

\* A month no report will be made for stays one.
LEMMA ClosedStays ==
  ASSUME Inv, Types, StartInv, [Next]_vars, NEW q \in Months, Closed(q)
  PROVE  Closed(q)'
<1>1. run \in RunTypes /\ first \in Nat /\ marker \in Nat /\ q \in Nat \ {0}
  BY DEF Inv, RunType, QueueInv, Types, TypeOK, Months
<1>2. CASE UNCHANGED <<first, marker, queue, delivered>>
  BY <1>2 DEF Closed
<1>3. CASE Begin
  BY <1>1, <1>2, <1>3 DEF Begin, Closed
<1>4. CASE Enqueue
  <2>1. run.target \in Nat \ {0} /\ marker <= run.target /\ first <= run.target
    BY <1>4 DEF Inv, QueueInv, StartInv, Enqueue
  <2>2. q \notin Backfill(run.target)
    BY <1>1, <2>1 DEF Backfill, Closed, StartInv
  <2>3. QED
    BY <1>4, <2>2 DEF Enqueue, Closed
<1>5. CASE List
  <2>1. marker' = run.target /\ UNCHANGED <<first, queue, delivered>>
        /\ marker <= run.target /\ run.target \in Nat
    BY <1>1, <1>5 DEF List, Inv, QueueInv, RunTypes
  <2>2. QED
    BY <1>1, <2>1 DEF Closed
<1>6. CASE Record
  <2>1. Period \in queue
    BY <1>6, PeriodTyped DEF Record
  <2>2. QED
    BY <1>6, <2>1 DEF Record, Account, Closed
<1>7. QED
  BY <1>2, <1>3, <1>4, <1>5, <1>6, StepKinds DEF Aside, GivesUp, books, Snapshot, Evaluate,
     Build, Send

LEMMA DeclaredStays ==
  ASSUME [Next]_vars, NEW d, DeclaredRows(d) # {}
  PROVE  DeclaredRows(d)' # {}
<1>1. CASE Record
  <2>1. PICK row \in ledger : row.day = d
    BY DEF DeclaredRows
  <2>2. ledger' = {r \in ledger : r.period # Period \/ ~\E new \in doc.minutes : new[1] = r.day}
                    \cup {[period |-> Period, day |-> new[1], min |-> new[2]] : new \in doc.minutes}
    BY <1>1 DEF Record, Account, RecordDays
  <2>3. CASE \E new \in doc.minutes : new[1] = d
    <3>1. PICK new \in doc.minutes : new[1] = d
      BY <2>3
    <3> DEFINE r == [period |-> Period, day |-> new[1], min |-> new[2]]
    <3>2. r \in ledger' /\ r.day = d
      BY <2>2, <3>1
    <3> HIDE DEF r
    <3>3. QED
      BY <3>2 DEF DeclaredRows
  <2>4. CASE ~\E new \in doc.minutes : new[1] = d
    <3>1. row \in ledger'
      BY <2>1, <2>2, <2>4
    <3>2. QED
      BY <2>1, <3>1 DEF DeclaredRows
  <2>5. QED
    BY <2>3, <2>4
<1>2. CASE UNCHANGED ledger
  BY <1>2 DEF DeclaredRows
<1>3. QED
  BY <1>1, <1>2, WhoWrites

\* What one write of hours does to a row.
LEMMA HoursSteps ==
  ASSUME Inv, Types, Hours
  PROVE  \E e \in Entries :
           /\ ~Held /\ UNCHANGED <<books, doc>>
           /\ \A i \in Entries \ {e} : entries'[i] = entries[i]
           /\ \/ /\ entries[e].status = "none" /\ entries'[e].mark = NoMark
              \/ /\ run'.snap = run.snap \ {e}
                 /\ entries'[e].status = "none"
              \/ /\ entries[e].status # "none" /\ entries'[e].status = "approved"
                 /\ entries'[e].day = entries[e].day /\ entries'[e].mark = entries[e].mark
              \/ /\ run'.snap = run.snap \ {e} /\ entries[e].status # "none"
                 /\ entries'[e].day = entries[e].day /\ entries'[e].mark = entries[e].mark
              \/ /\ run'.snap = run.snap \ {e} /\ entries[e].status # "none"
                 /\ entries'[e].mark = MarkAfter(e, entries'[e].day)
<1>1. PICK e \in Entries :
         \/ \E d \in Days, n \in Minutes : CreateEntry(e, d, n) \/ UpdateEntry(e, d, n)
         \/ ApproveEntry(e) \/ ReopenEntry(e) \/ DeleteEntry(e)
  BY DEF Hours
<1>2. entries \in [Entries -> Entry \cup {NoRow}]
  BY DEF Types, TypeOK
<1>3. run.snap \subseteq Entries
  BY DEF Types, TypeOK
<1>4. \A row : [entries EXCEPT ![e] = row][e] = row
  BY <1>2
<1>5. entries[e].status # "none" => entries[e] \in Entry
  BY <1>2 DEF NoRow
<1>6. ~Held /\ UNCHANGED <<books, doc>>
  BY <1>1 DEF CreateEntry, UpdateEntry, ApproveEntry, ReopenEntry, DeleteEntry, work
<1>7. \A i \in Entries \ {e} : entries'[i] = entries[i]
  BY <1>1, <1>2 DEF CreateEntry, UpdateEntry, ApproveEntry, ReopenEntry, DeleteEntry
<1>8. Touch(e) => run'.snap = run.snap \ {e}
  BY DEF Touch, Inv, RunType, RunTypes
<1>9. ASSUME NEW d \in Days, NEW n \in Minutes, CreateEntry(e, d, n)
      PROVE  entries[e].status = "none" /\ entries'[e].mark = NoMark
  BY <1>4, <1>9 DEF CreateEntry
<1>10. ASSUME NEW d \in Days, NEW n \in Minutes, UpdateEntry(e, d, n)
       PROVE  /\ run'.snap = run.snap \ {e} /\ entries[e].status # "none"
              /\ entries'[e].mark = MarkAfter(e, entries'[e].day)
  <2>1. entries[e].status # "none" /\ Touch(e)
    BY <1>10 DEF UpdateEntry
  <2>2. entries' = [entries EXCEPT ![e] =
                     [entries[e] EXCEPT !.day = d, !.min = n, !.mark = MarkAfter(e, d)]]
    BY <1>2, <1>10 DEF UpdateEntry
  <2>3. entries'[e] = [entries[e] EXCEPT !.day = d, !.min = n, !.mark = MarkAfter(e, d)]
    BY <1>4, <2>2
  <2>4. entries'[e].day = d /\ entries'[e].mark = MarkAfter(e, d)
    BY <1>5, <2>1, <2>3 DEF Entry
  <2>5. QED
    BY <1>8, <2>1, <2>4
<1>11. CASE ApproveEntry(e)
  <2>1. entries[e].status = "open" /\ entries' = [entries EXCEPT ![e] =
                                                 [entries[e] EXCEPT !.status = "approved"]]
    BY <1>2, <1>11 DEF ApproveEntry
  <2>2. entries'[e] = [entries[e] EXCEPT !.status = "approved"]
    BY <1>4, <2>1
  <2>3. QED
    BY <1>5, <1>6, <1>7, <2>1, <2>2 DEF Entry
<1>12. CASE ReopenEntry(e)
  <2>1. /\ entries[e].status = "approved" /\ Touch(e)
        /\ entries' = [entries EXCEPT ![e] = [entries[e] EXCEPT !.status = "open"]]
    BY <1>2, <1>12 DEF ReopenEntry
  <2>2. entries'[e] = [entries[e] EXCEPT !.status = "open"]
    BY <1>4, <2>1
  <2>3. QED
    BY <1>5, <1>6, <1>7, <1>8, <2>1, <2>2 DEF Entry
<1>13. CASE DeleteEntry(e)
  <2>1. entries' = [entries EXCEPT ![e] = NoRow] /\ Touch(e)
    BY <1>13 DEF DeleteEntry
  <2>2. entries'[e].status = "none"
    BY <1>4, <2>1 DEF NoRow
  <2>3. QED
    BY <1>6, <1>7, <1>8, <2>1, <2>2
<1>14. QED
  BY <1>1, <1>6, <1>7, <1>9, <1>10, <1>11, <1>12, <1>13

LEMMA EntriesStay ==
  ASSUME [Next]_vars, ~Hours, ~Begin, ~Record
  PROVE  entries' = entries
BY WhoWrites

LEMMA NextKeepsSnap ==
  ASSUME Inv, Types, SnapInv, kind = "assistant", [Next]_vars
  PROVE  SnapInv'
<1>1. run \in RunTypes /\ run.snap \subseteq Entries
  BY DEF Inv, RunType, Types, TypeOK
<1>2. CASE Hours /\ Aside
  <2>1. PICK e \in Entries :
          /\ \A i \in Entries \ {e} : entries'[i] = entries[i]
          /\ \/ entries[e].status = "none"
             \/ run'.snap = run.snap \ {e}
             \/ /\ entries[e].status # "none" /\ entries'[e].status = "approved"
                /\ entries'[e].day = entries[e].day
    BY <1>2, HoursSteps
  <2>2. /\ run'.at = run.at /\ run'.member = run.member /\ run'.snap \subseteq run.snap
        /\ Period' = Period
    BY <1>2 DEF Aside, Period
  <2>3. ASSUME Working, NEW i \in run'.snap
        PROVE  /\ entries'[i].status # "none" /\ MonthOf[entries'[i].day] = Period'
               /\ entries[i].status = "approved" => entries'[i].status = "approved"
    <3>1. i \in run.snap /\ entries[i].status # "none" /\ MonthOf[entries[i].day] = Period
      BY <2>2, <2>3 DEF SnapInv
    <3>2. QED
      BY <1>1, <2>1, <2>2, <2>3, <3>1
  <2>4. Working' = Working
    BY <2>2 DEF Working
  <2>5. QED
    BY <2>2, <2>3, <2>4 DEF SnapInv
<1>3. CASE Aside /\ UNCHANGED entries
  BY <1>3 DEF Aside, SnapInv, Working, Period
<1>4. CASE GivesUp \/ Begin \/ Enqueue \/ List \/ Record
  <2>1. ~Working'
    BY <1>1, <1>4, NextPeriodAt DEF GivesUp, Begin, Enqueue, List, Record, Account, Skip,
       Working, RunTypes
  <2>2. QED
    BY <2>1 DEF SnapInv
<1>5. CASE Snapshot
  <2>1. /\ run'.at = "members" /\ run'.left = run.left /\ UNCHANGED entries
        /\ run'.snap = {e \in Live(entries) : MonthOf[entries[e].day] = Period}
    BY <1>1, <1>5 DEF Snapshot, RunTypes
  <2>2. Period' = Period
    BY <2>1 DEF Period
  <2>3. QED
    BY <2>1, <2>2 DEF SnapInv, Live
<1>6. CASE Evaluate
  <2>1. /\ run'.at = IF others \/ Member THEN "build" ELSE "settle"
        /\ run'.left = run.left /\ run'.snap = run.snap /\ run'.member = Member
        /\ UNCHANGED entries /\ run.at = "members"
    BY <1>1, <1>6 DEF Evaluate, RunTypes
  <2>2. Period' = Period
    BY <2>1 DEF Period
  <2>3. \A e \in run.snap : e \in Live(entries) /\ MonthOf[entries[e].day] = Period
    BY <1>1, <2>1 DEF SnapInv, Working, Live, Types, TypeOK
  <2>4. CASE Member
    <3>1. Ready(Period)
      BY <1>6, <2>4 DEF Evaluate
    <3>2. \A e \in run.snap : entries[e].status # "open" /\ entries[e] \in Entry
      BY <2>3, <3>1, RowsTyped DEF Ready, Types
    <3>3. \A e \in run.snap : entries[e].status = "approved"
      BY <3>2 DEF Entry
    <3>4. run'.at = "build" /\ run'.member = TRUE
      BY <2>1, <2>4
    <3>5. QED
      BY <2>1, <2>2, <2>3, <3>3, <3>4 DEF SnapInv, Live
  <2>5. CASE ~Member
    <3>1. run.snap = {}
      BY <2>3, <2>5 DEF Member
    <3>2. QED
      BY <2>1, <3>1 DEF SnapInv
  <2>6. QED
    BY <2>4, <2>5
<1>7. CASE Build
  <2>1. /\ run'.at \in {"send", "record"} /\ run'.left = run.left /\ run'.snap = run.snap
        /\ run'.member = run.member /\ UNCHANGED entries /\ run.at = "build"
    BY <1>1, <1>7 DEF Build, RunTypes
  <2>2. Period' = Period
    BY <2>1 DEF Period
  <2>3. QED
    BY <2>1, <2>2 DEF SnapInv, Working
<1>8. CASE Send
  <2>1. CASE Skip
    <3>1. ~Working'
      BY <2>1, NextPeriodAt DEF Skip, Working
    <3>2. QED
      BY <3>1 DEF SnapInv
  <2>2. CASE run' = [run EXCEPT !.at = "record"]
    <3>1. /\ run'.at = "record" /\ run'.left = run.left /\ run'.snap = run.snap
          /\ run'.member = run.member /\ UNCHANGED entries /\ run.at = "send"
      BY <1>1, <1>8, <2>2 DEF Send, RunTypes
    <3>2. Period' = Period
      BY <3>1 DEF Period
    <3>3. QED
      BY <3>1, <3>2 DEF SnapInv, Working
  <2>3. QED
    BY <1>8, <2>1, <2>2 DEF Send
<1>9. ASSUME Aside, Leave, ~Hours, ~Begin, ~Record
      PROVE  SnapInv'
  BY <1>3, <1>9, EntriesStay
<1>10. QED
  BY <1>2, <1>3, <1>4, <1>5, <1>6, <1>7, <1>8, <1>9, StepKinds

\* A document's rows and what it will mark.
LEMMA NextKeepsDoc ==
  ASSUME Inv, Types, ShownInv, StartInv, SnapInv, DocInv, MarksInv, kind = "assistant",
         [Next]_vars
  PROVE  DocInv'
<1>1. run \in RunTypes /\ run.snap \subseteq Entries /\ doc.late \subseteq Days
  BY DEF Inv, RunType, Types, TypeOK, Docs
<1>2. \A d \in Days : MonthOf[d] \in Months
  BY DEF Months
<1>3. ASSUME run.at \in {"send", "record"}, entries' = entries, doc' = doc,
             run'.left = run.left, run'.snap \subseteq run.snap
      PROVE  DocInv'
  <2>1. Period' = Period
    BY <1>3 DEF Period
  <2>2. \A d \in doc.late : Closed(MonthOf[d]) => Closed(MonthOf[d])'
    BY <1>1, <1>2, ClosedStays
  <2>3. \A e \in run'.snap : HasRow(entries[e].day)
    BY <1>3 DEF DocInv
  <2>4. \A d \in doc.late : MonthOf[d] < Period /\ (HasRow(d) \/ Closed(MonthOf[d]))
    BY <1>3 DEF DocInv
  <2>5. \A d : HasRow(d)' = HasRow(d)
    BY <1>3 DEF HasRow
  <2>6. QED
    BY <1>3, <2>1, <2>2, <2>3, <2>4, <2>5 DEF DocInv
<1>4. CASE Aside
  <2>1. CASE run.at \in {"send", "record"}
    <3>1. ~Hours /\ ~Begin
      BY <2>1, HoursSteps DEF Begin, Held
    <3>2. CASE Record
      BY <1>4, <3>2, NextPeriodAt DEF Record, Account, Skip, DocInv
    <3>3. QED
      BY <1>3, <1>4, <2>1, <3>1, <3>2, EntriesStay DEF Aside
  <2>2. CASE run.at \notin {"send", "record"}
    BY <1>4, <2>2 DEF Aside, DocInv
  <2>3. QED
    BY <2>1, <2>2
<1>5. CASE GivesUp \/ Begin \/ Enqueue \/ List \/ Snapshot \/ Evaluate \/ Record
  <2>1. run'.at \notin {"send", "record"}
    BY <1>1, <1>5, NextPeriodAt DEF GivesUp, Begin, Enqueue, List, Snapshot, Evaluate, Record,
       Account, Skip, RunTypes
  <2>2. QED
    BY <2>1 DEF DocInv
<1>6. CASE Build
  <2>1. /\ run'.left = run.left /\ run'.snap = run.snap /\ run.at = "build"
        /\ UNCHANGED <<entries, first, marker, queue, delivered>>
    BY <1>1, <1>6 DEF Build, books, RunTypes
  <2>2. Period' = Period /\ \A q : Closed(q)' = Closed(q)
    BY <2>1 DEF Period, Closed
  <2>3. CASE ~run.member
    <3>1. run.snap = {} /\ doc' = EmptyDoc
      BY <1>6, <2>1, <2>3 DEF Build, SnapInv, Working
    <3>2. QED
      BY <2>1, <3>1 DEF DocInv, EmptyDoc
  <2>4. CASE run.member
    <3> DEFINE late == LateDays(Period, run.owed)
    <3>1. /\ doc'.minutes = HoursRows(Period) \cup CorrectionRows(late)
          /\ doc'.late = late
      BY <1>6, <2>4 DEF Build, Document, HoursDoc, EmptyDoc
    <3>2. ASSUME NEW e \in run.snap
          PROVE  HasRow(entries[e].day)'
      <4>1. /\ e \in Live(entries) /\ entries[e].status = "approved"
            /\ MonthOf[entries[e].day] = Period
        BY <1>1, <2>1 DEF SnapInv, Working, Live, Types, TypeOK
      <4>2. entries[e].day \in Days
        BY <4>1, RowsTyped DEF Types, Entry
      <4>3. e \in WorkOn(entries[e].day)
        BY <4>1 DEF WorkOn, EntriesOn
      <4>4. <<entries[e].day, Net(WorkOn(entries[e].day))>> \in doc'.minutes
        BY <3>1, <4>1, <4>2, <4>3 DEF HoursRows
      <4>5. QED
        BY <2>1, <4>4 DEF HasRow
    <3>3. ASSUME NEW d \in late
          PROVE  MonthOf[d] < Period /\ (HasRow(d)' \/ Closed(MonthOf[d]))
      <4>1. d \in Days /\ MonthOf[d] < Period /\ MonthOf[d] \notin run.owed
        BY DEF LateDays
      <4>2. CASE LedgerBacked(d)
        <5>1. <<d, Delta(d)>> \in doc'.minutes
          BY <3>1, <4>2 DEF CorrectionRows
        <5>2. QED
          BY <4>1, <5>1 DEF HasRow
      <4>3. CASE ~LedgerBacked(d)
        <5>1. CASE MonthOf[d] \in delivered
          <6>1. PICK e \in MarkedOn(d) : TRUE
            BY <4>3, <5>1 DEF LedgerBacked
          <6>2. e \in Live(entries) /\ entries[e].day = d /\ entries[e].mark # NoMark
            BY DEF MarkedOn, WorkOn, EntriesOn
          <6>3. Closed(MonthOf[d])
            BY <4>3, <6>2 DEF MarksInv, LedgerBacked
          <6>4. QED
            BY <4>1, <6>3
        <5>2. CASE MonthOf[d] \notin delivered
          <6>1. Period \in queue /\ queue \subseteq 1..marker /\ marker \in Nat
            BY <2>1, PeriodTyped DEF Inv, QueueInv, ListInv
          <6>2. queue \subseteq run.owed
            BY <2>1 DEF ShownInv, Working
          <6>3. QED
            BY <4>1, <5>2, <6>1, <6>2 DEF Closed
        <5>3. QED
          BY <5>1, <5>2
      <4>4. QED
        BY <4>2, <4>3
    <3> HIDE DEF late
    <3>4. QED
      BY <2>1, <2>2, <3>1, <3>2, <3>3 DEF DocInv, HasRow
  <2>5. QED
    BY <2>3, <2>4
<1>7. CASE Send
  <2>1. CASE Skip
    BY <2>1, NextPeriodAt DEF Skip, DocInv
  <2>2. CASE run' = [run EXCEPT !.at = "record"] /\ doc' = doc
    <3>1. run'.left = run.left /\ run'.snap = run.snap /\ run.at = "send" /\ entries' = entries
      BY <1>1, <1>7, <2>2 DEF Send, RunTypes
    <3>2. QED
      BY <1>3, <2>2, <3>1
  <2>3. QED
    BY <1>7, <2>1, <2>2 DEF Send
<1>8. QED
  BY <1>4, <1>5, <1>6, <1>7, StepKinds

LEMMA MarkStays ==
  ASSUME Inv, Types, StartInv, MarksInv, [Next]_vars,
         NEW e \in Entries, entries[e].status # "none", entries[e].mark # NoMark,
         entries'[e].day = entries[e].day
  PROVE  DeclaredRows(entries[e].day)' # {} \/ Closed(MonthOf[entries[e].day])'
<1> DEFINE d == entries[e].day
<1>1. e \in Live(entries)
  BY DEF Live, Types, TypeOK
<1>2. MonthOf[d] \in Months
  BY <1>1, RowsTyped DEF Types, Entry, Months
<1>3. DeclaredRows(d) # {} \/ Closed(MonthOf[d])
  BY <1>1 DEF MarksInv
<1>4. \A x : DeclaredRows(x) # {} => DeclaredRows(x)' # {}
  BY DeclaredStays
<1>5. \A q \in Months : Closed(q) => Closed(q)'
  BY ClosedStays
<1>6. QED
  BY <1>2, <1>3, <1>4, <1>5 DEF DeclaredRows, Closed

\* A row in the document becomes one in the ledger.
LEMMA RowsAreDeclared ==
  ASSUME Record, NEW d, HasRow(d)
  PROVE  DeclaredRows(d)' # {}
<1>1. PICK new \in doc.minutes : new[1] = d
  BY DEF HasRow
<1> DEFINE r == [period |-> Period, day |-> new[1], min |-> new[2]]
<1>2. r \in ledger' /\ r.day = d
  BY <1>1 DEF Record, Account, RecordDays
<1> HIDE DEF r
<1>3. QED
  BY <1>2 DEF DeclaredRows

LEMMA HoursKeepMarks ==
  ASSUME Inv, Types, StartInv, MarksInv, [Next]_vars, Hours
  PROVE  MarksInv'
<1>1. PICK e \in Entries :
        /\ \A i \in Entries \ {e} : entries'[i] = entries[i]
        /\ \/ entries'[e].mark = NoMark \/ entries'[e].status = "none"
           \/ /\ entries[e].status # "none"
              /\ entries'[e].day = entries[e].day /\ entries'[e].mark = entries[e].mark
           \/ /\ entries[e].status # "none"
              /\ entries'[e].mark = MarkAfter(e, entries'[e].day)
  BY HoursSteps
<1>2. DOMAIN entries' = Entries
  BY NextKeepsTypes DEF Types, TypeOK
<1>3. SUFFICES ASSUME NEW i \in Entries, entries'[i].status # "none", entries'[i].mark # NoMark
               PROVE  DeclaredRows(entries[i].day)' # {} \/ Closed(MonthOf[entries[i].day])'
  BY <1>2 DEF MarksInv, Live
<1>4. CASE i # e
  BY <1>1, <1>3, <1>4, MarkStays
<1>5. CASE i = e
  <2>1. CASE /\ entries[e].status # "none"
             /\ entries'[e].day = entries[e].day /\ entries'[e].mark = entries[e].mark
    BY <1>3, <1>5, <2>1, MarkStays
  <2>2. CASE /\ entries[e].status # "none"
             /\ entries'[e].mark = MarkAfter(e, entries'[e].day)
    <3>1. /\ DeclaredRows(entries[e].day) = {} /\ entries[e].mark # NoMark
          /\ MonthOf[entries'[e].day] = MonthOf[entries[e].day]
      BY <1>3, <1>5, <2>2 DEF MarkAfter
    <3>2. e \in Live(entries)
      BY <2>2 DEF Live, Types, TypeOK
    <3>3. Closed(MonthOf[entries[e].day])
      BY <3>1, <3>2 DEF MarksInv
    <3>4. MonthOf[entries[e].day] \in Months
      BY <3>2, RowsTyped DEF Types, Entry, Months
    <3>5. QED
      BY <1>5, <3>1, <3>3, <3>4, ClosedStays
  <2>3. QED
    BY <1>1, <1>3, <1>5, <2>1, <2>2
<1>6. QED
  BY <1>4, <1>5

LEMMA NextKeepsMarks ==
  ASSUME Inv, Types, BooksInv, StartInv, SnapInv, DocInv, MarksInv, [Next]_vars
  PROVE  MarksInv'
<1>1. DOMAIN entries' = Entries
  BY NextKeepsTypes DEF Types, TypeOK
<1>2. \A d \in Days : MonthOf[d] \in Months
  BY DEF Months
<1>3. SUFFICES ASSUME ~Hours, NEW e \in Entries,
                      entries'[e].status # "none", entries'[e].mark # NoMark
               PROVE  DeclaredRows(entries[e].day)' # {} \/ Closed(MonthOf[entries[e].day])'
  BY <1>1, HoursKeepMarks DEF MarksInv, Live
<1>4. CASE entries'[e] = entries[e]
  BY <1>3, <1>4, MarkStays
<1>5. ASSUME entries'[e] # entries[e]
      PROVE  /\ entries[e].status # "none" /\ entries[e].mark = NoMark
             /\ entries'[e].day = entries[e].day /\ entries[e].day \in Days
             /\ \/ /\ Begin /\ marker = 0 /\ first = 0
                   /\ first' = month - 1 /\ MonthOf[entries[e].day] < month - 1
                \/ Record /\ (e \in run.snap \/ entries[e].day \in doc.late)
  <2>1. Begin \/ Record
    BY <1>1, <1>3, <1>5, EntriesStay
  <2>2. entries[e].status # "none" => entries[e] \in Entry
    BY DEF Types, TypeOK, NoRow
  <2>3. CASE Begin
    <3>1. marker = 0 /\ first = 0 /\ Initialize(month - 1)
      BY <1>5, <2>3 DEF Begin
    <3>2. /\ entries[e].status = "approved" /\ entries[e].mark = NoMark
          /\ MonthOf[entries[e].day] < month - 1
          /\ entries'[e] = [entries[e] EXCEPT !.mark = History]
      BY <1>5, <3>1 DEF Initialize
    <3>3. QED
      BY <2>2, <2>3, <3>1, <3>2 DEF Initialize, Entry
  <2>4. CASE Record
    <3>1. /\ entries[e].status # "none" /\ entries[e].mark = NoMark
          /\ e \in run.snap \/ entries[e].day \in doc.late
          /\ entries'[e] = [entries[e] EXCEPT !.mark = Period]
      BY <1>5, <2>4 DEF Record, Account, MarkEntries
    <3>2. QED
      BY <2>2, <2>4, <3>1 DEF Entry
  <2>5. QED
    BY <2>1, <2>3, <2>4
<1>6. CASE entries'[e] # entries[e]
  <2>1. CASE Begin /\ marker = 0 /\ first = 0
    <3>1. /\ first' = month - 1 /\ UNCHANGED <<queue, delivered>>
          /\ MonthOf[entries[e].day] < month - 1 /\ entries'[e].day = entries[e].day
      BY <1>5, <1>6, <2>1 DEF Begin, Record, Idle
    <3>2. queue = {} /\ delivered = {}
      BY <2>1 DEF StartInv, Inv, QueueInv
    <3>3. QED
      BY <3>1, <3>2 DEF Closed
  <2>2. CASE Record
    <3>1. /\ entries'[e].day = entries[e].day /\ entries[e].day \in Days
          /\ e \in run.snap \/ entries[e].day \in doc.late
      BY <1>5, <1>6, <2>2 DEF Begin, Record
    <3>2. run.at = "record"
      <4>1. CASE run.at = "settle"
        <5>1. run.snap = {} /\ doc.late = {}
          BY <4>1 DEF SnapInv, Working, BooksInv, EmptyDoc
        <5>2. QED
          BY <3>1, <5>1
      <4>2. QED
        BY <2>2, <4>1 DEF Record
    <3>3. HasRow(entries[e].day) \/ Closed(MonthOf[entries[e].day])
      BY <3>1, <3>2 DEF DocInv
    <3>4. QED
      BY <1>2, <2>2, <3>1, <3>3, RowsAreDeclared, ClosedStays
  <2>3. QED
    BY <1>5, <1>6, <2>1, <2>2
<1>7. QED
  BY <1>4, <1>6

LEMMA NextKeepsHours ==
  ASSUME Inv, Types, BooksInv, ShownInv, HoursInv, [Next]_vars
  PROVE  HoursInv'
<1>1. kind' = kind
  BY WhoWrites
<1>2. QED
  BY <1>1, NextKeepsStart, NextKeepsSnap, NextKeepsDoc, NextKeepsMarks DEF HoursInv

LEMMA InitHours ==
  ASSUME Init
  PROVE  HoursInv
BY DEF Init, Idle, NoRow, Live, HoursInv, StartInv, SnapInv, Working, DocInv, MarksInv

\* What is marked of a month accounted for has rows in the ledger.
LEMMA MarksHaveRows ==
  ASSUME Types, MarksInv, NEW d \in Days, MonthOf[d] \in delivered, MarkedOn(d) # {}
  PROVE  DeclaredRows(d) # {}
<1>1. PICK e \in MarkedOn(d) : TRUE
  OBVIOUS
<1>2. e \in Live(entries) /\ entries[e].day = d /\ entries[e].mark # NoMark
  BY <1>1 DEF MarkedOn, WorkOn, EntriesOn
<1>3. QED
  BY <1>2 DEF MarksInv, Closed

LEMMA InvariantsAccount ==
  ASSUME Types, HoursInv
  PROVE  HoursAccountedFor
<1>1. SUFFICES ASSUME MarksInv, NEW d \in Days, MonthOf[d] \in delivered, ~Blocked(d)
               PROVE  Declared(d) + (IF Wanted(d) THEN Delta(d) ELSE 0) = Net(WorkOn(d))
  BY DEF HoursInv, HoursAccountedFor
<1>2. /\ Declared(d) \in Int /\ (DeclaredRows(d) = {} => Declared(d) = 0)
  BY DeclaredIsInt DEF Types
<1>3. Net(WorkOn(d)) \in Int
  BY NetIsInt DEF Types, WorkOn, EntriesOn
<1>4. CASE Wanted(d)
  <2>1. LedgerBacked(d)
    BY <1>1, MarksHaveRows DEF LedgerBacked
  <2>2. Delta(d) = Net(WorkOn(d)) - Declared(d)
    BY <2>1 DEF Delta
  <2>3. QED
    BY <1>2, <1>3, <1>4, <2>2
<1>5. CASE ~Wanted(d)
  <2>1. DeclaredRows(d) = {} /\ WorkOn(d) \ MarkedOn(d) = {}
    BY <1>1, <1>5 DEF Wanted
  <2>2. WorkOn(d) = {}
    BY <1>1, <2>1, MarksHaveRows
  <2>3. QED
    BY <1>2, <1>5, <2>1, <2>2, NetOfNone
<1>6. QED
  BY <1>4, <1>5

\* The hours of a month accounted for are declared to the minute, however often its work
\* is edited, reopened, moved or deleted afterwards, and whatever runs were cut short.
THEOREM HoursAreAccountedFor == Spec => []HoursAccountedFor
<1>1. Init => Inv /\ Types /\ BooksInv /\ ShownInv /\ HoursInv
  BY InitInv, InitTypes, InitBooks, InitShown, InitHours
<1>2. Inv /\ Types /\ BooksInv /\ ShownInv /\ HoursInv /\ [Next]_vars =>
        Inv' /\ Types' /\ BooksInv' /\ ShownInv' /\ HoursInv'
  BY NextKeepsInv, NextKeepsTypes, NextKeepsBooks, NextKeepsShown, NextKeepsHours
<1>3. Types /\ HoursInv => HoursAccountedFor
  BY InvariantsAccount
<1>4. QED
  BY <1>1, <1>2, <1>3, PTL DEF Spec

=============================================================================
