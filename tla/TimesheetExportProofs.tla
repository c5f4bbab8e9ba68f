------------------------ MODULE TimesheetExportProofs ------------------------
(***************************************************************************)
(* Proofs about TimesheetExport for any number of months, handlers,        *)
(* changes and faults, and both kinds of upload run.                       *)
(*                                                                         *)
(* Types says more than TypeOK: what each record holds, and that a month   *)
(* has changed at most as often as anything has.  FreshInv is what makes   *)
(* StaleIsQueued inductive: a run that still holds a document, or has just *)
(* archived one, may delete the row of its month, so a change it does not  *)
(* show must not rely on that row.                                         *)
(*                                                                         *)
(* BackfillInv does the same for NoMonthSkipped: what a run has yet to     *)
(* mark stays queued or archived while others queue, mark and delete.      *)
(***************************************************************************)
EXTENDS TimesheetExport, WellFoundedInduction, TLAPS

USE ExportAssumption

Docs == {NoDoc} \cup UNION {[1..m -> Nat] : m \in Months}

Run == [at : Steps, target : Nat, through : Nat, left : SUBSET Nat, doc : Docs]

Busy == {"check", "build", "upload", "delete"}

RunType(r) ==
  /\ r \in Run /\ r.left \subseteq 1..month - 1
  /\ r.at = "mark" => r.target \in 1..month - 1
  /\ r.left # {} <=> r.at \in Busy
  /\ IF r.at \in {"upload", "delete"} THEN r.doc \in [1..Min(r.left) -> Nat] ELSE r.doc = NoDoc

DataType ==
  /\ month \in 1..LastMonth + 1 /\ reached \in BOOLEAN /\ enabled \in BOOLEAN
  /\ ledger \in [Months -> Nat] /\ settled \in [Months -> BOOLEAN]
  /\ queue \subseteq 1..month - 1 /\ marker \in 0..month - 1
  /\ archive \in [Months -> Docs]
  /\ \A m \in Months : archive[m] # NoDoc => m < month /\ archive[m] \in [1..m -> Nat]
  /\ uploader \in [Uploaders -> Run]
  /\ editor \in [Editors -> SUBSET {k \in Months : k <= month}]
  /\ missed \subseteq Months /\ begun \in 1..month
  /\ used \in [changes : 0..MaxChanges, faults : 0..MaxFaults]
  /\ \A m \in Months : ledger[m] <= used.changes

Types == DataType /\ \A u \in Uploaders : RunType(uploader[u])

----------------------------------------------------------------------------

LEMMA LeastNumber ==
  ASSUME NEW S \in SUBSET Nat, S # {}
  PROVE  \E m \in S : \A n \in S : m <= n
<1> DEFINE Less == {p \in Nat \X Nat : p[1] < p[2]}
<1>1. IsWellFoundedOn(Less, Nat)
  BY NatLessThanWellFounded DEF OpToRel
<1>2. PICK m \in S : \A y \in S : ~(<<y, m>> \in Less)
  BY <1>1, WFMin
<1>3. ASSUME NEW y \in S
      PROVE  m <= y
  <2>1. ~(y < m)
    BY <1>2
  <2>2. QED
    BY <2>1
<1>4. QED
  BY <1>3

\* The first month of a run's list is on it.
LEMMA MinInSet ==
  ASSUME NEW S \in SUBSET Nat, S # {}
  PROVE  Min(S) \in S
<1>1. PICK m \in S : \A n \in S : m <= n
  BY LeastNumber
<1>2. QED
  BY <1>1 DEF Min

LEMMA NoDocIsEmpty ==
  ASSUME NEW m \in Months, NEW f \in [1..m -> Nat]
  PROVE  f # NoDoc
<1>1. 1 \in DOMAIN f
  BY DEF Months
<1>2. 1 \notin DOMAIN NoDoc
  BY DEF NoDoc
<1>3. QED
  BY <1>1, <1>2

LEMMA DocTyped ==
  ASSUME Types, NEW m \in Months
  PROVE  Doc(m) \in [1..m -> Nat] /\ Doc(m)[m] = ledger[m]
BY DEF Types, DataType, Doc, Months

----------------------------------------------------------------------------
(* Types                                                                   *)

\* The months of a run are over.
LEMMA ListTyped ==
  ASSUME Types, NEW u \in Uploaders, uploader[u].at \in Busy
  PROVE  /\ Min(uploader[u].left) \in uploader[u].left
         /\ Min(uploader[u].left) \in Months /\ Min(uploader[u].left) < month
<1>1. /\ uploader[u].left \subseteq 1..month - 1 /\ uploader[u].left # {}
      /\ month \in 1..LastMonth + 1
  BY DEF Types, RunType, DataType
<1>2. Min(uploader[u].left) \in uploader[u].left
  BY <1>1, MinInSet
<1>3. QED
  BY <1>1, <1>2 DEF Months

LEMMA PastGrows ==
  ASSUME NEW a \in Nat, NEW b \in Nat, a <= b
  PROVE  1..a - 1 \subseteq 1..b - 1
OBVIOUS

LEMMA RunsStay ==
  ASSUME Types, UNCHANGED uploader, month' \in Nat, month <= month'
  PROVE  (\A u \in Uploaders : RunType(uploader[u]))'
<1>1. month \in Nat
  BY DEF Types, DataType
<1>2. 1..month - 1 \subseteq 1..month' - 1
  BY <1>1, PastGrows
<1>3. ASSUME NEW u \in Uploaders
      PROVE  RunType(uploader[u])'
  <2>1. RunType(uploader[u])
    BY DEF Types
  <2> DEFINE over == 1..month - 1
  <2> HIDE DEF over
  <2>2. /\ uploader[u] \in Run /\ uploader[u].left \subseteq over
        /\ uploader[u].at = "mark" => uploader[u].target \in over
    BY <2>1 DEF RunType, over
  <2>3. over \subseteq 1..month' - 1
    BY <1>2 DEF over
  <2>4. QED
    BY <2>1, <2>2, <2>3 DEF RunType
<1>4. QED
  BY <1>3

LEMMA RunMoves ==
  ASSUME Types, UNCHANGED month, NEW u \in Uploaders, NEW r, RunType(r),
         uploader' = [uploader EXCEPT ![u] = r]
  PROVE  uploader' \in [Uploaders -> Run] /\ (\A v \in Uploaders : RunType(uploader[v]))'
<1>1. uploader \in [Uploaders -> Run] /\ r \in Run
  BY DEF Types, DataType, RunType
<1>2. \A v \in Uploaders : RunType(uploader'[v])
  BY <1>1 DEF Types
<1>3. QED
  BY <1>1, <1>2 DEF RunType

LEMMA IdleTyped == Types => RunType(Idle)
BY DEF Types, DataType, RunType, Run, Docs, Steps, Busy, Idle

LEMMA NextRowTyped ==
  ASSUME Types, NEW u \in Uploaders, uploader[u].at \in Busy, NextRow(u)
  PROVE  \E r : RunType(r) /\ uploader' = [uploader EXCEPT ![u] = r]
                /\ r.at \in {"idle", "check"}
<1> DEFINE left == uploader[u].left \ {Min(uploader[u].left)}
<1>1. uploader[u] \in Run /\ uploader[u].left \subseteq 1..month - 1
  BY DEF Types, DataType, RunType
<1>2. CASE left = {}
  <2>1. uploader' = [uploader EXCEPT ![u] = Idle] /\ Idle.at = "idle"
    BY <1>2 DEF NextRow, Idle
  <2>2. QED
    BY <2>1, IdleTyped
<1>3. CASE left # {}
  <2> DEFINE r == [uploader[u] EXCEPT !.at = "check", !.left = left, !.doc = NoDoc]
  <2>1. uploader' = [uploader EXCEPT ![u] = r]
    BY <1>3 DEF NextRow
  <2>2. /\ r.at = "check" /\ r.left = left /\ r.doc = NoDoc
        /\ r.target = uploader[u].target /\ r.through = uploader[u].through /\ r \in Run
    BY <1>1 DEF Run, Docs, Steps
  <2> HIDE DEF r
  <2>3. RunType(r)
    BY <1>1, <1>3, <2>2 DEF RunType, Busy
  <2>4. QED
    BY <2>1, <2>2, <2>3
<1>4. QED
  BY <1>2, <1>3

\* What a step of a run changes.
LEMMA RunStepTyped ==
  ASSUME Types, NEW u \in Uploaders, RunStep(u)
  PROVE  Types'
<1> DEFINE run == uploader[u]
           m == Min(run.left)
<1>1. run \in Run /\ RunType(run) /\ month \in 1..LastMonth + 1
      /\ uploader \in [Uploaders -> Run]
  BY DEF Types, DataType
<1>2. UNCHANGED <<month, reached, enabled, ledger, settled, editor, missed>>
  BY DEF RunStep, Populate, Mark, List, Check, Build, Upload, Delete
<1>3. used' \in [changes : {used.changes}, faults : 0..MaxFaults]
  <2>1. UNCHANGED used \/ Fault
    BY DEF RunStep, Populate, Mark, List, Check, Build, Upload, Delete
  <2>2. QED
    BY <2>1 DEF Types, DataType, Fault, Use
<1>13. begun' \in 1..month
  <2>1. begun' = begun \/ (begun' = month - 1 /\ month > 1)
    BY DEF RunStep, Populate, Mark, List, Check, Build, Upload, Delete
  <2>2. begun \in 1..month
    BY DEF Types, DataType
  <2>3. QED
    BY <1>1, <2>1, <2>2
<1>4. SUFFICES ASSUME TRUE
               PROVE  /\ \E r : RunType(r) /\ uploader' = [uploader EXCEPT ![u] = r]
                      /\ queue' \subseteq 1..month - 1 /\ marker' \in 0..month - 1
                      /\ archive' \in [Months -> Docs]
                      /\ \A k \in Months : archive'[k] # NoDoc =>
                           k < month /\ archive'[k] \in [1..k -> Nat]
  <2>1. uploader' \in [Uploaders -> Run] /\ (\A v \in Uploaders : RunType(uploader[v]))'
    BY <1>2, <1>4, RunMoves
  <2>2. DataType'
    BY <1>2, <1>3, <1>4, <1>13, <2>1 DEF Types, DataType
  <2>3. QED
    BY <2>1, <2>2 DEF Types
<1>5. CASE Populate(u)
  <2> DEFINE periods == Backfill(marker, month - 1)
             r == [Idle EXCEPT !.at = IF periods = {} THEN "list" ELSE "mark",
                               !.target = month - 1, !.through = Through(u)]
  <2>1. month - 1 \in 1..month - 1 /\ marker \in Nat
    BY <1>1, <1>5 DEF Populate, Types, DataType
  <2>2. periods \subseteq 1..month - 1
    BY <1>1, <2>1 DEF Backfill, Months
  <2>3. Through(u) \in Nat
    BY <1>1, <2>1 DEF Through
  <2>4. /\ r.at \in {"list", "mark"} /\ r.target = month - 1 /\ r.left = {} /\ r.doc = NoDoc
        /\ r \in Run
    <3>1. r \in [at : {"list", "mark"}, target : {month - 1}, through : {Through(u)},
                 left : {{}}, doc : {NoDoc}]
      BY DEF Idle
    <3> HIDE DEF r
    <3>2. QED
      BY <2>1, <2>3, <3>1 DEF Run, Docs, Steps
  <2>5. uploader' = [uploader EXCEPT ![u] = r] /\ queue' = queue \cup periods
        /\ UNCHANGED <<marker, archive>>
    BY <1>5 DEF Populate
  <2> HIDE DEF r, periods
  <2>6. RunType(r)
    BY <2>1, <2>4 DEF RunType, Busy
  <2>7. QED
    BY <2>2, <2>5, <2>6 DEF Types, DataType
<1>6. CASE Mark(u)
  <2> DEFINE r == [run EXCEPT !.at = "list"]
  <2>1. uploader' = [uploader EXCEPT ![u] = r] /\ marker' = run.target
        /\ UNCHANGED <<queue, archive>> /\ run.at = "mark"
    BY <1>1, <1>6 DEF Mark, Goto
  <2>2. r \in Run /\ r.at = "list" /\ r.left = run.left /\ r.doc = run.doc
    BY <1>1 DEF Run, Steps
  <2>3. run.target \in 1..month - 1
    BY <1>1, <2>1 DEF RunType
  <2> HIDE DEF r
  <2>4. RunType(r)
    BY <1>1, <2>1, <2>2 DEF RunType, Busy
  <2>5. marker' \in 0..month - 1
    BY <1>1, <2>1, <2>3
  <2>6. QED
    BY <2>1, <2>4, <2>5 DEF Types, DataType
<1>7. CASE List(u)
  <2> DEFINE left == {k \in queue : k <= run.through}
             r == [run EXCEPT !.at = "check", !.left = left]
  <2>1. UNCHANGED <<marker, queue, archive>> /\ run.at = "list"
        /\ uploader' = [uploader EXCEPT ![u] = IF left = {} THEN Idle ELSE r]
    BY <1>1, <1>7 DEF List
  <2>2. left \subseteq 1..month - 1
    BY DEF Types, DataType
  <2>3. left \subseteq Nat
    BY <1>1, <2>2
  <2>4. r \in Run /\ r.at = "check" /\ r.left = left /\ r.doc = run.doc
    BY <1>1, <2>3 DEF Run, Steps
  <2> HIDE DEF r, left
  <2>5. left # {} => RunType(r)
    BY <1>1, <2>1, <2>2, <2>4 DEF RunType, Busy
  <2>6. QED
    BY <2>1, <2>5, IdleTyped DEF Types, DataType
<1>8. CASE Check(u)
  <2>1. UNCHANGED <<marker, queue, archive>> /\ run.at = "check"
    BY <1>8 DEF Check
  <2>2. CASE Goto(u, "build")
    <3> DEFINE r == [run EXCEPT !.at = "build"]
    <3>1. uploader' = [uploader EXCEPT ![u] = r]
      BY <1>1, <2>2 DEF Goto
    <3>2. r \in Run /\ r.at = "build" /\ r.left = run.left /\ r.doc = run.doc
      BY <1>1 DEF Run, Steps
    <3> HIDE DEF r
    <3>3. RunType(r)
      BY <1>1, <2>1, <3>2 DEF RunType, Busy
    <3>4. QED
      BY <2>1, <3>1, <3>3 DEF Types, DataType
  <2>3. CASE NextRow(u)
    BY <2>1, <2>3, NextRowTyped DEF Busy, Types, DataType
  <2>4. QED
    BY <1>8, <2>2, <2>3 DEF Check
<1>9. CASE Build(u)
  <2> DEFINE r == [run EXCEPT !.at = "upload", !.doc = Doc(m)]
  <2>1. uploader' = [uploader EXCEPT ![u] = r] /\ UNCHANGED <<marker, queue, archive>>
        /\ run.at = "build"
    BY <1>1, <1>9 DEF Build
  <2>2. m \in Months
    BY <2>1, ListTyped DEF Busy
  <2>3. Doc(m) \in [1..m -> Nat] /\ Doc(m) \in Docs
    BY <2>2, DocTyped DEF Docs
  <2>4. r \in Run /\ r.at = "upload" /\ r.left = run.left /\ r.doc = Doc(m)
    BY <1>1, <2>3 DEF Run, Steps
  <2> HIDE DEF r
  <2>5. RunType(r)
    BY <1>1, <2>1, <2>3, <2>4 DEF RunType, Busy
  <2>6. QED
    BY <2>1, <2>5 DEF Types, DataType
<1>10. CASE Upload(u)
  <2>1. UNCHANGED <<marker, queue>> /\ run.at = "upload"
    BY <1>10 DEF Upload
  <2>2. m \in Months /\ m < month
    BY <2>1, ListTyped DEF Busy
  <2>3. run.doc \in [1..m -> Nat] /\ run.doc \in Docs
    BY <1>1, <2>1 DEF RunType, Run
  <2>4. CASE archive' = [archive EXCEPT ![m] = run.doc] /\ Goto(u, "delete")
    <3> DEFINE r == [run EXCEPT !.at = "delete"]
    <3>1. uploader' = [uploader EXCEPT ![u] = r]
      BY <1>1, <2>4 DEF Goto
    <3>2. r \in Run /\ r.at = "delete" /\ r.left = run.left /\ r.doc = run.doc
      BY <1>1 DEF Run, Steps
    <3> HIDE DEF r
    <3>3. RunType(r)
      BY <1>1, <2>1, <3>2 DEF RunType, Busy
    <3>4. /\ archive' \in [Months -> Docs]
          /\ \A k \in Months : archive'[k] # NoDoc => k < month /\ archive'[k] \in [1..k -> Nat]
      BY <2>2, <2>3, <2>4 DEF Types, DataType
    <3>5. QED
      BY <2>1, <3>1, <3>3, <3>4 DEF Types, DataType
  <2>5. CASE NextRow(u) /\ UNCHANGED archive
    BY <2>1, <2>5, NextRowTyped DEF Busy, Types, DataType
  <2>6. QED
    BY <1>10, <2>4, <2>5 DEF Upload
<1>11. CASE Delete(u)
  <2>1. UNCHANGED <<marker, archive>> /\ queue' \subseteq queue /\ NextRow(u)
        /\ run.at = "delete"
    BY <1>11 DEF Delete
  <2>2. QED
    BY <2>1, NextRowTyped DEF Busy, Types, DataType
<1>12. QED
  BY <1>5, <1>6, <1>7, <1>8, <1>9, <1>10, <1>11 DEF RunStep

LEMMA EditTyped ==
  ASSUME Types, UNCHANGED <<month, reached, enabled, marker, archive, uploader, begun>>,
         ledger' \in [Months -> Nat], settled' \in [Months -> BOOLEAN],
         queue' \subseteq 1..month - 1, editor' \in [Editors -> SUBSET {k \in Months : k <= month}],
         missed' \subseteq Months,
         used' \in [changes : 0..MaxChanges, faults : 0..MaxFaults],
         \A m \in Months : ledger'[m] <= used'.changes
  PROVE  Types'
<1>1. DataType'
  BY DEF Types, DataType
<1>2. month \in Nat
  BY DEF Types, DataType
<1>3. QED
  BY <1>1, <1>2, RunsStay DEF Types

LEMMA ChangesTyped ==
  ASSUME Types, NEW m \in Months, used.changes < MaxChanges, Use("changes"),
         ledger' = [ledger EXCEPT ![m] = @ + 1]
  PROVE  /\ ledger' \in [Months -> Nat] /\ \A k \in Months : ledger'[k] <= used'.changes
         /\ used' \in [changes : 0..MaxChanges, faults : 0..MaxFaults]
<1>1. /\ used \in [changes : 0..MaxChanges, faults : 0..MaxFaults]
      /\ ledger \in [Months -> Nat] /\ \A k \in Months : ledger[k] <= used.changes
  BY DEF Types, DataType
<1>2. used' \in [changes : {used.changes + 1}, faults : {used.faults}]
  BY <1>1 DEF Use
<1>3. QED
  BY <1>1, <1>2

LEMMA FaultTyped ==
  ASSUME Types, UNCHANGED used \/ Fault
  PROVE  /\ used' \in [changes : 0..MaxChanges, faults : 0..MaxFaults]
         /\ used'.changes = used.changes
<1>1. used \in [changes : 0..MaxChanges, faults : 0..MaxFaults]
  BY DEF Types, DataType
<1>2. CASE Fault
  <2>1. used' \in [changes : {used.changes}, faults : {used.faults + 1}]
    BY <1>1, <1>2 DEF Fault, Use
  <2>2. QED
    BY <1>1, <1>2, <2>1 DEF Fault
<1>3. QED
  BY <1>1, <1>2

LEMMA NextKeepsTypes ==
  ASSUME Types, [Next]_vars
  PROVE  Types'
<1>1. /\ month \in 1..LastMonth + 1 /\ reached \in BOOLEAN /\ enabled \in BOOLEAN
      /\ ledger \in [Months -> Nat] /\ settled \in [Months -> BOOLEAN]
      /\ queue \subseteq 1..month - 1 /\ marker \in 0..month - 1 /\ begun \in 1..month
      /\ editor \in [Editors -> SUBSET {k \in Months : k <= month}] /\ missed \subseteq Months
      /\ used \in [changes : 0..MaxChanges, faults : 0..MaxFaults]
      /\ \A m \in Months : ledger[m] <= used.changes
  BY DEF Types, DataType
<1>2. ASSUME NEW e \in Editors, NEW m \in Months, Change(e, m)
      PROVE  Types'
  <2>1. settled' \in [Months -> BOOLEAN] /\ editor' \in [Editors -> SUBSET {k \in Months : k <= month}]
    BY <1>1, <1>2 DEF Change, Months
  <2>2. QED
    BY <1>1, <1>2, <2>1, ChangesTyped, EditTyped DEF Change
<1>3. ASSUME NEW e \in Editors, NEW m \in Months, Adjust(e, m)
      PROVE  Types'
  <2>1. editor' \in [Editors -> SUBSET {k \in Months : k <= month}]
    BY <1>1, <1>3 DEF Adjust, Months
  <2>2. QED
    BY <1>1, <1>3, <2>1, ChangesTyped, EditTyped DEF Adjust
<1>4. ASSUME NEW e \in Editors, NEW m \in Months, Requeue(e, m)
      PROVE  Types'
  <2>1. /\ editor' \in [Editors -> SUBSET {k \in Months : k <= month}] /\ missed' \subseteq Months
        /\ UNCHANGED <<month, reached, enabled, ledger, settled, marker, archive, uploader, begun>>
        /\ UNCHANGED used \/ Fault
    BY <1>1, <1>4 DEF Requeue
  <2>2. queue' \subseteq 1..month - 1
    <3>1. queue' = queue \/ (queue' = queue \cup {m} /\ m < month)
      BY <1>4 DEF Requeue
    <3>2. m < month => m \in 1..month - 1
      BY <1>1 DEF Months
    <3>3. QED
      BY <1>1, <3>1, <3>2
  <2>3. QED
    BY <1>1, <2>1, <2>2, FaultTyped, EditTyped
<1>5. ASSUME NEW m \in Months, Draft(m)
      PROVE  Types'
  <2>1. settled' \in [Months -> BOOLEAN]
    BY <1>1, <1>5 DEF Draft
  <2>2. QED
    BY <1>1, <1>5, <2>1, EditTyped DEF Draft
<1>6. CASE NextMonth
  <2>1. /\ month' = month + 1 /\ month' \in 1..LastMonth + 1 /\ reached' = FALSE
        /\ UNCHANGED <<enabled, ledger, settled, queue, marker, archive, uploader, editor,
                       missed, begun, used>>
    BY <1>1, <1>6 DEF NextMonth
  <2>2. editor' \in [Editors -> SUBSET {k \in Months : k <= month'}]
    <3>1. {k \in Months : k <= month} \subseteq {k \in Months : k <= month'}
      BY <1>1, <2>1 DEF Months
    <3>2. QED
      BY <1>1, <2>1, <3>1
  <2>3. queue' \subseteq 1..month' - 1 /\ marker' \in 0..month' - 1 /\ begun' \in 1..month'
    BY <1>1, <2>1
  <2>4. \A m \in Months : archive'[m] # NoDoc => m < month' /\ archive'[m] \in [1..m -> Nat]
    BY <1>1, <2>1 DEF Types, DataType, Months
  <2>5. DataType'
    BY <1>1, <2>1, <2>2, <2>3, <2>4 DEF Types, DataType
  <2>6. QED
    BY <1>1, <2>1, <2>5, RunsStay DEF Types
<1>7. CASE UploadDay \/ Configure \/ UNCHANGED vars
  <2>1. /\ UNCHANGED <<month, ledger, settled, queue, marker, archive, uploader, editor,
                       missed, begun, used>>
        /\ reached' \in BOOLEAN /\ enabled' \in BOOLEAN
    BY <1>1, <1>7 DEF UploadDay, Configure, vars
  <2>2. DataType'
    BY <1>1, <2>1 DEF Types, DataType
  <2>3. QED
    BY <1>1, <2>1, <2>2, RunsStay DEF Types
<1>8. CASE Restart
  <2>1. uploader' \in [Uploaders -> Run] /\ \A u \in Uploaders : uploader'[u] = Idle
    BY <1>8, IdleTyped DEF Restart, RunType
  <2>2. /\ UNCHANGED <<month, reached, enabled, ledger, settled, queue, marker, archive, begun>>
        /\ editor' = [e \in Editors |-> {}]
        /\ missed' = missed \cup UNION {editor[e] : e \in Editors}
    BY <1>8 DEF Restart
  <2>3. missed' \subseteq Months
    <3>1. \A e \in Editors : editor[e] \subseteq Months
      BY <1>1
    <3>2. UNION {editor[e] : e \in Editors} \subseteq Months
      BY <3>1
    <3>3. QED
      BY <1>1, <2>2, <3>2
  <2>4. editor' \in [Editors -> SUBSET {k \in Months : k <= month}]
    BY <2>2
  <2>5. /\ used' \in [changes : 0..MaxChanges, faults : 0..MaxFaults]
        /\ used'.changes = used.changes
    BY <1>8, FaultTyped DEF Restart
  <2>6. DataType'
    BY <1>1, <2>1, <2>2, <2>3, <2>4, <2>5 DEF Types, DataType
  <2>7. (\A u \in Uploaders : RunType(uploader[u]))'
    <3>1. RunType(Idle)'
      BY <2>2, IdleTyped DEF RunType, Idle
    <3>2. QED
      BY <2>1, <3>1 DEF RunType
  <2>8. QED
    BY <2>6, <2>7 DEF Types
<1>9. QED
  BY <1>2, <1>3, <1>4, <1>5, <1>6, <1>7, <1>8, RunStepTyped DEF Next, Edit

LEMMA InitTypes == Init => Types
<1>1. ASSUME Init
      PROVE  DataType
  <2>1. Idle \in Run
    BY DEF Run, Docs, Steps, Idle
  <2>2. month = 1 /\ 1 \in 1..LastMonth + 1
    BY <1>1 DEF Init
  <2>3. used \in [changes : {0}, faults : {0}]
    BY <1>1 DEF Init
  <2>4. archive = [m \in Months |-> NoDoc] /\ archive \in [Months -> Docs]
        /\ \A m \in Months : archive[m] = NoDoc
    BY <1>1 DEF Init, Docs
  <2>5. /\ editor \in [Editors -> SUBSET {k \in Months : k <= month}]
        /\ uploader \in [Uploaders -> Run]
    BY <1>1, <2>1 DEF Init
  <2>6. ledger \in [Months -> Nat] /\ \A m \in Months : ledger[m] <= used.changes
    BY <1>1, <2>3 DEF Init
  <2>7. used \in [changes : 0..MaxChanges, faults : 0..MaxFaults]
    BY <2>3
  <2>8. settled \in [Months -> BOOLEAN]
    BY <1>1 DEF Init
  <2>9. /\ queue \subseteq 1..month - 1 /\ marker \in 0..month - 1 /\ missed \subseteq Months
        /\ begun \in 1..month
    BY <1>1 DEF Init
  <2>10. reached \in BOOLEAN /\ enabled \in BOOLEAN
    BY <1>1 DEF Init
  <2>11. QED
    BY <2>2, <2>4, <2>5, <2>6, <2>7, <2>8, <2>9, <2>10 DEF DataType
<1>2. ASSUME Init
      PROVE  \A u \in Uploaders : RunType(uploader[u])
  BY <1>2 DEF Init, RunType, Run, Docs, Steps, Busy, Idle
<1>3. QED
  BY <1>1, <1>2 DEF Types

LEMMA TypesSuffice == Types => TypeOK
<1>1. SUFFICES ASSUME Types
               PROVE  TypeOK
  OBVIOUS
<1>2. month \in 1..LastMonth + 1
  BY <1>1 DEF Types, DataType
<1>3. ledger \in [Months -> 0..MaxChanges]
  BY <1>1 DEF Types, DataType
<1>4. \A u \in Uploaders :
        /\ uploader[u].at \in Steps /\ uploader[u].left \subseteq 1..month - 1
        /\ uploader[u].left # {} <=> uploader[u].at \in {"check", "build", "upload", "delete"}
        /\ uploader[u].doc # NoDoc <=> uploader[u].at \in {"upload", "delete"}
  <2>1. SUFFICES ASSUME NEW u \in Uploaders
                 PROVE  /\ uploader[u].at \in Steps /\ uploader[u].left \subseteq 1..month - 1
                        /\ uploader[u].left # {} <=> uploader[u].at \in Busy
                        /\ uploader[u].doc # NoDoc <=> uploader[u].at \in {"upload", "delete"}
    BY DEF Busy
  <2>2. RunType(uploader[u])
    BY <1>1 DEF Types
  <2>3. uploader[u].at \in {"upload", "delete"} => uploader[u].doc # NoDoc
    BY <1>1, <2>2, ListTyped, NoDocIsEmpty DEF RunType, Busy
  <2>4. QED
    BY <2>2, <2>3 DEF RunType, Run
<1>5. \A m \in Months : archive[m] = NoDoc \/ DOMAIN archive[m] = 1..m
  BY <1>1 DEF Types, DataType
<1>6. \A e \in Editors : editor[e] \subseteq 1..month
  BY <1>1, <1>2 DEF Types, DataType, Months
<1>7. QED
  BY <1>1, <1>2, <1>3, <1>4, <1>5, <1>6 DEF Types, DataType, TypeOK

\* Every variable keeps its type: rows are for months that are over, and a run holds a
\* document of its month just while it uploads it.
THEOREM TypeCorrect == Spec => []TypeOK
<1>1. Types /\ [Next]_vars => Types'
  BY NextKeepsTypes
<1>2. QED
  BY <1>1, InitTypes, TypesSuffice, PTL DEF Spec

----------------------------------------------------------------------------
(* Stale documents                                                         *)

\* A handler has still to queue month m again, or its attempt came to nothing.
Noticed(m) == Editing(m) \/ m \in missed

\* A document in hand is of the month as it is, and so is the archived one whose row is
\* about to be deleted, unless the change is noticed otherwise.
Fresh(u) ==
  LET m == Min(uploader[u].left)
  IN  /\ uploader[u].at \in {"upload", "delete"} /\ uploader[u].doc[m] # ledger[m]
           => Noticed(m)
      /\ uploader[u].at = "delete" /\ Stale(m) => Noticed(m)

FreshInv == \A u \in Uploaders : Fresh(u)

StaleInv == FreshInv /\ StaleIsQueued


LEMMA ChangeKeepsStale ==
  ASSUME Types, StaleInv, NEW e \in Editors, NEW m \in Months, NEW S, m \in S, editor[e] = {},
         editor' = [editor EXCEPT ![e] = S], ledger' = [ledger EXCEPT ![m] = @ + 1],
         UNCHANGED <<queue, archive, uploader, missed>>
  PROVE  StaleInv'
<1>1. /\ ledger \in [Months -> Nat]
      /\ editor \in [Editors -> SUBSET {k \in Months : k <= month}]
  BY DEF Types, DataType
<1>2. \A k \in Months : k # m => ledger'[k] = ledger[k]
  BY <1>1
<1>3. \A k \in Months : Noticed(k) => Noticed(k)'
  BY <1>1 DEF Noticed, Editing
<1>4. Noticed(m)'
  BY <1>1 DEF Noticed, Editing
<1>5. FreshInv'
  <2>1. SUFFICES ASSUME NEW u \in Uploaders, uploader[u].at \in Busy
                 PROVE  Fresh(u)'
    BY DEF FreshInv, Fresh, Busy
  <2>2. Min(uploader[u].left) \in Months
    BY <2>1, ListTyped
  <2>3. CASE Min(uploader[u].left) = m
    BY <1>4, <2>3 DEF Fresh
  <2>4. CASE Min(uploader[u].left) # m
    BY <1>2, <1>3, <2>2, <2>4 DEF StaleInv, FreshInv, Fresh, Stale
  <2>5. QED
    BY <2>3, <2>4
<1>6. StaleIsQueued'
  BY <1>2, <1>3, <1>4 DEF StaleInv, StaleIsQueued, Stale, Noticed
<1>7. QED
  BY <1>5, <1>6 DEF StaleInv

LEMMA RequeueKeepsStale ==
  ASSUME Types, StaleInv, NEW e \in Editors, NEW m \in Months, Requeue(e, m)
  PROVE  StaleInv'
<1>1. /\ editor' = [editor EXCEPT ![e] = @ \ {m}] /\ UNCHANGED <<ledger, archive, uploader>>
      /\ editor \in [Editors -> SUBSET {k \in Months : k <= month}] /\ month \in Nat
  BY DEF Requeue, Types, DataType
<1>2. /\ missed \subseteq missed' /\ queue \subseteq queue'
      /\ m \in missed' \/ (InFlight(m) = {} /\ m \in queue') \/ m = month
  BY DEF Requeue
<1>3. \A k \in Months : k # m /\ Noticed(k) => Noticed(k)'
  BY <1>1, <1>2 DEF Noticed, Editing
<1>4. m \in missed' => Noticed(m)'
  BY DEF Noticed
<1>5. FreshInv'
  <2>1. SUFFICES ASSUME NEW u \in Uploaders, uploader[u].at \in {"upload", "delete"}
                 PROVE  Fresh(u)'
    BY <1>1 DEF FreshInv, Fresh
  <2>2. Min(uploader[u].left) \in Months /\ Min(uploader[u].left) < month
    BY <2>1, ListTyped DEF Busy
  <2>3. CASE Min(uploader[u].left) = m
    <3>1. u \in InFlight(m)
      BY <2>1, <2>3 DEF InFlight
    <3>2. Noticed(m)'
      BY <1>1, <1>2, <1>4, <2>2, <2>3, <3>1
    <3>3. QED
      BY <1>1, <2>3, <3>2 DEF Fresh
  <2>4. CASE Min(uploader[u].left) # m
    BY <1>1, <1>3, <2>2, <2>4 DEF StaleInv, FreshInv, Fresh, Stale
  <2>5. QED
    BY <2>3, <2>4
<1>6. StaleIsQueued'
  <2>1. SUFFICES ASSUME NEW k \in Months, Stale(k)
                 PROVE  k \in queue' \/ Noticed(k)'
    BY <1>1 DEF StaleIsQueued, Stale, Noticed
  <2>2. k < month
    BY <2>1 DEF Stale, Types, DataType
  <2>3. CASE k = m
    BY <1>1, <1>2, <1>4, <2>2, <2>3
  <2>4. CASE k # m
    BY <1>2, <1>3, <2>1, <2>4 DEF StaleInv, StaleIsQueued, Noticed
  <2>5. QED
    BY <2>3, <2>4
<1>7. QED
  BY <1>5, <1>6 DEF StaleInv

\* Steps of a run that neither archive anything nor delete a row.
LEMMA QuietKeepsStale ==
  ASSUME Types, StaleInv, NEW u \in Uploaders, NEW r,
         uploader' = [uploader EXCEPT ![u] = r],
         \/ r.at \notin {"upload", "delete"}
         \/ r.at = "upload" /\ r.doc[Min(r.left)] = ledger[Min(r.left)],
         queue \subseteq queue', UNCHANGED <<ledger, editor, missed, archive>>
  PROVE  StaleInv'
<1>1. uploader \in [Uploaders -> Run]
  BY DEF Types, DataType
<1>2. \A k : Noticed(k)' = Noticed(k) /\ Stale(k)' = Stale(k)
  BY DEF Noticed, Editing, Stale
<1>3. ASSUME NEW v \in Uploaders
      PROVE  Fresh(v)'
  <2>1. CASE v = u
    BY <1>1, <2>1 DEF Fresh
  <2>2. CASE v # u
    BY <1>1, <1>2, <2>2 DEF StaleInv, FreshInv, Fresh
  <2>3. QED
    BY <2>1, <2>2
<1>4. StaleIsQueued'
  BY <1>2 DEF StaleInv, StaleIsQueued, Noticed, Editing
<1>5. QED
  BY <1>3, <1>4 DEF StaleInv, FreshInv

LEMMA UploadKeepsStale ==
  ASSUME Types, StaleInv, NEW u \in Uploaders, Upload(u)
  PROVE  StaleInv'
<1>1. uploader \in [Uploaders -> Run] /\ uploader[u].at = "upload"
  BY DEF Upload, Types, DataType
<1>2. PICK m \in Months : m = Min(uploader[u].left)
  BY <1>1, ListTyped DEF Busy
<1>3. UNCHANGED <<ledger, editor, missed, queue>>
  BY DEF Upload
<1>4. \A k : Noticed(k)' = Noticed(k)
  BY <1>3 DEF Noticed, Editing
<1>5. CASE archive' = [archive EXCEPT ![m] = uploader[u].doc] /\ Goto(u, "delete")
  <2>1. uploader' = [uploader EXCEPT ![u] = [uploader[u] EXCEPT !.at = "delete"]]
    BY <1>1, <1>5 DEF Goto
  <2>2. /\ uploader'[u].at = "delete" /\ uploader'[u].left = uploader[u].left
        /\ uploader'[u].doc = uploader[u].doc
        /\ \A v \in Uploaders \ {u} : uploader'[v] = uploader[v]
    BY <1>1, <2>1 DEF Run
  <2>3. archive \in [Months -> Docs]
    BY DEF Types, DataType
  <2>4. /\ archive'[m] = uploader[u].doc
        /\ \A k \in Months \ {m} : archive'[k] = archive[k]
    BY <1>2, <1>5, <2>3
  <2>5. uploader[u].doc[m] # ledger[m] => Noticed(m)
    BY <1>1, <1>2 DEF StaleInv, FreshInv, Fresh
  <2>6. Stale(m)' => Noticed(m)
    <3>1. Stale(m)' => archive'[m][m] # ledger'[m]
      BY DEF Stale
    <3>2. QED
      BY <1>3, <2>4, <2>5, <3>1
  <2>7. \A k \in Months \ {m} : Stale(k)' = Stale(k)
    BY <1>3, <2>4 DEF Stale
  <2>8. ASSUME NEW v \in Uploaders, uploader'[v].at \in {"upload", "delete"}
        PROVE  Fresh(v)'
    <3>1. /\ uploader'[v].left = uploader[v].left /\ uploader'[v].doc = uploader[v].doc
          /\ uploader[v].at \in {"upload", "delete"}
      BY <1>1, <2>2, <2>8
    <3>2. PICK k \in Months : k = Min(uploader[v].left)
      BY <3>1, ListTyped DEF Busy
    <3>3. uploader'[v].at = "delete" /\ Stale(k)' => Noticed(k)
      <4>1. CASE k = m
        BY <2>6, <4>1
      <4>2. CASE k # m
        <5>1. v # u
          BY <1>2, <3>2, <4>2
        <5>2. QED
          BY <2>2, <2>7, <3>2, <4>2, <5>1 DEF StaleInv, FreshInv, Fresh
      <4>3. QED
        BY <4>1, <4>2
    <3>4. uploader[v].doc[k] # ledger[k] => Noticed(k)
      BY <3>1, <3>2 DEF StaleInv, FreshInv, Fresh
    <3>5. QED
      BY <1>3, <1>4, <3>1, <3>2, <3>3, <3>4 DEF Fresh
  <2>9. FreshInv'
    BY <2>8 DEF FreshInv, Fresh
  <2>10. StaleIsQueued'
    BY <1>3, <1>4, <2>6, <2>7 DEF StaleInv, StaleIsQueued, Noticed
  <2>11. QED
    BY <2>9, <2>10 DEF StaleInv
<1>6. CASE NextRow(u) /\ UNCHANGED archive
  <2>1. PICK r : uploader' = [uploader EXCEPT ![u] = r] /\ r.at \in {"idle", "check"}
    BY <1>1, <1>6, NextRowTyped DEF Busy
  <2>2. QED
    BY <1>3, <1>6, <2>1, QuietKeepsStale
<1>7. QED
  BY <1>2, <1>5, <1>6 DEF Upload

LEMMA DeleteKeepsStale ==
  ASSUME Types, StaleInv, NEW u \in Uploaders, Delete(u)
  PROVE  StaleInv'
<1> DEFINE m == Min(uploader[u].left)
<1>1. /\ uploader \in [Uploaders -> Run] /\ uploader[u].at = "delete" /\ NextRow(u)
      /\ UNCHANGED <<ledger, editor, missed, archive>> /\ queue \ {m} \subseteq queue'
  BY DEF Delete, Types, DataType
<1>2. PICK r : uploader' = [uploader EXCEPT ![u] = r] /\ r.at \in {"idle", "check"}
  BY <1>1, NextRowTyped DEF Busy
<1>3. \A k : Noticed(k)' = Noticed(k) /\ Stale(k)' = Stale(k)
  BY <1>1 DEF Noticed, Editing, Stale
<1>4. Stale(m) => Noticed(m)
  BY <1>1 DEF StaleInv, FreshInv, Fresh
<1>5. ASSUME NEW v \in Uploaders
      PROVE  Fresh(v)'
  <2>1. CASE v = u
    BY <1>1, <1>2, <2>1 DEF Fresh
  <2>2. CASE v # u
    BY <1>1, <1>2, <1>3, <2>2 DEF StaleInv, FreshInv, Fresh
  <2>3. QED
    BY <2>1, <2>2
<1>6. StaleIsQueued'
  BY <1>1, <1>3, <1>4 DEF StaleInv, StaleIsQueued, Noticed
<1>7. QED
  BY <1>5, <1>6 DEF StaleInv, FreshInv


LEMMA RunStepKeepsStale ==
  ASSUME Types, StaleInv, NEW u \in Uploaders, RunStep(u)
  PROVE  StaleInv'
<1>1. uploader \in [Uploaders -> Run]
  BY DEF Types, DataType
<1>2. CASE Populate(u)
  <2> DEFINE periods == Backfill(marker, month - 1)
             r == [Idle EXCEPT !.at = IF periods = {} THEN "list" ELSE "mark",
                               !.target = month - 1, !.through = Through(u)]
  <2>1. uploader' = [uploader EXCEPT ![u] = r] /\ queue \subseteq queue'
        /\ UNCHANGED <<ledger, editor, missed, archive>>
    BY <1>2 DEF Populate
  <2>2. r.at \in {"list", "mark"}
    BY DEF Idle
  <2> HIDE DEF r
  <2>3. QED
    BY <2>1, <2>2, QuietKeepsStale
<1>3. CASE Mark(u)
  <2> DEFINE r == [uploader[u] EXCEPT !.at = "list"]
  <2>1. uploader' = [uploader EXCEPT ![u] = r]
        /\ UNCHANGED <<queue, ledger, editor, missed, archive>>
    BY <1>1, <1>3 DEF Mark, Goto
  <2>2. r.at = "list"
    BY <1>1 DEF Run
  <2> HIDE DEF r
  <2>3. QED
    BY <2>1, <2>2, QuietKeepsStale
<1>4. CASE List(u)
  <2> DEFINE left == {k \in queue : k <= uploader[u].through}
             r == IF left = {} THEN Idle ELSE [uploader[u] EXCEPT !.at = "check", !.left = left]
  <2>1. uploader' = [uploader EXCEPT ![u] = r]
        /\ UNCHANGED <<queue, ledger, editor, missed, archive>>
    BY <1>1, <1>4 DEF List
  <2>2. r.at \in {"idle", "check"}
    BY <1>1 DEF Run, Idle
  <2> HIDE DEF r
  <2>3. QED
    BY <2>1, <2>2, QuietKeepsStale
<1>5. CASE Check(u)
  <2>1. uploader[u].at = "check" /\ UNCHANGED <<queue, ledger, editor, missed, archive>>
    BY <1>5 DEF Check
  <2>2. CASE Goto(u, "build")
    <3> DEFINE r == [uploader[u] EXCEPT !.at = "build"]
    <3>1. uploader' = [uploader EXCEPT ![u] = r]
      BY <1>1, <2>2 DEF Goto
    <3>2. r.at = "build"
      BY <1>1 DEF Run
    <3> HIDE DEF r
    <3>3. QED
      BY <2>1, <3>1, <3>2, QuietKeepsStale
  <2>3. CASE NextRow(u)
    <3>1. PICK r : uploader' = [uploader EXCEPT ![u] = r] /\ r.at \in {"idle", "check"}
      BY <2>1, <2>3, NextRowTyped DEF Busy
    <3>2. QED
      BY <2>1, <3>1, QuietKeepsStale
  <2>4. QED
    BY <1>5, <2>2, <2>3 DEF Check
<1>6. CASE Build(u)
  <2> DEFINE m == Min(uploader[u].left)
             r == [uploader[u] EXCEPT !.at = "upload", !.doc = Doc(m)]
  <2>1. uploader' = [uploader EXCEPT ![u] = r] /\ uploader[u].at = "build"
        /\ UNCHANGED <<queue, ledger, editor, missed, archive>>
    BY <1>1, <1>6 DEF Build
  <2>2. m \in Months
    BY <2>1, ListTyped DEF Busy
  <2>3. r.at = "upload" /\ r.left = uploader[u].left /\ r.doc = Doc(m)
    BY <1>1 DEF Run
  <2>4. r.doc[Min(r.left)] = ledger[Min(r.left)]
    BY <2>2, <2>3, DocTyped
  <2> HIDE DEF r
  <2>5. QED
    BY <2>1, <2>3, <2>4, QuietKeepsStale
<1>7. QED
  BY <1>2, <1>3, <1>4, <1>5, <1>6, UploadKeepsStale, DeleteKeepsStale DEF RunStep

LEMMA NextKeepsStale ==
  ASSUME Types, StaleInv, [Next]_vars
  PROVE  StaleInv'
<1>1. ASSUME NEW e \in Editors, NEW m \in Months, Change(e, m) \/ Adjust(e, m)
      PROVE  StaleInv'
  <2>1. PICK S : m \in S /\ editor' = [editor EXCEPT ![e] = S]
    BY <1>1 DEF Change, Adjust, Months
  <2>2. QED
    BY <1>1, <2>1, ChangeKeepsStale DEF Change, Adjust
<1>2. CASE \/ \E m \in Months : Draft(m)
           \/ NextMonth \/ UploadDay \/ Configure \/ UNCHANGED vars
  <2>1. UNCHANGED <<ledger, queue, archive, uploader, editor, missed>>
    BY <1>2 DEF Draft, NextMonth, UploadDay, Configure, vars
  <2>2. QED
    BY <2>1 DEF StaleInv, FreshInv, Fresh, Stale, StaleIsQueued, Noticed, Editing
<1>3. CASE Restart
  <2>1. /\ \A u \in Uploaders : uploader'[u].at = "idle"
        /\ UNCHANGED <<ledger, queue, archive>>
        /\ missed' = missed \cup UNION {editor[e] : e \in Editors}
    BY <1>3 DEF Restart, Idle
  <2>2. \A k : Noticed(k) => Noticed(k)'
    BY <2>1 DEF Noticed, Editing
  <2>3. FreshInv'
    BY <2>1 DEF FreshInv, Fresh
  <2>4. StaleIsQueued'
    BY <2>1, <2>2 DEF StaleInv, StaleIsQueued, Stale, Noticed
  <2>5. QED
    BY <2>3, <2>4 DEF StaleInv
<1>4. QED
  BY <1>1, <1>2, <1>3, RequeueKeepsStale, RunStepKeepsStale DEF Next, Edit

LEMMA InitStale == Init => StaleInv
BY DEF Init, Idle, NoDoc, StaleInv, FreshInv, Fresh, StaleIsQueued, Stale

\* An archived month that has changed since is queued or about to be, or its requeue
\* came to nothing: no interleaving of handlers, the daily upload, an admin's upload and
\* restarts leaves a document out of date without the code having seen why.
THEOREM StaleMonthsAreQueued == Spec => []StaleIsQueued
<1>1. Init => Types /\ StaleInv
  BY InitTypes, InitStale
<1>2. Types /\ StaleInv /\ [Next]_vars => Types' /\ StaleInv'
  BY NextKeepsTypes, NextKeepsStale
<1>3. StaleInv => StaleIsQueued
  BY DEF StaleInv
<1>4. QED
  BY <1>1, <1>2, <1>3, PTL DEF Spec

----------------------------------------------------------------------------
(* Skipped months                                                          *)

\* A month that was queued stays so until it is archived.
Seen(m) == m \in queue \/ archive[m] # NoDoc

\* A run deletes the row of a month only once it has archived it.
Archived ==
  \A u \in Uploaders :
    uploader[u].at = "delete" => archive[Min(uploader[u].left)] # NoDoc

\* What a run has queued, or found queued, it may move the marker over, however many
\* months and runs have passed since: its target is never later than the month a
\* later first run begins with.
Reserved ==
  \A u \in Uploaders :
    uploader[u].at = "mark" => \A m \in begun..uploader[u].target : Seen(m)

BackfillInv == Archived /\ Reserved /\ NoMonthSkipped

LEMMA StaysArchived ==
  ASSUME Types, [Next]_vars, NEW m \in Months, archive[m] # NoDoc
  PROVE  archive'[m] # NoDoc
<1>1. CASE UNCHANGED archive
  BY <1>1
<1>2. ASSUME NEW u \in Uploaders, Upload(u)
      PROVE  archive'[m] # NoDoc
  <2>1. /\ uploader[u].at = "upload" /\ uploader[u].doc # NoDoc
        /\ Min(uploader[u].left) \in Months /\ archive \in [Months -> Docs]
    <3>1. /\ uploader[u].at = "upload" /\ RunType(uploader[u]) /\ archive \in [Months -> Docs]
      BY <1>2 DEF Upload, Types, DataType
    <3>2. Min(uploader[u].left) \in Months
      BY <3>1, ListTyped DEF Busy
    <3> QED
      BY <3>1, <3>2, NoDocIsEmpty DEF RunType
  <2>2. \/ archive' = [archive EXCEPT ![Min(uploader[u].left)] = uploader[u].doc]
        \/ UNCHANGED archive
    BY <1>2 DEF Upload
  <2> QED
    BY <2>1, <2>2
<1>3. UNCHANGED archive \/ \E u \in Uploaders : Upload(u)
  BY DEF Next, Edit, RunStep, Populate, Mark, List, Check, Build, Delete, Change, Adjust,
     Requeue, Draft, NextMonth, UploadDay, Configure, Restart, vars
<1> QED
  BY <1>1, <1>2, <1>3

LEMMA StaysSeen ==
  ASSUME Types, Archived, [Next]_vars, NEW m \in Months, Seen(m)
  PROVE  Seen(m)'
<1>1. CASE archive[m] # NoDoc
  BY <1>1, StaysArchived DEF Seen
<1>2. CASE m \in queue /\ queue \subseteq queue'
  BY <1>2 DEF Seen
<1>3. ASSUME NEW u \in Uploaders, Delete(u), m \in queue
      PROVE  Seen(m)'
  <2>1. /\ archive[Min(uploader[u].left)] # NoDoc /\ UNCHANGED archive
        /\ queue \ {Min(uploader[u].left)} \subseteq queue'
    BY <1>3 DEF Delete, Archived
  <2> QED
    BY <1>3, <2>1 DEF Seen
<1>4. queue \subseteq queue' \/ \E u \in Uploaders : Delete(u)
  BY DEF Next, Edit, RunStep, Populate, Mark, List, Check, Build, Upload, Change, Adjust,
     Requeue, Draft, NextMonth, UploadDay, Configure, Restart, vars
<1> QED
  BY <1>1, <1>2, <1>3, <1>4 DEF Seen

\* The months a run marks, or has marked, are months.
LEMMA MarkedTyped ==
  ASSUME Types
  PROVE  /\ begun \in Nat \ {0} /\ marker \in Nat /\ begun..marker \subseteq Months
         /\ month - 1 \in 0..LastMonth
         /\ \A u \in Uploaders : uploader[u].at = "mark" =>
              uploader[u].target \in 1..month - 1 /\ begun..uploader[u].target \subseteq Months
<1>1. month \in 1..LastMonth + 1 /\ begun \in 1..month /\ marker \in 0..month - 1
  BY DEF Types, DataType
<1>2. ASSUME NEW u \in Uploaders, uploader[u].at = "mark"
      PROVE  uploader[u].target \in 1..month - 1 /\ begun..uploader[u].target \subseteq Months
  <2>1. uploader[u].target \in 1..month - 1
    BY <1>2 DEF Types, RunType
  <2> QED
    BY <1>1, <2>1 DEF Months
<1> QED
  BY <1>1, <1>2 DEF Months

LEMMA PopulateKeeps ==
  ASSUME Types, BackfillInv, [Next]_vars, NEW u \in Uploaders, Populate(u)
  PROVE  Reserved' /\ NoMonthSkipped'
<1> DEFINE target == month - 1
           periods == Backfill(marker, target)
<1>1. /\ queue' = queue \cup periods /\ UNCHANGED <<marker, archive>>
      /\ begun' = IF marker = 0 THEN target ELSE begun
      /\ target \in Months /\ begun \in Nat \ {0} /\ marker \in 0..target
      /\ uploader \in [Uploaders -> Run]
  BY DEF Populate, Types, DataType, Months
<1>2. \A k \in Months : Seen(k) => Seen(k)'
  BY StaysSeen DEF BackfillInv
\* From the month uploads begin with, all months up to the one just finished are seen.
<1>3. ASSUME NEW k \in begun'..target PROVE Seen(k)'
  <2>1. CASE marker = 0
    BY <1>1, <2>1 DEF Backfill, Seen
  <2>2. CASE marker # 0 /\ k <= marker
    <3>1. k \in begun..marker
      BY <1>1, <2>2
    <3>2. k \in Months
      BY <3>1, MarkedTyped
    <3> QED
      BY <1>2, <3>1, <3>2 DEF BackfillInv, NoMonthSkipped, Seen
  <2>3. CASE marker # 0 /\ k > marker
    BY <1>1, <2>3 DEF Backfill, Seen, Months
  <2> QED
    BY <1>1, <2>1, <2>2, <2>3
<1>4. ASSUME NEW v \in Uploaders, uploader'[v].at = "mark"
      PROVE  uploader'[v].target \in 1..target
  <2>1. CASE v # u
    <3>1. uploader'[v] = uploader[v]
      BY <2>1 DEF Populate
    <3> QED
      BY <1>4, <3>1, MarkedTyped
  <2>2. CASE v = u
    <3> DEFINE r == [Idle EXCEPT !.at = IF periods = {} THEN "list" ELSE "mark",
                                 !.target = target, !.through = Through(u)]
    <3>1. uploader' = [uploader EXCEPT ![u] = r]
      BY DEF Populate
    <3>2. r.target = target
      BY DEF Idle
    <3> HIDE DEF r
    <3> QED
      BY <1>1, <2>2, <3>1, <3>2 DEF Months
  <2> QED
    BY <2>1, <2>2
<1> HIDE DEF target
<1>5. Reserved'
  <2> SUFFICES ASSUME NEW v \in Uploaders, uploader'[v].at = "mark",
                      NEW k \in begun'..uploader'[v].target
               PROVE  Seen(k)'
    BY DEF Reserved
  <2>1. uploader'[v].target \in 1..target /\ target \in Nat /\ begun' \in Nat
    BY <1>1, <1>4 DEF Months
  <2>2. k \in begun'..target
    BY <2>1
  <2> QED
    BY <1>3, <2>2
<1>6. NoMonthSkipped'
  <2> SUFFICES ASSUME NEW k \in begun'..marker' PROVE Seen(k)'
    BY DEF NoMonthSkipped, Seen
  <2>1. marker' \in 0..target /\ target \in Nat /\ begun' \in Nat
    BY <1>1 DEF Months
  <2>2. k \in begun'..target
    BY <2>1
  <2> QED
    BY <1>3, <2>2
<1> QED
  BY <1>5, <1>6

\* A run comes to "mark" by queueing months, and to "delete" by archiving one.
LEMMA StepOfRun ==
  ASSUME Types, NEW u \in Uploaders, RunStep(u)
  PROVE  \E r : /\ uploader' = [uploader EXCEPT ![u] = r]
                /\ r.at = "mark" => Populate(u)
                /\ r.at = "delete" =>
                     /\ uploader[u].at = "upload" /\ r.left = uploader[u].left
                     /\ archive' = [archive EXCEPT ![Min(r.left)] = uploader[u].doc]
<1> DEFINE run == uploader[u]
           Result(r) == /\ uploader' = [uploader EXCEPT ![u] = r]
                        /\ r.at = "mark" => Populate(u)
                        /\ r.at = "delete" =>
                             /\ run.at = "upload" /\ r.left = run.left
                             /\ archive' = [archive EXCEPT ![Min(r.left)] = run.doc]
<1> SUFFICES \E r : Result(r)
  OBVIOUS
<1>1. run \in Run
  BY DEF Types, DataType
<1>2. CASE Populate(u)
  <2> DEFINE periods == Backfill(marker, month - 1)
             r == [Idle EXCEPT !.at = IF periods = {} THEN "list" ELSE "mark",
                               !.target = month - 1, !.through = Through(u)]
  <2>1. uploader' = [uploader EXCEPT ![u] = r]
    BY <1>2 DEF Populate
  <2>2. r.at # "delete"
    BY DEF Idle
  <2> HIDE DEF r
  <2> QED
    BY <1>2, <2>1, <2>2
<1>3. CASE List(u)
  <2> DEFINE left == {k \in queue : k <= run.through}
             r == IF left = {} THEN Idle ELSE [run EXCEPT !.at = "check", !.left = left]
  <2>1. uploader' = [uploader EXCEPT ![u] = r]
    BY <1>3 DEF List
  <2>2. r.at \notin {"mark", "delete"}
    BY <1>1 DEF Run, Idle
  <2> HIDE DEF r
  <2> QED
    BY <2>1, <2>2
<1>4. CASE NextRow(u) /\ run.at \in Busy
  BY <1>4, NextRowTyped
<1>5. ASSUME NEW at \in {"list", "build"}, Goto(u, at)
      PROVE  \E r : Result(r)
  <2> DEFINE r == [run EXCEPT !.at = at]
  <2>1. uploader' = [uploader EXCEPT ![u] = r] /\ r.at \notin {"mark", "delete"}
    BY <1>1, <1>5 DEF Goto, Run
  <2> HIDE DEF r
  <2> QED
    BY <2>1
<1>6. CASE Build(u)
  <2> DEFINE r == [run EXCEPT !.at = "upload", !.doc = Doc(Min(run.left))]
  <2>1. uploader' = [uploader EXCEPT ![u] = r] /\ r.at \notin {"mark", "delete"}
    BY <1>1, <1>6 DEF Build, Run
  <2> HIDE DEF r
  <2> QED
    BY <2>1
<1>7. CASE /\ run.at = "upload" /\ Goto(u, "delete")
           /\ archive' = [archive EXCEPT ![Min(run.left)] = run.doc]
  <2> DEFINE r == [run EXCEPT !.at = "delete"]
  <2>1. uploader' = [uploader EXCEPT ![u] = r] /\ r.at = "delete" /\ r.left = run.left
    BY <1>1, <1>7 DEF Goto, Run
  <2> HIDE DEF r
  <2> QED
    BY <1>7, <2>1
<1>8. CASE Mark(u) \/ Check(u) \/ Delete(u)
  BY <1>4, <1>5, <1>8 DEF Mark, Check, Delete, Busy
<1>9. CASE Upload(u)
  BY <1>4, <1>7, <1>9 DEF Upload, Busy
<1> QED
  BY <1>2, <1>3, <1>6, <1>8, <1>9 DEF RunStep

\* Nothing but a step of a run brings it to "mark" or "delete".
LEMMA OthersStay ==
  ASSUME Types, [Next]_vars, NEW v \in Uploaders, uploader'[v].at \in {"mark", "delete"}
  PROVE  uploader'[v] = uploader[v] \/ RunStep(v)
<1>1. CASE Restart
  BY <1>1 DEF Restart, Idle
<1>2. ASSUME NEW u \in Uploaders, RunStep(u), u # v
      PROVE  uploader'[v] = uploader[v]
  BY <1>2, StepOfRun DEF Types, DataType
<1> QED
  <2>1. UNCHANGED uploader \/ Restart \/ \E u \in Uploaders : RunStep(u)
    BY DEF Next, Edit, Change, Adjust, Requeue, Draft, NextMonth, UploadDay, Configure, vars
  <2> QED
    BY <1>1, <1>2, <2>1

LEMMA ArchivedStep ==
  ASSUME Types, Archived, [Next]_vars
  PROVE  Archived'
<1> SUFFICES ASSUME NEW v \in Uploaders, uploader'[v].at = "delete"
             PROVE  archive'[Min(uploader'[v].left)] # NoDoc
  BY DEF Archived
<1>1. CASE uploader'[v] = uploader[v]
  <2>1. Min(uploader[v].left) \in Months
    BY <1>1, ListTyped DEF Busy
  <2> QED
    BY <1>1, <2>1, StaysArchived DEF Archived
<1>2. CASE RunStep(v)
  <2>1. PICK r : /\ uploader' = [uploader EXCEPT ![v] = r]
                 /\ r.at = "delete" =>
                      /\ uploader[v].at = "upload" /\ r.left = uploader[v].left
                      /\ archive' = [archive EXCEPT ![Min(r.left)] = uploader[v].doc]
    BY <1>2, StepOfRun
  <2>2. uploader'[v] = r /\ archive \in [Months -> Docs]
    BY <2>1 DEF Types, DataType
  <2>3. Min(uploader[v].left) \in Months /\ RunType(uploader[v]) /\ uploader[v].at = "upload"
    BY <2>1, <2>2, ListTyped DEF Busy, Types
  <2>4. uploader[v].doc # NoDoc
    BY <2>3, NoDocIsEmpty DEF RunType
  <2> QED
    BY <2>1, <2>2, <2>3, <2>4
<1> QED
  BY <1>1, <1>2, OthersStay

LEMMA BackfillStep ==
  ASSUME Types, BackfillInv, [Next]_vars
  PROVE  BackfillInv'
<1>1. Archived'
  BY ArchivedStep DEF BackfillInv
<1>2. CASE \E u \in Uploaders : Populate(u)
  BY <1>1, <1>2, PopulateKeeps DEF BackfillInv
<1>3. CASE ~\E u \in Uploaders : Populate(u)
  <2>1. UNCHANGED begun
    BY <1>3 DEF Next, Edit, RunStep, Mark, List, Check, Build, Upload, Delete, Change, Adjust,
       Requeue, Draft, NextMonth, UploadDay, Configure, Restart, vars
  <2>2. UNCHANGED marker
        \/ \E u \in Uploaders : uploader[u].at = "mark" /\ marker' = uploader[u].target
    BY <1>3 DEF Next, Edit, RunStep, Mark, List, Check, Build, Upload, Delete, Change, Adjust,
       Requeue, Draft, NextMonth, UploadDay, Configure, Restart, vars
  <2>3. \A k \in Months : Seen(k) => Seen(k)'
    BY StaysSeen DEF BackfillInv
  <2>4. \A k \in begun'..marker' : k \in Months /\ Seen(k)
    BY <2>1, <2>2, MarkedTyped DEF BackfillInv, Reserved, NoMonthSkipped, Seen
  <2>5. NoMonthSkipped'
    BY <2>3, <2>4 DEF NoMonthSkipped, Seen
  <2>6. Reserved'
    <3> SUFFICES ASSUME NEW v \in Uploaders, uploader'[v].at = "mark",
                        NEW k \in begun'..uploader'[v].target
                 PROVE  Seen(k)'
      BY DEF Reserved
    <3>1. uploader'[v] = uploader[v]
      <4>1. CASE RunStep(v)
        <5>1. PICK r : uploader' = [uploader EXCEPT ![v] = r] /\ (r.at = "mark" => Populate(v))
          BY <4>1, StepOfRun
        <5> QED
          BY <1>3, <5>1 DEF Types, DataType
      <4> QED
        BY <4>1, OthersStay
    <3> QED
      BY <2>1, <2>3, <3>1, MarkedTyped DEF BackfillInv, Reserved
  <2> QED
    BY <1>1, <2>5, <2>6 DEF BackfillInv
<1> QED
  BY <1>2, <1>3

LEMMA InitBackfill == Init => BackfillInv
BY DEF Init, Idle, BackfillInv, Archived, Reserved, NoMonthSkipped

\* From the month that was queued first, no month the marker has passed is skipped:
\* not while uploads are off or the server is down, and not when one of two runs stalls
\* between its statements over the turn of a month.
THEOREM NoMonthIsSkipped == Spec => []NoMonthSkipped
<1>1. Init => Types /\ BackfillInv
  BY InitTypes, InitBackfill
<1>2. Types /\ BackfillInv /\ [Next]_vars => Types' /\ BackfillInv'
  BY NextKeepsTypes, BackfillStep
<1>3. BackfillInv => NoMonthSkipped
  BY DEF BackfillInv
<1> QED
  BY <1>1, <1>2, <1>3, PTL DEF Spec

==============================================================================
