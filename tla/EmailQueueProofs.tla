-------------------------- MODULE EmailQueueProofs --------------------------
(***************************************************************************)
(* Proofs about EmailQueue, for every number of mails, every threshold,    *)
(* batch size and bound.                                                   *)
(***************************************************************************)
EXTENDS EmailQueue, FiniteSetTheorems, TLAPS

\* A mail about to be deleted was accepted.
DeletesAccepted ==
  worker.at = "delete" /\ Current \in Mails => accepted[Current] > 0

\* The tables the proofs read.
Rows ==
  /\ queue \subseteq Mails
  /\ accepted \in [Mails -> Nat]

QueueInv == Rows /\ DeletesAccepted

\* A trial is under way only while the breaker cools down or is closed: one that
\* has cooled down has none, so the next trial is the only one.
BreakerInv ==
  /\ OneTrial
  /\ breaker.opened = "cooled" => trials = {}
  /\ breaker \in [failures : Nat, opened : {"no", "cooling", "cooled"}]

----------------------------------------------------------------------------
(* The queue                                                               *)

LEMMA QueueInit == Init => QueueInv
  BY DEF Init, QueueInv, Rows, DeletesAccepted, Resting, Mails

LEMMA EnqueueKeepsRows ==
  ASSUME queue \subseteq Mails, NEW kind, Enqueue(kind)
  PROVE  queue' \subseteq Mails /\ queue \subseteq queue'
  BY DEF Enqueue

\* Steps that neither touch the worker nor the server's count.
LEMMA WorkerUntouched ==
  ASSUME QueueInv, queue' \subseteq Mails, UNCHANGED <<accepted, worker>>
  PROVE  QueueInv'
  BY DEF QueueInv, Rows, DeletesAccepted, Current

\* Steps of the worker that do not end in "delete".
LEMMA WorkerElsewhere ==
  ASSUME QueueInv, queue' \subseteq queue, UNCHANGED accepted, worker'.at # "delete"
  PROVE  QueueInv'
  BY DEF QueueInv, Rows, DeletesAccepted

LEMMA NextMailElsewhere ==
  ASSUME NextMail
  PROVE  worker'.at # "delete"
  BY DEF NextMail, Resting

LEMMA QueueStep == QueueInv /\ [Next]_vars => QueueInv'
<1> SUFFICES ASSUME QueueInv, [Next]_vars PROVE QueueInv'
  OBVIOUS
<1>1. CASE Compose
  BY <1>1, EnqueueKeepsRows, WorkerUntouched DEF Compose, QueueInv, Rows
<1>2. CASE CoolDown \/ PayrollAttempt \/ PayrollEnd \/ DeleteReport \/ ServerDown \/ ServerUp
  BY <1>2, WorkerUntouched
     DEF CoolDown, PayrollAttempt, PayrollEnd, DeleteReport, ServerDown, ServerUp,
         QueueInv, Rows
<1>3. CASE \E m \in Mails : ReadNotice(m)
  BY <1>3, WorkerUntouched DEF ReadNotice, QueueInv, Rows
<1>4. CASE \E x \in reports : DeliverReport(x)
  <2>1. PICK x \in reports : DeliverReport(x)
    BY <1>4
  <2>2. queue' \subseteq Mails
    BY <2>1, EnqueueKeepsRows DEF DeliverReport, QueueInv, Rows
  <2> QED
    BY <2>1, <2>2, WorkerUntouched DEF DeliverReport
<1>5. CASE Poll \/ Attempt \/ Decline
  BY <1>5, WorkerElsewhere DEF Poll, Attempt, Decline, Goto, Resting
<1>6. CASE Accept
  <2>1. Current' = Current
    BY <1>6 DEF Accept, Goto, Current
  <2>2. accepted' = [accepted EXCEPT ![Current] = @ + 1] /\ UNCHANGED queue
    BY <1>6 DEF Accept
  <2>3. accepted \in [Mails -> Nat]
    BY DEF QueueInv, Rows
  <2>4. accepted' \in [Mails -> Nat] /\ (Current \in Mails => accepted'[Current] > 0)
    <3>1. CASE Current \in Mails
      <4>1. accepted[Current] \in Nat
        BY <2>3, <3>1
      <4>2. accepted[Current] + 1 \in Nat /\ accepted[Current] + 1 > 0
        BY <4>1
      <4> QED
        BY <2>2, <2>3, <3>1, <4>2
    <3>2. CASE Current \notin Mails
      BY <2>2, <2>3, <3>2
    <3> QED
      BY <3>1, <3>2
  <2> QED
    BY <2>1, <2>2, <2>4 DEF QueueInv, Rows, DeletesAccepted
<1>7. CASE Delete \/ Record \/ Report
  <2>1. worker'.at # "delete"
    BY <1>7, NextMailElsewhere DEF Delete, Record, Report, Goto
  <2> QED
    BY <1>7, <2>1, WorkerElsewhere DEF Delete, Record, Report
<1>8. CASE Restart
  BY <1>8, WorkerElsewhere DEF Restart, Resting
<1>9. CASE UNCHANGED vars
  BY <1>9, WorkerUntouched DEF vars, QueueInv, Rows
<1> QED
  BY <1>1, <1>2, <1>3, <1>4, <1>5, <1>6, <1>7, <1>8, <1>9 DEF Next, WorkerStep, ErrorStep

LEMMA DeliveredStep == QueueInv /\ [Next]_vars => [LeavesDelivered]_vars
<1> SUFFICES ASSUME QueueInv, [Next]_vars PROVE LeavesDelivered
  OBVIOUS
<1>1. CASE queue \subseteq queue'
  BY <1>1 DEF LeavesDelivered
<1>2. CASE Delete
  <2>1. worker.at = "delete" /\ queue' \in {queue, queue \ {Current}}
    BY <1>2 DEF Delete
  <2> QED
    BY <2>1 DEF LeavesDelivered, QueueInv, Rows, DeletesAccepted
<1>3. CASE Compose
  BY <1>1, <1>3, EnqueueKeepsRows DEF Compose, QueueInv, Rows
<1>4. CASE \E x \in reports : DeliverReport(x)
  BY <1>1, <1>4, EnqueueKeepsRows DEF DeliverReport, QueueInv, Rows
<1>5. CASE UNCHANGED queue
  BY <1>1, <1>5
<1>6. ASSUME ~Delete, ~Compose, ~(\E x \in reports : DeliverReport(x)) PROVE UNCHANGED queue
  BY <1>6
     DEF Next, WorkerStep, ErrorStep, CoolDown, PayrollAttempt, PayrollEnd, DeleteReport,
         ServerDown, ServerUp, ReadNotice, Poll, Attempt, Accept, Decline, Record, Report,
         Restart, vars
<1> QED
  BY <1>2, <1>3, <1>4, <1>5, <1>6

\* A row leaves email_queue only when the SMTP server has accepted its mail:
\* process_pending drops nothing, whatever fails or restarts.
THEOREM NothingIsLost == Spec => NothingLost
<1>1. Init => QueueInv
  BY QueueInit
<1>2. QueueInv /\ [Next]_vars => QueueInv'
  BY QueueStep
<1>3. QueueInv /\ [Next]_vars => [LeavesDelivered]_vars
  BY DeliveredStep
<1> QED
  BY <1>1, <1>2, <1>3, PTL DEF Spec, NothingLost

----------------------------------------------------------------------------
(* The circuit breaker                                                     *)

LEMMA BreakerInit == Init => BreakerInv
  BY DEF Init, BreakerInv, OneTrial, Closed

LEMMA AllowKeeps ==
  ASSUME BreakerInv, NEW sender, Allow(sender)
  PROVE  BreakerInv'
  BY DEF Allow, CanAttempt, BreakerInv, OneTrial

LEMMA SuccessKeeps ==
  ASSUME BreakerInv, NEW sender, RecordSuccess(sender)
  PROVE  BreakerInv'
  BY DEF RecordSuccess, Closed, BreakerInv, OneTrial

LEMMA FailureKeeps ==
  ASSUME BreakerInv, NEW sender, RecordFailure(sender)
  PROVE  BreakerInv'
  BY QueueAssumption DEF RecordFailure, BreakerInv, OneTrial

LEMMA BreakerStep == BreakerInv /\ [Next]_vars => BreakerInv'
<1> SUFFICES ASSUME BreakerInv, [Next]_vars PROVE BreakerInv'
  OBVIOUS
<1>1. CASE UNCHANGED <<breaker, trials>>
  BY <1>1 DEF BreakerInv, OneTrial
<1>2. CASE Attempt
  BY <1>1, <1>2, AllowKeeps DEF Attempt
<1>3. CASE PayrollAttempt
  BY <1>3, AllowKeeps DEF PayrollAttempt
<1>4. CASE Accept
  BY <1>4, SuccessKeeps, FailureKeeps DEF Accept
<1>5. CASE Decline
  BY <1>5, FailureKeeps DEF Decline
<1>6. CASE PayrollEnd
  BY <1>6, SuccessKeeps, FailureKeeps DEF PayrollEnd
<1>7. CASE CoolDown
  BY <1>7 DEF CoolDown, BreakerInv, OneTrial
<1>8. CASE Restart
  BY <1>8 DEF Restart, Closed, BreakerInv, OneTrial
<1>9. ASSUME ~Attempt, ~PayrollAttempt, ~Accept, ~Decline, ~PayrollEnd, ~CoolDown, ~Restart
      PROVE  UNCHANGED <<breaker, trials>>
  BY <1>9
     DEF Next, WorkerStep, ErrorStep, Compose, Poll, Delete, Record, Report, DeliverReport,
         DeleteReport, ReadNotice, ServerDown, ServerUp, vars
<1> QED
  BY <1>1, <1>2, <1>3, <1>4, <1>5, <1>6, <1>7, <1>8, <1>9

\* While the breaker is open at most one sender is trying the server: the queue
\* worker and the payroll report never get a half-open trial side by side.
THEOREM OneTrialAlways == Spec => []OneTrial
<1>1. Init => BreakerInv
  BY BreakerInit
<1>2. BreakerInv /\ [Next]_vars => BreakerInv'
  BY BreakerStep
<1>3. BreakerInv => OneTrial
  BY DEF BreakerInv
<1> QED
  BY <1>1, <1>2, <1>3, PTL DEF Spec

----------------------------------------------------------------------------
(* Lists of rows: the failed rows and the batches                          *)

\* A sequence without repetitions, of rows in a set.
Lists(s, rows) == s \in Seq(rows) /\ IsInjective(s)

\* Without takes one row out of a list, and nothing else.
LEMMA WithoutOne ==
  ASSUME NEW rows, NEW s, Lists(s, rows), NEW m
  PROVE  /\ Lists(Without(s, m), rows \ {m})
         /\ Range(Without(s, m)) = Range(s) \ {m}
<1>1. CASE m \notin Range(s)
  <2>1. Without(s, m) = s
    BY <1>1 DEF Without
  <2>2. s \in Seq(rows \ {m})
    BY <1>1 DEF Lists, Range
  <2> QED
    BY <1>1, <2>1, <2>2 DEF Lists, Range
<1>2. CASE m \in Range(s)
  <2> DEFINE k == CHOOSE j \in DOMAIN s : s[j] = m
             t == Without(s, m)
  <2>1. k \in 1..Len(s) /\ s[k] = m
    BY <1>2 DEF Range, Lists
  <2>2. t = SubSeq(s, 1, k - 1) \o SubSeq(s, k + 1, Len(s))
    BY <1>2 DEF Without, RemoveAt
  <2> HIDE DEF k, t
  <2>3. /\ t \in Seq(rows) /\ Len(t) = Len(s) - 1
        /\ \A j \in 1..Len(s) - 1 : t[j] = IF j < k THEN s[j] ELSE s[j + 1]
    <3> DEFINE a == SubSeq(s, 1, k - 1)
               b == SubSeq(s, k + 1, Len(s))
    <3>1. a \in Seq(rows) /\ Len(a) = k - 1 /\ \A j \in 1..k - 1 : a[j] = s[j]
      BY <2>1 DEF Lists
    <3>2. b \in Seq(rows) /\ Len(b) = Len(s) - k /\ \A j \in 1..Len(s) - k : b[j] = s[j + k]
      BY <2>1 DEF Lists
    <3>3. t = a \o b
      BY <2>2
    <3> HIDE DEF a, b
    <3>4. t \in Seq(rows) /\ Len(t) = Len(s) - 1
      BY <2>1, <3>1, <3>2, <3>3 DEF Lists
    <3>5. ASSUME NEW j \in 1..Len(s) - 1
          PROVE  t[j] = IF j < k THEN s[j] ELSE s[j + 1]
      <4>1. CASE j < k
        BY <2>1, <3>1, <3>2, <3>3, <4>1 DEF Lists
      <4>2. CASE j >= k
        <5>1. j - (k - 1) \in 1..Len(s) - k /\ t[j] = b[j - (k - 1)]
          BY <2>1, <3>1, <3>2, <3>3, <4>2 DEF Lists
        <5> QED
          BY <2>1, <3>2, <4>2, <5>1 DEF Lists
      <4> QED
        BY <2>1, <4>1, <4>2 DEF Lists
    <3> QED
      BY <3>4, <3>5
  <2>4. \A i, j \in 1..Len(s) : s[i] = s[j] => i = j
    BY DEF Lists, IsInjective
  <2>5. \A j \in 1..Len(t) : t[j] # m
    BY <2>1, <2>3, <2>4
  <2>6. IsInjective(t)
    <3>1. SUFFICES ASSUME NEW i \in 1..Len(t), NEW j \in 1..Len(t), t[i] = t[j] PROVE i = j
      BY <2>3 DEF IsInjective
    <3> QED
      BY <2>1, <2>3, <2>4, <3>1 DEF Lists
  <2>7. t \in Seq(rows \ {m})
    BY <2>3, <2>5
  <2>8. Range(t) = Range(s) \ {m}
    <3>1. Range(t) \subseteq Range(s) \ {m}
      BY <2>1, <2>3, <2>5 DEF Range, Lists
    <3>2. ASSUME NEW j \in 1..Len(s), s[j] # m PROVE s[j] \in Range(t)
      <4>1. CASE j < k
        <5>1. j \in 1..Len(t) /\ t[j] = s[j]
          BY <2>1, <2>3, <4>1 DEF Lists
        <5> QED
          BY <2>3, <5>1 DEF Range
      <4>2. CASE j > k
        <5>1. j - 1 \in 1..Len(t) /\ t[j - 1] = s[j]
          BY <2>1, <2>3, <4>2 DEF Lists
        <5> QED
          BY <2>3, <5>1 DEF Range
      <4> QED
        BY <2>1, <3>2, <4>1, <4>2
    <3> QED
      <4>1. \A x \in Range(s) \ {m} : x \in Range(t)
        BY <3>2 DEF Range, Lists
      <4> QED
        BY <3>1, <4>1
  <2> QED
    BY <2>6, <2>7, <2>8 DEF Lists, t
<1> QED
  BY <1>1, <1>2

LEMMA AppendOne ==
  ASSUME NEW rows, NEW m \in rows, NEW s, Lists(s, rows \ {m})
  PROVE  /\ Lists(Append(s, m), rows)
         /\ Range(Append(s, m)) = Range(s) \cup {m}
<1> DEFINE t == Append(s, m)
<1>1. /\ t \in Seq(rows) /\ Len(t) = Len(s) + 1 /\ t[Len(s) + 1] = m
      /\ \A j \in 1..Len(s) : t[j] = s[j] /\ s[j] \in rows /\ s[j] # m
  BY DEF Lists
<1> QED
  BY <1>1 DEF Lists, IsInjective, Range

LEMMA TailRest ==
  ASSUME NEW rows, NEW s, Lists(s, rows), s # <<>>
  PROVE  /\ Lists(Tail(s), rows \ {Head(s)}) /\ Head(s) \in rows
         /\ Len(s) # 1 => Tail(s) # <<>>
<1> DEFINE t == Tail(s)
<1>1. /\ t \in Seq(rows) /\ Len(t) = Len(s) - 1 /\ Len(s) \in Nat \ {0}
      /\ \A j \in 1..Len(t) : t[j] = s[j + 1]
      /\ Head(s) = s[1] /\ s[1] \in rows
  BY DEF Lists
<1> HIDE DEF t
<1>2. \A i, j \in 1..Len(s) : s[i] = s[j] => i = j
  BY DEF Lists, IsInjective
<1>3. \A j \in 1..Len(t) : t[j] # Head(s)
  BY <1>1, <1>2
<1>4. t \in Seq(rows \ {Head(s)})
  BY <1>1, <1>3
<1>5. IsInjective(t)
  BY <1>1, <1>2 DEF IsInjective
<1> QED
  BY <1>1, <1>4, <1>5 DEF Lists, t

LEMMA FirstOfLists ==
  ASSUME NEW rows, NEW s, Lists(s, rows)
  PROVE  Lists(FirstOf(s), rows) /\ (s # <<>> => FirstOf(s) # <<>>)
<1> DEFINE n == IF Len(s) < BatchLimit THEN Len(s) ELSE BatchLimit
           t == FirstOf(s)
<1>1. n \in 0..Len(s) /\ (s # <<>> => n > 0)
  BY QueueAssumption DEF Lists
<1>2. t = SubSeq(s, 1, n)
  BY DEF FirstOf
<1> HIDE DEF n, t
<1>3. t \in Seq(rows) /\ Len(t) = n /\ \A j \in 1..n : t[j] = s[j]
  BY <1>1, <1>2 DEF Lists
<1>4. IsInjective(t)
  BY <1>1, <1>3 DEF Lists, IsInjective
<1> QED
  BY <1>1, <1>3, <1>4 DEF Lists, t

\* list_pending lists queued rows, none twice, and some row while there is one.
LEMMA Batches ==
  ASSUME queue \subseteq Mails, Lists(failed, queue), queue # {},
         NEW batch \in ListPending
  PROVE  Lists(batch, queue) /\ batch # <<>>
<1> DEFINE fresh == queue \ Range(failed)
<1>1. PICK list \in ById(fresh) : batch = FirstOf(list \o failed)
  BY DEF ListPending
<1> DEFINE n == Cardinality(fresh)
           all == list \o failed
<1>2. IsFiniteSet(fresh) /\ n \in Nat /\ (fresh # {} => n > 0)
  <2>1. IsFiniteSet(Mails)
    BY QueueAssumption, FS_Interval DEF Mails
  <2>2. IsFiniteSet(fresh)
    BY <2>1, FS_Subset
  <2> QED
    BY <2>2, FS_CardinalityType, FS_EmptySet
<1>3. list \in [1..n -> fresh] /\ \A i, j \in 1..n : i < j => list[i] < list[j]
  BY <1>1 DEF ById
<1> HIDE DEF n
<1>4. list \in Seq(fresh) /\ Len(list) = n
  BY <1>2, <1>3
<1>5. \A i \in 1..n : list[i] \in Int
  <2>1. Mails \subseteq Int
    BY DEF Mails
  <2> QED
    BY <1>3, <2>1
<1>6. \A i, j \in 1..n : list[i] = list[j] => i = j
  BY <1>2, <1>3, <1>5
<1>7. /\ all \in Seq(queue) /\ Len(all) = n + Len(failed)
      /\ \A j \in 1..n : all[j] = list[j]
      /\ \A j \in n + 1..n + Len(failed) : all[j] = failed[j - n]
  BY <1>2, <1>4 DEF Lists
<1>8. \A i \in 1..n, j \in 1..Len(failed) : list[i] # failed[j]
  BY <1>3 DEF Range, Lists
<1>9. \A i, j \in 1..Len(failed) : failed[i] = failed[j] => i = j
  BY DEF Lists, IsInjective
<1>10. IsInjective(all)
  <2>1. SUFFICES ASSUME NEW i \in 1..Len(all), NEW j \in 1..Len(all), all[i] = all[j]
                 PROVE  i = j
    BY <1>7 DEF IsInjective
  <2>2. Len(failed) \in Nat
    BY DEF Lists
  <2>3. i \in 1..n \/ i - n \in 1..Len(failed)
    BY <1>2, <1>7, <2>2
  <2>4. j \in 1..n \/ j - n \in 1..Len(failed)
    BY <1>2, <1>7, <2>2
  <2> QED
    BY <1>2, <1>6, <1>7, <1>8, <1>9, <2>1, <2>2, <2>3, <2>4
<1>11. all # <<>>
  <2>1. CASE fresh # {}
    BY <1>2, <1>7, <2>1 DEF Lists, n
  <2>2. CASE fresh = {}
    BY <1>2, <1>7, <2>2 DEF Lists, Range
  <2> QED
    BY <2>1, <2>2
<1> QED
  BY <1>1, <1>7, <1>10, <1>11, FirstOfLists DEF Lists

----------------------------------------------------------------------------
(* Nothing is sent twice without a fault                                   *)

Steps == {"idle", "next", "send", "delete", "record", "report"}

MailRow ==
  [kind : {"none", "ordinary", "alert"}, attempts : 0..Persistent + 1, error : Errors]
UsedUp == [faults : Nat, outages : Nat, payrolls : Nat]

\* Ids are given out in order, so a new one has never been used.
Tables ==
  /\ mail \in [Mails -> MailRow]
  /\ accepted \in [Mails -> Nat]
  /\ used \in UsedUp
  /\ queue \subseteq Created
  /\ \E n \in Nat : Created = 1..n

FailedRows ==
  /\ Lists(failed, queue)
  /\ Range(failed) = {m \in queue : mail[m].attempts > 0}

\* The worker's batch repeats no row, and only the worker deletes rows.
Batch ==
  /\ worker \in [at : Steps, batch : Seq(Mails), error : Errors]
  /\ Lists(worker.batch, queue)
  /\ worker.at # "idle" <=> worker.batch # <<>>
  /\ worker.at = "report" => Current \in Ordinary

\* The acceptance that no fault accounts for is the last: its row is about to be
\* deleted, or is gone.
Unpaid(m) == m \notin queue \/ (worker.at = "delete" /\ Current = m)

Sends ==
  \A m \in Mails :
    /\ accepted[m] <= used.faults + (IF Unpaid(m) THEN 1 ELSE 0)
    /\ mail[m].kind = "none" => accepted[m] = 0

\* Reports are about ordinary mail, never about alerts.
Alerts == \A x \in reports \cup ({alerting} \ {NoReport}) : x.about \in Ordinary

MailInv == Tables /\ FailedRows /\ Batch /\ Sends /\ Alerts

LEMMA MailInit == Init => MailInv
<1> SUFFICES ASSUME Init PROVE MailInv
  OBVIOUS
<1>1. Tables
  <2>1. \A m \in Mails : mail[m] = [kind |-> "none", attempts |-> 0, error |-> "none"]
    BY DEF Init
  <2>2. Created = {}
    BY <2>1 DEF Created
  <2>3. Created = 1..0
    BY <2>2
  <2>4. [kind |-> "none", attempts |-> 0, error |-> "none"] \in MailRow
    BY QueueAssumption DEF Errors, MailRow
  <2> QED
    BY <2>3, <2>4 DEF Init, Tables, MailRow, UsedUp
<1>2. FailedRows
  BY DEF Init, FailedRows, Lists, IsInjective, Range
<1>3. Batch
  BY DEF Init, Batch, Resting, Steps, Errors, Lists, IsInjective
<1>4. Sends
  BY DEF Init, Sends
<1>5. Alerts
  BY DEF Init, Alerts
<1> QED
  BY <1>1, <1>2, <1>3, <1>4, <1>5 DEF MailInv

LEMMA FaultUses ==
  ASSUME Tables, Fault
  PROVE  /\ used' \in UsedUp
         /\ used'.faults = used.faults + 1
  BY DEF Tables, MailRow, UsedUp, Fault, Use

LEMMA OtherUses ==
  ASSUME Tables, Use("outages") \/ Use("payrolls")
  PROVE  /\ used' \in UsedUp
         /\ used'.faults = used.faults
  BY DEF Tables, MailRow, UsedUp, Use

\* A new mail has an id of its own, which nothing refers to.
LEMMA EnqueueAdds ==
  ASSUME Tables, NEW kind \in {"ordinary", "alert"}, Enqueue(kind)
  PROVE  \/ UNCHANGED <<queue, mail>>
         \/ \E m \in Mails \ Created :
              /\ queue' = queue \cup {m}
              /\ mail' = [mail EXCEPT ![m] = [kind |-> kind, attempts |-> 0, error |-> "none"]]
              /\ Created' = 1..m
<1> DEFINE m == Cardinality(Created) + 1
<1>1. PICK n \in Nat : Created = 1..n
  BY DEF Tables, MailRow, UsedUp
<1>2. m = n + 1
  <2>1. Cardinality(1..n) = IF 1 > n THEN 0 ELSE n - 1 + 1
    BY <1>1, FS_Interval
  <2> QED
    BY <1>1, <2>1
<1>3. ASSUME m \in Mails
      PROVE  /\ queue' = queue \cup {m}
             /\ mail' = [mail EXCEPT ![m] = [kind |-> kind, attempts |-> 0, error |-> "none"]]
  BY <1>3 DEF Enqueue
<1>4. m \notin Mails => UNCHANGED <<queue, mail>>
  BY DEF Enqueue
<1> HIDE DEF m
<1>5. ASSUME m \in Mails PROVE Created' = 1..m
  <2>1. \A x \in Mails : mail'[x].kind # "none" <=> x = m \/ mail[x].kind # "none"
    BY <1>3, <1>5 DEF Tables, MailRow, UsedUp
  <2>2. Created' = Created \cup {m}
    BY <2>1, <1>5 DEF Created
  <2> QED
    BY <1>1, <1>2, <2>2
<1> QED
  BY <1>1, <1>2, <1>3, <1>4, <1>5

LEMMA EnqueueKeeps ==
  ASSUME MailInv, NEW kind \in {"ordinary", "alert"}, Enqueue(kind),
         UNCHANGED <<failed, accepted, worker, used>>
  PROVE  Tables' /\ FailedRows' /\ Batch' /\ Sends' /\ Ordinary \subseteq Ordinary'
<1>1. CASE UNCHANGED <<queue, mail>>
  <2>1. Created' = Created /\ Ordinary' = Ordinary /\ Current' = Current
    BY <1>1 DEF Created, Ordinary, Current
  <2> QED
    BY <1>1, <2>1
       DEF MailInv, Tables, MailRow, UsedUp, FailedRows, Batch, Sends, Unpaid, Lists
<1>2. ASSUME NEW m \in Mails \ Created,
             queue' = queue \cup {m},
             mail' = [mail EXCEPT ![m] = [kind |-> kind, attempts |-> 0, error |-> "none"]],
             Created' = 1..m
      PROVE  Tables' /\ FailedRows' /\ Batch' /\ Sends' /\ Ordinary \subseteq Ordinary'
  <2>1. mail[m].kind = "none" /\ m \notin queue /\ accepted[m] = 0
    BY DEF MailInv, Tables, MailRow, UsedUp, Sends, Created
  <2>2. /\ mail'[m] = [kind |-> kind, attempts |-> 0, error |-> "none"]
        /\ \A x \in Mails : x # m => mail'[x] = mail[x]
    BY <1>2 DEF MailInv, Tables, MailRow, UsedUp
  <2>3. Ordinary \subseteq Ordinary'
    BY <2>1, <2>2 DEF Ordinary
  <2>4. Tables'
    <3>1. [kind |-> kind, attempts |-> 0, error |-> "none"] \in MailRow
      BY QueueAssumption DEF Errors, MailRow
    <3>2. mail' \in [Mails -> MailRow]
      BY <1>2, <3>1 DEF MailInv, Tables, MailRow, UsedUp
    <3>3. queue' \subseteq Created'
      BY <1>2, <2>2 DEF MailInv, Tables, MailRow, UsedUp, Created
    <3>4. m \in Nat
      BY DEF Mails
    <3> QED
      BY <1>2, <3>2, <3>3, <3>4 DEF MailInv, Tables, MailRow, UsedUp
  <2>5. FailedRows'
    <3>1. Lists(failed, queue')
      BY <1>2 DEF MailInv, FailedRows, Lists
    <3>2. {x \in queue' : mail'[x].attempts > 0} = {x \in queue : mail[x].attempts > 0}
      BY <1>2, <2>1, <2>2 DEF MailInv, Tables, MailRow, UsedUp, Created
    <3> QED
      BY <3>1, <3>2 DEF MailInv, FailedRows, Lists
  <2>6. Batch'
    BY <1>2, <2>3 DEF MailInv, Batch, Lists, Current
  <2>7. Sends'
    <3>1. ASSUME NEW x \in Mails
          PROVE  /\ accepted[x] <= used.faults + (IF Unpaid(x)' THEN 1 ELSE 0)
                 /\ mail'[x].kind = "none" => accepted[x] = 0
      <4>1. CASE x = m
        BY <2>1, <2>2, <4>1 DEF MailInv, Tables, MailRow, UsedUp
      <4>2. CASE x # m
        <5>1. Unpaid(x)' = Unpaid(x)
          BY <1>2, <4>2 DEF Unpaid, Current
        <5> QED
          BY <2>2, <4>2, <5>1 DEF MailInv, Sends
      <4> QED
        BY <4>1, <4>2
    <3> QED
      BY <3>1 DEF Sends
  <2> QED
    BY <2>3, <2>4, <2>5, <2>6, <2>7
<1> QED
  BY <1>1, <1>2, EnqueueAdds DEF MailInv

\* Steps that touch neither the tables nor the worker.
LEMMA TablesUntouched ==
  ASSUME MailInv, UNCHANGED <<queue, failed, mail, accepted, worker>>,
         used' \in UsedUp,
         used'.faults >= used.faults
  PROVE  Tables' /\ FailedRows' /\ Batch' /\ Sends' /\ Ordinary' = Ordinary
<1>1. Created' = Created /\ Ordinary' = Ordinary /\ Current' = Current
  BY DEF Created, Ordinary, Current
<1>2. used.faults \in Nat /\ used'.faults \in Nat
  BY DEF MailInv, Tables, MailRow, UsedUp
<1>3. Tables'
  BY <1>1 DEF MailInv, Tables, MailRow, UsedUp
<1>4. FailedRows' /\ Batch'
  BY <1>1 DEF MailInv, FailedRows, Batch, Lists
<1>5. Sends'
  <2>1. \A m \in Mails : Unpaid(m)' = Unpaid(m)
    BY <1>1 DEF Unpaid
  <2>2. \A m \in Mails : accepted[m] \in Nat
    BY DEF MailInv, Tables, MailRow, UsedUp
  <2> QED
    BY <1>2, <2>1, <2>2 DEF MailInv, Sends
<1> QED
  BY <1>1, <1>3, <1>4, <1>5

\* The worker's steps, as far as they leave the queue and the mails alone.
LEMMA WorkerMoves ==
  ASSUME MailInv, UNCHANGED <<queue, failed, mail>>,
         accepted' \in [Mails -> Nat],
         used' \in UsedUp
  PROVE  Tables' /\ FailedRows' /\ Ordinary' = Ordinary
<1>1. Created' = Created /\ Ordinary' = Ordinary
  BY DEF Created, Ordinary
<1> QED
  BY <1>1 DEF MailInv, Tables, MailRow, UsedUp, FailedRows, Lists

\* The rest of the batch is still in the queue when its head leaves.
LEMMA NextMailKeeps ==
  ASSUME MailInv, worker.at # "idle", NextMail,
         queue' \in {queue, queue \ {Current}}, Ordinary' = Ordinary
  PROVE  Batch' /\ worker'.at \in {"idle", "next"}
<1>1. worker.batch # <<>> /\ Lists(worker.batch, queue) /\ worker.batch \in Seq(Mails)
  BY DEF MailInv, Batch
<1>2. CASE Len(worker.batch) = 1
  <2>1. worker' = [at |-> "idle", batch |-> <<>>, error |-> "none"]
    BY <1>2 DEF NextMail, Resting
  <2> QED
    BY <2>1 DEF Batch, Steps, Errors, Lists, IsInjective
<1>3. CASE Len(worker.batch) # 1
  <2>1. worker' = [at |-> "next", batch |-> Tail(worker.batch), error |-> "none"]
    BY <1>3 DEF NextMail
  <2>2. /\ Lists(Tail(worker.batch), queue \ {Current}) /\ Tail(worker.batch) # <<>>
        /\ Tail(worker.batch) \in Seq(Mails)
    BY <1>1, <1>3, TailRest DEF Current
  <2>3. Lists(Tail(worker.batch), queue')
    BY <2>2 DEF Lists
  <2> QED
    BY <2>1, <2>2, <2>3 DEF Batch, Steps, Errors
<1> QED
  BY <1>2, <1>3

LEMMA GotoKeeps ==
  ASSUME MailInv, worker.at # "idle", NEW at \in Steps \ {"idle"}, NEW error \in Errors,
         Goto(at, error), UNCHANGED queue, Ordinary' = Ordinary,
         at = "report" => Current \in Ordinary
  PROVE  Batch' /\ worker'.at = at /\ Current' = Current
<1>1. worker' = [at |-> at, batch |-> worker.batch, error |-> error]
  BY DEF Goto
<1>2. Current' = Current
  BY <1>1 DEF Current
<1> QED
  BY <1>1, <1>2 DEF MailInv, Batch, Lists

\* Steps that neither end an acceptance nor send.
LEMMA SendsKept ==
  ASSUME MailInv, UNCHANGED accepted, queue' \subseteq queue, worker.at # "delete",
         used' \in UsedUp,
         used'.faults >= used.faults,
         \A m \in Mails : mail'[m].kind = mail[m].kind
  PROVE  Sends'
<1>1. ASSUME NEW m \in Mails
      PROVE  /\ accepted[m] <= used'.faults + (IF Unpaid(m)' THEN 1 ELSE 0)
             /\ mail'[m].kind = "none" => accepted[m] = 0
  <2>1. accepted[m] \in Nat /\ used.faults \in Nat /\ used'.faults \in Nat
    BY DEF MailInv, Tables, MailRow, UsedUp
  <2>2. Unpaid(m) => Unpaid(m)'
    BY DEF Unpaid
  <2> QED
    BY <2>1, <2>2 DEF MailInv, Sends
<1> QED
  BY <1>1 DEF Sends

LEMMA CurrentQueued ==
  ASSUME MailInv, worker.at # "idle"
  PROVE  Current \in queue /\ Current \in Mails /\ Current \in Created
BY TailRest DEF MailInv, Batch, Tables, MailRow, UsedUp, Current, Created

LEMMA PollKeeps ==
  ASSUME MailInv, Poll
  PROVE  Tables' /\ FailedRows' /\ Batch' /\ Sends' /\ Ordinary' = Ordinary
<1>1. Tables' /\ FailedRows' /\ Ordinary' = Ordinary
  BY WorkerMoves DEF Poll, MailInv, Tables, MailRow, UsedUp
<1>2. PICK batch \in ListPending : worker' = [at |-> "next", batch |-> batch, error |-> "none"]
  BY DEF Poll
<1>3. queue \subseteq Mails
  BY DEF MailInv, Tables, MailRow, UsedUp, Created
<1>4. Lists(batch, queue) /\ batch # <<>> /\ batch \in Seq(Mails)
  BY <1>3, Batches DEF Poll, MailInv, FailedRows, Lists
<1>5. Batch'
  BY <1>2, <1>4 DEF Batch, Steps, Errors, Lists, Poll
<1>6. Sends'
  <2>1. used.faults >= used.faults
    BY DEF MailInv, Tables, MailRow, UsedUp
  <2> QED
    BY <2>1, SendsKept DEF Poll, MailInv, Tables, MailRow, UsedUp
<1> QED
  BY <1>1, <1>5, <1>6

LEMMA AttemptKeeps ==
  ASSUME MailInv, Attempt
  PROVE  Tables' /\ FailedRows' /\ Batch' /\ Sends' /\ Ordinary' = Ordinary
<1>1. Tables' /\ FailedRows' /\ Ordinary' = Ordinary
  BY WorkerMoves DEF Attempt, MailInv, Tables, MailRow, UsedUp
<1>2. worker.at = "next" /\ UNCHANGED <<queue, mail, accepted, used>>
  BY DEF Attempt
<1>3. Goto("send", "none") => Batch'
  <2>1. "send" \in Steps \ {"idle"} /\ "none" \in Errors
    BY DEF Steps, Errors
  <2> QED
    BY <1>1, <1>2, <2>1, GotoKeeps
<1>4. worker' = Resting => Batch'
  BY DEF Resting, Batch, Steps, Errors, Lists, IsInjective
<1>5. Sends'
  <2>1. used.faults >= used.faults
    BY DEF MailInv, Tables, MailRow, UsedUp
  <2> QED
    BY <1>2, <2>1, SendsKept DEF MailInv, Tables, MailRow, UsedUp
<1> QED
  BY <1>1, <1>3, <1>4, <1>5 DEF Attempt

LEMMA DeclineKeeps ==
  ASSUME MailInv, Decline
  PROVE  Tables' /\ FailedRows' /\ Batch' /\ Sends' /\ Ordinary' = Ordinary
<1>1. Tables' /\ FailedRows' /\ Ordinary' = Ordinary
  BY WorkerMoves DEF Decline, MailInv, Tables, MailRow, UsedUp
<1>2. PICK error \in {"unreachable", "refused"} : Goto("record", error)
  BY DEF Decline
<1>3. Batch'
  BY <1>1, <1>2, GotoKeeps DEF Decline, Steps, Errors
<1>4. Sends'
  BY SendsKept DEF Decline, MailInv, Tables, MailRow, UsedUp
<1> QED
  BY <1>1, <1>3, <1>4

\* Until the row is deleted, the acceptance is paid for by the deletion to come or
\* by the lost answer.
LEMMA AcceptKeeps ==
  ASSUME MailInv, Accept
  PROVE  Tables' /\ FailedRows' /\ Batch' /\ Sends' /\ Ordinary' = Ordinary
<1>1. Current \in queue /\ Current \in Mails /\ Current \in Created
  BY CurrentQueued DEF Accept
<1>2. /\ accepted' = [accepted EXCEPT ![Current] = @ + 1]
      /\ accepted \in [Mails -> Nat] /\ accepted' \in [Mails -> Nat]
  BY <1>1 DEF Accept, MailInv, Tables, MailRow, UsedUp
<1>3. \/ Goto("delete", "none") /\ UNCHANGED used
      \/ Goto("record", "timeout") /\ Fault
  BY DEF Accept
<1>4. /\ used \in UsedUp
      /\ used' \in UsedUp
  BY <1>3, FaultUses DEF MailInv, Tables, MailRow, UsedUp
<1>5. Tables' /\ FailedRows' /\ Ordinary' = Ordinary
  BY <1>2, <1>4, WorkerMoves DEF Accept
<1>6. /\ Batch' /\ Current' = Current
      /\ \/ worker'.at = "delete" /\ used'.faults = used.faults
         \/ used'.faults = used.faults + 1
  BY <1>3, <1>5, GotoKeeps, FaultUses DEF Accept, Steps, Errors, MailInv
<1>7. ASSUME NEW m \in Mails
      PROVE  /\ accepted'[m] <= used'.faults + (IF Unpaid(m)' THEN 1 ELSE 0)
             /\ mail'[m].kind = "none" => accepted'[m] = 0
  <2>1. /\ accepted[m] <= used.faults + (IF Unpaid(m) THEN 1 ELSE 0)
        /\ mail[m].kind = "none" => accepted[m] = 0
    BY DEF MailInv, Sends
  <2>2. used.faults \in Nat /\ used'.faults \in Nat /\ accepted[m] \in Nat
    BY <1>2, <1>4 DEF UsedUp
  <2>3. CASE m = Current
    <3>1. ~Unpaid(m) /\ mail'[m].kind # "none"
      BY <1>1, <2>3 DEF Unpaid, Accept, Created
    <3>2. accepted'[m] = accepted[m] + 1
      BY <1>2, <2>3
    <3>3. worker'.at = "delete" => Unpaid(m)'
      BY <1>6, <2>3 DEF Unpaid
    <3> QED
      BY <1>6, <2>1, <2>2, <3>1, <3>2, <3>3
  <2>4. CASE m # Current
    <3>1. Unpaid(m) => Unpaid(m)'
      BY <2>4 DEF Unpaid, Accept
    <3>2. accepted'[m] = accepted[m] /\ mail'[m] = mail[m]
      BY <1>2, <2>4 DEF Accept
    <3> QED
      BY <1>6, <2>1, <2>2, <3>1, <3>2
  <2> QED
    BY <2>3, <2>4
<1>8. Sends'
  BY <1>7 DEF Sends
<1> QED
  BY <1>5, <1>6, <1>8

LEMMA DeleteKeeps ==
  ASSUME MailInv, Delete
  PROVE  Tables' /\ FailedRows' /\ Batch' /\ Sends' /\ Ordinary' = Ordinary
<1>1. /\ worker.at = "delete" /\ NextMail /\ UNCHANGED <<mail, accepted>>
      /\ \/ queue' = queue \ {Current} /\ failed' = Without(failed, Current) /\ UNCHANGED used
         \/ Fault /\ UNCHANGED <<queue, failed>>
  BY DEF Delete
<1>2. Created' = Created /\ Ordinary' = Ordinary
  BY <1>1 DEF Created, Ordinary
<1>3. /\ used.faults \in Nat /\ used' \in UsedUp
      /\ \/ queue' = queue \ {Current} /\ used'.faults = used.faults
         \/ used'.faults = used.faults + 1
  BY <1>1, FaultUses DEF MailInv, Tables, MailRow, UsedUp
<1>4. Tables'
  BY <1>1, <1>2, <1>3 DEF MailInv, Tables, MailRow, UsedUp
<1>5. FailedRows'
  <2>1. CASE queue' = queue \ {Current} /\ failed' = Without(failed, Current)
    <3>1. Lists(failed', queue') /\ Range(failed') = Range(failed) \ {Current}
      BY <2>1, WithoutOne DEF MailInv, FailedRows
    <3>2. {m \in queue' : mail'[m].attempts > 0}
            = {m \in queue : mail[m].attempts > 0} \ {Current}
      BY <1>1, <2>1
    <3> QED
      BY <3>1, <3>2 DEF MailInv, FailedRows, Lists
  <2>2. CASE UNCHANGED <<queue, failed>>
    BY <1>1, <2>2 DEF MailInv, FailedRows, Lists
  <2> QED
    BY <1>1, <2>1, <2>2
<1>6. Batch' /\ worker'.at \in {"idle", "next"}
  BY <1>1, <1>2, NextMailKeeps
<1>7. ASSUME NEW m \in Mails
      PROVE  /\ accepted'[m] <= used'.faults + (IF Unpaid(m)' THEN 1 ELSE 0)
             /\ mail'[m].kind = "none" => accepted'[m] = 0
  <2>1. /\ accepted[m] <= used.faults + (IF Unpaid(m) THEN 1 ELSE 0)
        /\ mail[m].kind = "none" => accepted[m] = 0
        /\ accepted[m] \in Nat /\ used'.faults \in Nat
    BY <1>3 DEF MailInv, Sends, Tables, MailRow, UsedUp
  <2>2. CASE queue' = queue \ {Current} /\ used'.faults = used.faults
    <3>1. Unpaid(m) => Unpaid(m)'
      BY <2>2 DEF Unpaid
    <3> QED
      BY <1>1, <1>3, <2>1, <2>2, <3>1
  <2>3. CASE used'.faults = used.faults + 1
    BY <1>1, <1>3, <2>1, <2>3
  <2> QED
    BY <1>3, <2>2, <2>3
<1>8. Sends'
  BY <1>7 DEF Sends
<1> QED
  BY <1>2, <1>4, <1>5, <1>6, <1>8

LEMMA RecordKeeps ==
  ASSUME MailInv, Record
  PROVE  Tables' /\ FailedRows' /\ Batch' /\ Sends' /\ Ordinary' = Ordinary
<1> DEFINE m == Current
           n == IF mail[m].attempts > Persistent THEN mail[m].attempts ELSE mail[m].attempts + 1
<1>1. /\ worker.at = "record" /\ UNCHANGED <<queue, accepted>>
      /\ \/ /\ mail' = [mail EXCEPT ![m].attempts = n, ![m].error = worker.error]
            /\ failed' = Append(Without(failed, m), m)
            /\ IF Reported(m, n, worker.error) THEN Goto("report", "none") ELSE NextMail
            /\ UNCHANGED used
         \/ Fault /\ NextMail /\ UNCHANGED <<mail, failed>>
  BY DEF Record
<1>2. m \in queue /\ m \in Mails
  BY <1>1, CurrentQueued
<1>3. n \in 1..Persistent + 1 /\ worker.error \in Errors
  BY <1>2, QueueAssumption DEF MailInv, Tables, MailRow, UsedUp, Batch
<1> HIDE DEF n
<1>4. /\ \A x \in Mails : mail'[x].kind = mail[x].kind
      /\ mail' \in [Mails -> MailRow]
  <2>1. CASE mail' = [mail EXCEPT ![m].attempts = n, ![m].error = worker.error]
    <3>1. /\ mail[m] \in MailRow
          /\ n \in 0..Persistent + 1
      BY <1>2, <1>3, QueueAssumption DEF MailInv, Tables, MailRow, UsedUp
    <3> DEFINE r == [kind |-> mail[m].kind, attempts |-> n, error |-> worker.error]
    <3>2. /\ mail' = [x \in Mails |-> mail'[x]]
          /\ \A x \in Mails : x # m => mail'[x] = mail[x]
      BY <2>1 DEF MailInv, Tables, MailRow, UsedUp
    <3>3. mail'[m] = r
      <4>1. mail'[m] = [mail[m] EXCEPT !.attempts = n, !.error = worker.error]
        BY <1>2, <2>1 DEF MailInv, Tables, MailRow, UsedUp
      <4> QED
        BY <3>1, <4>1 DEF MailRow
    <3>4. r \in MailRow /\ r.kind = mail[m].kind
      BY <1>3, <3>1 DEF MailRow
    <3> HIDE DEF r
    <3> QED
      BY <3>2, <3>3, <3>4 DEF MailInv, Tables, MailRow, UsedUp
  <2>2. CASE UNCHANGED mail
    BY <2>2 DEF MailInv, Tables, MailRow, UsedUp
  <2> QED
    BY <1>1, <2>1, <2>2
<1>5. Created' = Created /\ Ordinary' = Ordinary
  BY <1>4 DEF Created, Ordinary
<1>6. /\ used \in UsedUp
      /\ used' \in UsedUp
      /\ used'.faults >= used.faults
  BY <1>1, FaultUses DEF MailInv, Tables, MailRow, UsedUp
<1>7. Tables'
  BY <1>1, <1>4, <1>5, <1>6 DEF MailInv, Tables, MailRow, UsedUp
<1>8. FailedRows'
  <2>1. CASE /\ mail' = [mail EXCEPT ![m].attempts = n, ![m].error = worker.error]
             /\ failed' = Append(Without(failed, m), m)
    <3>1. /\ Lists(Without(failed, m), queue \ {m})
          /\ Range(Without(failed, m)) = Range(failed) \ {m}
      BY WithoutOne DEF MailInv, FailedRows
    <3>2. Lists(failed', queue) /\ Range(failed') = Range(failed) \cup {m}
      BY <1>2, <2>1, <3>1, AppendOne
    <3>3. mail'[m].attempts = n /\ \A x \in Mails : x # m => mail'[x] = mail[x]
      BY <1>2, <2>1 DEF MailInv, Tables, MailRow, UsedUp
    <3>4. {x \in queue : mail'[x].attempts > 0}
            = {x \in queue : mail[x].attempts > 0} \cup {m}
      BY <1>2, <1>3, <3>3 DEF MailInv, Tables, MailRow, UsedUp, Created
    <3> QED
      BY <1>1, <3>2, <3>4 DEF MailInv, FailedRows, Lists
  <2>2. CASE UNCHANGED <<mail, failed>>
    BY <1>1, <2>2 DEF MailInv, FailedRows, Lists
  <2> QED
    BY <1>1, <2>1, <2>2
<1>9. Batch'
  <2>1. CASE NextMail
    BY <1>1, <1>5, <2>1, NextMailKeeps
  <2>2. CASE Goto("report", "none") /\ Reported(m, n, worker.error)
    <3>1. m \in Ordinary
      BY <1>2, <2>2 DEF Reported, Ordinary
    <3>2. "report" \in Steps \ {"idle"} /\ "none" \in Errors
      BY DEF Steps, Errors
    <3> QED
      BY <1>1, <1>5, <2>2, <3>1, <3>2, GotoKeeps
  <2> QED
    BY <1>1, <2>1, <2>2
<1>10. Sends'
  BY <1>1, <1>4, <1>6, SendsKept
<1> QED
  BY <1>5, <1>7, <1>8, <1>9, <1>10

LEMMA ReportKeeps ==
  ASSUME MailInv, Report
  PROVE  MailInv'
<1>1. /\ worker.at = "report" /\ NextMail
      /\ UNCHANGED <<queue, failed, mail, accepted, alerting>>
      /\ \/ UNCHANGED used
         \/ Fault
  BY DEF Report
<1>2. /\ used' \in UsedUp
      /\ used'.faults >= used.faults
  BY <1>1, FaultUses DEF MailInv, Tables, MailRow, UsedUp
<1>3. Tables' /\ FailedRows' /\ Ordinary' = Ordinary
  BY <1>1, <1>2, WorkerMoves DEF MailInv, Tables, MailRow, UsedUp
<1>4. Batch'
  BY <1>1, <1>3, NextMailKeeps
<1>5. Sends'
  BY <1>1, <1>2, SendsKept
<1>6. Alerts'
  <2>1. Current \in Ordinary
    BY <1>1 DEF MailInv, Batch
  <2>2. \A x \in reports' : x \in reports \/ x.about = Current
    BY DEF Report
  <2> QED
    BY <1>1, <1>3, <2>1, <2>2 DEF MailInv, Alerts
<1> QED
  BY <1>3, <1>4, <1>5, <1>6 DEF MailInv

LEMMA RestartKeeps ==
  ASSUME MailInv, Restart
  PROVE  MailInv'
<1>1. UNCHANGED <<queue, failed, mail, accepted, reports>> /\ alerting' = NoReport
  BY DEF Restart
<1>2. /\ used' \in UsedUp
      /\ used'.faults = used.faults + 1
  BY FaultUses DEF MailInv, Restart
<1>3. Tables' /\ FailedRows' /\ Ordinary' = Ordinary
  BY <1>1, <1>2, WorkerMoves DEF MailInv, Tables, MailRow, UsedUp
<1>4. Batch'
  <2>1. worker' = [at |-> "idle", batch |-> <<>>, error |-> "none"]
    BY DEF Restart, Resting
  <2> QED
    BY <2>1 DEF Batch, Steps, Errors, Lists, IsInjective
<1>5. ASSUME NEW m \in Mails
      PROVE  /\ accepted[m] <= used'.faults + (IF Unpaid(m)' THEN 1 ELSE 0)
             /\ mail'[m].kind = "none" => accepted[m] = 0
  <2>1. /\ accepted[m] <= used.faults + (IF Unpaid(m) THEN 1 ELSE 0)
        /\ mail[m].kind = "none" => accepted[m] = 0
        /\ accepted[m] \in Nat /\ used.faults \in Nat
    BY DEF MailInv, Sends, Tables, MailRow, UsedUp
  <2> QED
    BY <1>1, <1>2, <2>1
<1>6. Sends'
  BY <1>1, <1>5 DEF Sends
<1>7. Alerts'
  BY <1>1, <1>3 DEF MailInv, Alerts
<1> QED
  BY <1>3, <1>4, <1>6, <1>7 DEF MailInv

LEMMA MailStep == MailInv /\ [Next]_vars => MailInv'
<1> SUFFICES ASSUME MailInv, [Next]_vars PROVE MailInv'
  OBVIOUS
<1> USE DEF MailInv
<1>1. CASE Compose
  <2>1. Enqueue("ordinary") /\ UNCHANGED <<failed, accepted, worker, used, reports, alerting>>
    BY <1>1 DEF Compose
  <2> QED
    BY <2>1, EnqueueKeeps DEF Alerts
<1>2. CASE \/ CoolDown \/ PayrollEnd \/ ServerUp \/ UNCHANGED vars
           \/ \E m \in Mails : ReadNotice(m)
  <2>1. UNCHANGED <<queue, failed, mail, accepted, worker, used, reports, alerting>>
    BY <1>2 DEF CoolDown, PayrollEnd, ServerUp, ReadNotice, vars
  <2>2. used.faults >= used.faults
    BY DEF Tables, MailRow, UsedUp
  <2> QED
    BY <2>1, <2>2, TablesUntouched DEF Alerts, Tables, MailRow, UsedUp
<1>3. CASE PayrollAttempt \/ ServerDown
  <2>1. /\ UNCHANGED <<queue, failed, mail, accepted, worker, reports, alerting>>
        /\ Use("outages") \/ Use("payrolls")
    BY <1>3 DEF PayrollAttempt, ServerDown
  <2>2. /\ used' \in UsedUp
        /\ used'.faults >= used.faults
    BY <2>1, OtherUses DEF Tables, MailRow, UsedUp
  <2> QED
    BY <2>1, <2>2, TablesUntouched DEF Alerts
<1>4. CASE DeleteReport
  <2>1. /\ UNCHANGED <<queue, failed, mail, accepted, worker>>
        /\ reports' \subseteq reports /\ alerting' = NoReport
        /\ UNCHANGED used \/ Fault
    BY <1>4 DEF DeleteReport
  <2>2. /\ used' \in UsedUp
        /\ used'.faults >= used.faults
    BY <2>1, FaultUses DEF Tables, MailRow, UsedUp
  <2> QED
    BY <2>1, <2>2, TablesUntouched DEF Alerts
<1>5. CASE \E x \in reports : DeliverReport(x)
  <2>1. PICK x \in reports : DeliverReport(x)
    BY <1>5
  <2>2. /\ UNCHANGED <<failed, accepted, worker, reports>> /\ alerting' = x
        /\ \/ Enqueue("alert") /\ UNCHANGED used
           \/ Fault /\ UNCHANGED <<queue, mail>>
           \/ UNCHANGED <<queue, mail, used>>
    BY <2>1 DEF DeliverReport
  <2>3. Tables' /\ FailedRows' /\ Batch' /\ Sends' /\ Ordinary \subseteq Ordinary'
    <3>1. CASE Enqueue("alert") /\ UNCHANGED used
      BY <2>2, <3>1, EnqueueKeeps
    <3>2. CASE Fault /\ UNCHANGED <<queue, mail>>
      <4>1. /\ used' \in UsedUp
            /\ used'.faults = used.faults + 1 /\ used.faults \in Nat
        BY <3>2, FaultUses DEF Tables, MailRow, UsedUp
      <4>2. used'.faults >= used.faults
        BY <4>1
      <4> QED
        BY <2>2, <3>2, <4>1, <4>2, TablesUntouched
    <3>3. CASE UNCHANGED <<queue, mail, used>>
      <4>1. used.faults >= used.faults
        BY DEF Tables, MailRow, UsedUp
      <4> QED
        BY <2>2, <3>3, <4>1, TablesUntouched DEF Tables, MailRow, UsedUp
    <3> QED
      BY <2>2, <3>1, <3>2, <3>3
  <2> QED
    BY <2>2, <2>3 DEF Alerts
<1>6. CASE Poll \/ Attempt \/ Accept \/ Decline \/ Delete \/ Record
  <2>1. UNCHANGED <<reports, alerting>>
    BY <1>6 DEF Poll, Attempt, Accept, Decline, Delete, Record
  <2>2. Tables' /\ FailedRows' /\ Batch' /\ Sends' /\ Ordinary' = Ordinary
    BY <1>6, PollKeeps, AttemptKeeps, AcceptKeeps, DeclineKeeps, DeleteKeeps, RecordKeeps
  <2> QED
    BY <2>1, <2>2 DEF Alerts
<1>7. CASE Report
  BY <1>7, ReportKeeps
<1>8. CASE Restart
  BY <1>8, RestartKeeps
<1> QED
  BY <1>1, <1>2, <1>3, <1>4, <1>5, <1>6, <1>7, <1>8 DEF Next, WorkerStep, ErrorStep

\* The server accepts a mail a second time only after a restart, a statement that
\* failed or an answer that was lost, each of which costs at most one more.
THEOREM SentOnceAlways == Spec => []SentOnce
<1>1. Init => MailInv
  BY MailInit
<1>2. MailInv /\ [Next]_vars => MailInv'
  BY MailStep
<1>3. MailInv => SentOnce
  <2>1. ASSUME MailInv, NEW m \in Mails PROVE accepted[m] <= 1 + used.faults
    <3>1. accepted[m] <= used.faults + (IF Unpaid(m) THEN 1 ELSE 0)
      BY <2>1 DEF MailInv, Sends
    <3>2. accepted[m] \in Nat /\ used.faults \in Nat
      BY <2>1 DEF MailInv, Tables, MailRow, UsedUp
    <3> QED
      BY <3>1, <3>2
  <2> QED
    BY <2>1 DEF SentOnce
<1> QED
  BY <1>1, <1>2, <1>3, PTL DEF Spec

----------------------------------------------------------------------------
(* Types                                                                   *)

\* What the senders that share the breaker keep in memory.
Senders ==
  /\ server \in {"up", "down"} /\ payroll \in {"idle", "send"}
  /\ breaker \in [failures : 0..Threshold, opened : {"no", "cooling", "cooled"}]
  /\ breaker.opened # "no" <=> breaker.failures = Threshold
  /\ trials \subseteq {"queue", "payroll"}

LEMMA SendersInit == Init => Senders
  BY QueueAssumption DEF Init, Senders, Closed

LEMMA AllowTypes ==
  ASSUME Senders, NEW sender \in {"queue", "payroll"}, Allow(sender),
         UNCHANGED server, payroll' \in {"idle", "send"}
  PROVE  Senders'
<1>1. CASE UNCHANGED <<breaker, trials>>
  BY <1>1 DEF Senders
<1>2. CASE breaker' = [breaker EXCEPT !.opened = "cooling"] /\ trials' = trials \cup {sender}
           /\ breaker.opened # "no"
  <2>1. breaker' = [failures |-> breaker.failures, opened |-> "cooling"]
    BY <1>2 DEF Senders
  <2> QED
    BY <1>2, <2>1 DEF Senders
<1> QED
  BY <1>1, <1>2 DEF Allow

LEMMA SuccessTypes ==
  ASSUME Senders, NEW sender, RecordSuccess(sender), UNCHANGED server,
         payroll' \in {"idle", "send"}
  PROVE  Senders'
<1>1. breaker' = [failures |-> 0, opened |-> "no"] /\ trials' = trials \ {sender}
  BY DEF RecordSuccess, Closed
<1>2. Threshold \in Nat \ {0}
  BY QueueAssumption
<1>3. 0 \in 0..Threshold /\ 0 # Threshold
  BY <1>2
<1>4. trials' \subseteq {"queue", "payroll"}
  BY <1>1 DEF Senders
<1> QED
  BY <1>1, <1>3, <1>4 DEF Senders

LEMMA FailureTypes ==
  ASSUME Senders, NEW sender, RecordFailure(sender), UNCHANGED server,
         payroll' \in {"idle", "send"}
  PROVE  Senders'
<1>1. breaker.failures \in 0..Threshold /\ Threshold \in Nat \ {0}
  BY QueueAssumption DEF Senders
<1>2. trials' \subseteq {"queue", "payroll"}
  BY DEF RecordFailure, Senders
<1>3. CASE breaker.failures + 1 >= Threshold
  <2>1. breaker' = [failures |-> Threshold, opened |-> "cooling"]
    BY <1>3 DEF RecordFailure
  <2> QED
    BY <1>1, <1>2, <2>1 DEF Senders
<1>4. CASE breaker.failures + 1 < Threshold
  <2>1. breaker' = [failures |-> breaker.failures + 1, opened |-> breaker.opened]
    BY <1>1, <1>4 DEF RecordFailure
  <2>2. breaker.opened = "no"
    BY <1>1, <1>4 DEF Senders
  <2> QED
    BY <1>1, <1>2, <1>4, <2>1, <2>2 DEF Senders
<1> QED
  BY <1>1, <1>3, <1>4

LEMMA SendersStep == Senders /\ [Next]_vars => Senders'
<1> SUFFICES ASSUME Senders, [Next]_vars PROVE Senders'
  OBVIOUS
<1>1. CASE UNCHANGED <<breaker, trials, payroll>> /\ server' \in {"up", "down"}
  BY <1>1 DEF Senders
<1>2. CASE Attempt
  BY <1>1, <1>2, AllowTypes DEF Attempt, Senders
<1>3. CASE PayrollAttempt
  BY <1>3, AllowTypes DEF PayrollAttempt
<1>4. CASE Accept \/ Decline
  BY <1>4, SuccessTypes, FailureTypes DEF Accept, Decline, Senders
<1>5. CASE PayrollEnd
  BY <1>5, SuccessTypes, FailureTypes DEF PayrollEnd
<1>6. CASE CoolDown
  <2>1. /\ breaker' = [failures |-> breaker.failures, opened |-> "cooled"]
        /\ breaker.opened = "cooling"
    BY <1>6 DEF CoolDown, Senders
  <2> QED
    BY <1>6, <2>1 DEF CoolDown, Senders
<1>7. CASE Restart
  BY <1>7, QueueAssumption DEF Restart, Closed, Senders
<1>8. ASSUME ~Attempt, ~PayrollAttempt, ~Accept, ~Decline, ~PayrollEnd, ~CoolDown, ~Restart
      PROVE  UNCHANGED <<breaker, trials, payroll>> /\ server' \in {"up", "down"}
  BY <1>8
     DEF Next, WorkerStep, ErrorStep, Compose, Poll, Delete, Record, Report, DeliverReport,
         DeleteReport, ReadNotice, ServerDown, ServerUp, vars, Senders
<1> QED
  BY <1>1, <1>2, <1>3, <1>4, <1>5, <1>6, <1>7, <1>8

\* Rows, the worker's batch, the breaker and the reports stay well-formed: the
\* rows that failed are just the queued ones with an attempt, each listed once.
THEOREM TypeCorrect == Spec => []TypeOK
<1>1. Init => MailInv /\ Senders
  BY MailInit, SendersInit
<1>2. MailInv /\ Senders /\ [Next]_vars => MailInv' /\ Senders'
  BY MailStep, SendersStep
<1>3. MailInv /\ Senders => TypeOK
  <2>1. Lists(worker.batch, queue) => Range(worker.batch) \subseteq queue
    BY DEF Lists, Range
  <2> QED
    BY <2>1
       DEF MailInv, Tables, MailRow, UsedUp, FailedRows, Batch, Alerts, Senders, Steps,
           TypeOK, Lists
<1> QED
  BY <1>1, <1>2, <1>3, PTL DEF Spec

=============================================================================
