---------------------------- MODULE DayLedgerTx ----------------------------
(***************************************************************************)
(* The transactions of DayLedger as the backend runs them: concurrent      *)
(* requests that take the advisory locks of the owners whose rows they     *)
(* write, check and write under these locks, and commit; and the archiving *)
(* of a user (services/users.rs, archive), which closes the user's pending *)
(* rows without that lock, one UPDATE after the other.                     *)
(*                                                                         *)
(* PostgreSQL at READ COMMITTED is modelled by its row locks: a            *)
(* transaction that wants to write a row another one has written waits for *)
(* it to end, and an UPDATE writes those of the rows its snapshot selected *)
(* that still match when it gets at them.                                  *)
(*                                                                         *)
(* The property ImplementsLedger says that all this amounts to the atomic  *)
(* steps of DayLedger.                                                     *)
(***************************************************************************)
EXTENDS DayLedger, FiniteSets

CONSTANTS
  Requests, \* the HTTP requests in progress (a connection of the pool each)
  Nobody    \* no holder, no user

\* Locks are taken in ascending order of users.id.
ASSUME UsersAreIds == Users \subseteq Int /\ Nobody \notin Requests \cup Users

VARIABLES
  req,      \* what each request is doing
  holder,   \* the request that holds pg_advisory_xact_lock(u), for each u
  archived, \* users.archived_at is set, users.active is not
  closing   \* the archiving in progress

txVars == <<entries, absences, today, req, holder, archived, closing>>

----------------------------------------------------------------------------
(* The operations a request may run                                        *)

\* do names the operation of DayLedger, by the user who sent the request, ids
\* and abs the rows the operation writes.
Op(do, by, ids, abs, args) ==
  [do |-> do, by |-> by, ids |-> ids, abs |-> abs, args |-> args]

NoOp == Op("none", Nobody, {}, {}, <<>>)

Idle == [by |-> Nobody, asOf |-> Nobody, wants |-> {}, op |-> NoOp]

OwnersOf(ids, abs) ==
  {entries[i].user : i \in {k \in ids : HasEntry(k)}}
    \cup {absences[a].user : a \in {b \in abs : HasAbsence(b)}}

OnEntry(do, r, i, args) == Op(do, r, {i}, {}, args)
OnEntries(do, r, ids) == Op(do, r, ids, {}, <<>>)
OnAbsence(do, r, a, args) == Op(do, r, {}, {a}, args)

EntryOps(r, owners) ==
  {OnEntry(do, r, i, slot) : do \in {"create", "update"}, i \in EntryIds, slot \in Slot}
    \cup {OnEntry("delete", r, i, <<>>) : i \in EntryIds}
    \cup {OnEntries("submit", r, DraftsOf(r, ids)) : ids \in SUBSET EntryIds}
    \cup {OnEntries(do, r, Reviewable(r, ids)) :
            do \in {"batch_approve", "batch_reject"}, ids \in SUBSET EntryIds}
    \cup {Op("reopen", r, ReopenTargets(u, WeekOf[d]), {}, <<u, WeekOf[d]>>) :
            u \in owners, d \in Days}

Decisions == {"cancel", "approve", "reject", "approve_cancellation", "reject_cancellation",
              "revoke"}

AbsenceOps(r) ==
  {OnAbsence("create_absence", r, a, args) : a \in AbsenceIds, args \in BOOLEAN \X Days \X Days}
    \cup {OnAbsence("update_absence", r, a, args) : a \in AbsenceIds, args \in Days \X Days}
    \cup {OnAbsence(do, r, a, <<>>) : do \in Decisions, a \in AbsenceIds}

The(s) == CHOOSE x \in s : TRUE

\* The checks the operation makes under its locks.
Allowed(o) ==
  LET i == The(o.ids)
      a == The(o.abs)
  IN  \/ o.do = "create" /\ CanCreateEntry(o.by, i, o.args)
      \/ o.do = "update" /\ CanUpdateEntry(o.by, i, o.args)
      \/ o.do = "delete" /\ CanDeleteEntry(o.by, i)
      \/ o.do = "submit" /\ CanSubmitBatch(o.by, o.ids)
      \/ o.do = "batch_approve" /\ CanBatchApprove(o.by, o.ids)
      \/ o.do = "batch_reject" /\ CanBatchReject(o.by, o.ids)
      \/ o.do = "reopen" /\ CanPerformReopen(o.args[1], o.args[2])
      \/ /\ o.do = "create_absence"
         /\ CanCreateAbsence(o.by, a, o.args[1], o.args[2], o.args[3])
      \/ o.do = "update_absence" /\ CanUpdateAbsence(o.by, a, o.args[1], o.args[2])
      \/ o.do = "cancel" /\ CanCancelAbsence(o.by, a)
      \/ o.do = "approve" /\ CanApproveAbsence(o.by, a)
      \/ o.do = "reject" /\ CanReviewAbsence(o.by, a, "requested")
      \/ /\ o.do \in {"approve_cancellation", "reject_cancellation"}
         /\ CanReviewAbsence(o.by, a, "cancellation_pending")
      \/ o.do = "revoke" /\ CanRevokeAbsence(o.by, a)

\* Its writes.
Write(o, asOf) ==
  LET i == The(o.ids)
      a == The(o.abs)
  IN  \/ o.do = "create" /\ DoCreateEntry(o.by, i, o.args)
      \/ o.do = "update" /\ DoUpdateEntry(o.by, i, o.args)
      \/ o.do = "delete" /\ DoDeleteEntry(o.by, i)
      \/ /\ o.do = "submit"
         /\ IF o.by \in AutoSubmitters
            THEN DoSubmitBatchAutoApproved(o.by, o.ids)
            ELSE DoSubmitBatch(o.by, o.ids)
      \/ o.do = "batch_approve" /\ DoBatchApprove(o.by, o.ids)
      \/ o.do = "batch_reject" /\ DoBatchReject(o.by, o.ids)
      \/ o.do = "reopen" /\ DoPerformReopen(o.args[1], o.args[2])
      \/ /\ o.do = "create_absence"
         /\ DoCreateAbsence(o.by, a, o.args[1], o.args[2], o.args[3], asOf)
      \/ o.do = "update_absence" /\ DoUpdateAbsence(o.by, a, o.args[1], o.args[2], asOf)
      \/ o.do = "cancel" /\ DoCancelAbsence(o.by, a)
      \/ o.do \in {"approve", "reject_cancellation"} /\ SetStatus(a, "approved")
      \/ o.do = "reject" /\ SetStatus(a, "rejected")
      \/ o.do \in {"approve_cancellation", "revoke"} /\ SetStatus(a, "cancelled")

\* The operations that insert a row, and thereby lock the row of users it
\* references.
Inserts(o) == o.do \in {"create", "create_absence"}

Reviews(o) ==
  o.do \in {"batch_approve", "batch_reject", "approve", "reject",
            "approve_cancellation", "reject_cancellation"}

----------------------------------------------------------------------------
(* Requests                                                                *)

Held(p) == {u \in Users : holder[u] = p}

Released(p) == [u \in Users |-> IF holder[u] = p THEN Nobody ELSE holder[u]]

\* A user signed in sends a request about own rows or, as a lead, about rows of
\* others.  Whose rows they are is read before the locks are taken; rows never
\* change their owner.
Begin(p, r) ==
  /\ req[p] = Idle
  /\ r \notin archived
  /\ \E owners \in {{r}} \cup (IF r \in Leads THEN SUBSET OwnersOf(EntryIds, AbsenceIds)
                                            ELSE {}) :
       /\ owners # {}
       /\ req' = [req EXCEPT ![p] = [by |-> r, asOf |-> today, wants |-> owners, op |-> NoOp]]
  /\ UNCHANGED <<entries, absences, today, holder, archived, closing>>

LockNothing(p) ==  \* mutant: the lock does not exclude anybody
  \E u \in req[p].wants \ Held(p) :
    /\ holder' = [holder EXCEPT ![u] = p]
    /\ UNCHANGED <<entries, absences, today, req, archived, closing>>

\* pg_advisory_xact_lock, in ascending order of the owners.
Lock(p) ==
  \E u \in req[p].wants \ Held(p) :
    /\ \A v \in req[p].wants \ Held(p) : u <= v
    /\ holder[u] = Nobody
    /\ holder' = [holder EXCEPT ![u] = p]
    /\ UNCHANGED <<entries, absences, today, req, archived, closing>>

\* The request holds its locks and has not decided yet.
Ready(p) == req[p].by # Nobody /\ req[p].op = NoOp /\ req[p].wants \subseteq Held(p)

\* No other transaction has written these rows.
RowsFree(p, ids, abs) ==
  /\ (ids \cap closing.ids) \cup (abs \cap closing.abs) = {}
  /\ \A q \in Requests \ {p} :
       (ids \cap req[q].op.ids) \cup (abs \cap req[q].op.abs) = {}

\* The checks pass and the rows are written, which nobody else sees yet.
Decide(p, o) ==
  /\ Ready(p)
  /\ OwnersOf(o.ids, o.abs) \subseteq req[p].wants
  /\ Inserts(o) => o.by \in req[p].wants /\ closing.user # o.by
  /\ Reviews(o) /\ o.by \notin Admins => OwnersOf(o.ids, o.abs) \cap archived = {}
  /\ RowsFree(p, o.ids, o.abs)
  /\ Allowed(o)
  /\ req' = [req EXCEPT ![p].op = o]
  /\ UNCHANGED <<entries, absences, today, holder, archived, closing>>

\* A check fails and the handler returns an error.
Refuse(p) ==
  /\ Ready(p)
  /\ req' = [req EXCEPT ![p] = Idle]
  /\ holder' = Released(p)
  /\ UNCHANGED <<entries, absences, today, archived, closing>>

\* The server stops or loses its connection: the transaction is rolled back.
Lose(p) ==
  /\ req[p] # Idle
  /\ req' = [req EXCEPT ![p] = Idle]
  /\ holder' = Released(p)
  /\ UNCHANGED <<entries, absences, today, archived, closing>>

Commit(p) ==
  /\ req[p].op # NoOp
  /\ Write(req[p].op, req[p].asOf)
  /\ req' = [req EXCEPT ![p] = Idle]
  /\ holder' = Released(p)
  /\ UNCHANGED <<archived, closing>>

----------------------------------------------------------------------------
(* Archiving                                                               *)

NoClosing ==
  [user |-> Nobody, stmt |-> 0, scanned |-> FALSE, found |-> {}, ids |-> {}, abs |-> {}]

\* An admin archives another user who is nobody's approver.  The row of users is
\* locked, so no row that references it is being inserted.
Archive(u) ==
  /\ closing = NoClosing
  /\ u \notin archived
  /\ \E r \in Admins \ archived : r # u
  /\ \A v \in Users \ archived : u \notin Approvers[v]
  /\ \A p \in Requests : Inserts(req[p].op) => req[p].op.by # u
  /\ closing' = [NoClosing EXCEPT !.user = u, !.stmt = 1]
  /\ UNCHANGED <<entries, absences, today, req, holder, archived>>

\* The three UPDATEs, by the status of the rows they select.
Statements == <<"submitted", "requested", "cancellation_pending">>

Selects(stmt, u) ==
  IF stmt = 1 THEN PendingEntries(u)
  ELSE {a \in PendingAbsences(u) : absences[a].status = Statements[stmt]}

\* A statement takes its snapshot.
Scan ==
  /\ closing.stmt \in DOMAIN Statements
  /\ ~closing.scanned
  /\ closing' = [closing EXCEPT !.scanned = TRUE,
                               !.found = Selects(closing.stmt, closing.user)]
  /\ UNCHANGED <<entries, absences, today, req, holder, archived>>

\* It writes the rows it selected that still match, once no request has them.
WriteScanned ==
  LET still == closing.found \cap Selects(closing.stmt, closing.user)
  IN  /\ closing.scanned
      /\ \A p \in Requests :
           closing.found \cap (IF closing.stmt = 1 THEN req[p].op.ids ELSE req[p].op.abs) = {}
      /\ closing' = [closing EXCEPT
           !.stmt = @ + 1,
           !.scanned = FALSE,
           !.found = {},
           !.ids = IF closing.stmt = 1 THEN still ELSE @,
           !.abs = IF closing.stmt = 1 THEN @ ELSE @ \cup still]
      /\ UNCHANGED <<entries, absences, today, req, holder, archived>>

\* The user is archived and all sessions end.
CommitArchive ==
  /\ closing.stmt = 4
  /\ DoClosePending(closing.user, closing.ids, closing.abs)
  /\ archived' = archived \cup {closing.user}
  /\ closing' = NoClosing
  /\ UNCHANGED <<req, holder>>

LoseArchive ==
  /\ closing # NoClosing
  /\ closing' = NoClosing
  /\ UNCHANGED <<entries, absences, today, req, holder, archived>>

----------------------------------------------------------------------------
(* The specification                                                       *)

TxInit ==
  /\ Init
  /\ req = [p \in Requests |-> Idle]
  /\ holder = [u \in Users |-> Nobody]
  /\ archived = {}
  /\ closing = NoClosing

TxNext ==
  \/ \E p \in Requests :
       \/ \E r \in Users : Begin(p, r)
       \/ Lock(p)
       \/ \E o \in EntryOps(req[p].by, req[p].wants) \cup AbsenceOps(req[p].by) : Decide(p, o)
       \/ Refuse(p)
       \/ Lose(p)
       \/ Commit(p)
  \/ \E u \in Users : Archive(u)
  \/ Scan
  \/ WriteScanned
  \/ CommitArchive
  \/ LoseArchive
  \/ NextDay /\ UNCHANGED <<req, holder, archived, closing>>

TxSpec == TxInit /\ [][TxNext]_txVars

----------------------------------------------------------------------------
(* Properties                                                              *)

TxTypeOK ==
  /\ TypeOK
  /\ \A p \in Requests :
       /\ req[p].by \in Users \cup {Nobody}
       /\ req[p].wants \subseteq Users
       /\ req[p].op # NoOp => OwnersOf(req[p].op.ids, req[p].op.abs) \subseteq Held(p)
  /\ holder \in [Users -> Requests \cup {Nobody}]
  /\ archived \subseteq Users
  /\ closing.user \in Users \cup {Nobody}

\* The atomic ledger, of which req, holder, archived and closing are hidden.
Ledger == INSTANCE DayLedger WITH entries <- entries, absences <- absences, today <- today

\* The locks make every request one step of the ledger, and archiving, which
\* does not take them, one as well: whatever the interleaving, the tables go
\* through states the atomic operations produce.
ImplementsLedger == Ledger!Spec
=============================================================================
