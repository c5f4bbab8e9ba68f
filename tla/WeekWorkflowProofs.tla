------------------------- MODULE WeekWorkflowProofs -------------------------
(***************************************************************************)
(* Proofs about WeekWorkflow for any number of entries, requests and       *)
(* handlers: types, one pending request per week, and the two action       *)
(* properties that protect decisions.  OnePending is inductive once the    *)
(* types are, because the unique index is looked at where the row is       *)
(* inserted.                                                               *)
(***************************************************************************)
EXTENDS WeekWorkflow, TLAPS

Inv == TypeOK /\ OnePending

HandlersOK == DOMAIN handler = Handlers /\ \A h \in Handlers : WellFormed(handler[h])

USE WorkflowAssumption

LEMMA InitInv ==
  ASSUME Init
  PROVE  Inv
BY DEF Init, Inv, TypeOK, OnePending, Pending, EntryStates, RequestStates, Idle, Step, WellFormed

\* A handler that goes on to a well-formed step keeps the handlers well-formed.
LEMMA StepKeepsHandlers ==
  ASSUME HandlersOK, NEW h \in Handlers, NEW s, WellFormed(s),
         handler' = [handler EXCEPT ![h] = s]
  PROVE  HandlersOK'
<1>1. DOMAIN handler' = Handlers
  BY DEF HandlersOK
<1>2. ASSUME NEW k \in Handlers
      PROVE  WellFormed(handler'[k])
  <2>1. CASE k = h
    <3>1. handler'[k] = s
      BY <2>1 DEF HandlersOK
    <3>2. QED
      BY <3>1
  <2>2. CASE k # h
    <3>1. handler'[k] = handler[k]
      BY <2>2 DEF HandlersOK
    <3>2. QED
      BY <3>1 DEF HandlersOK
  <2>3. QED
    BY <2>1, <2>2
<1>3. QED
  BY <1>1, <1>2 DEF HandlersOK, WellFormed

LEMMA GotoKeepsHandlers ==
  ASSUME HandlersOK, NEW h \in Handlers, NEW at, Goto(h, at),
         at \notin {"clear_request", "notify_request"}
  PROVE  HandlersOK'
<1>1. WellFormed(Step(at, 0, 0, NoRequest))
  BY DEF WellFormed, Step
<1>2. QED
  BY <1>1, StepKeepsHandlers DEF Goto

LEMMA GotoAboutKeepsHandlers ==
  ASSUME HandlersOK, NEW h \in Handlers, NEW r \in Requests,
         NEW at \in {"clear_request", "notify_request"}, GotoAbout(h, at, r)
  PROVE  HandlersOK'
<1>1. WellFormed(Step(at, 0, 0, r))
  BY DEF WellFormed, Step
<1>2. QED
  BY <1>1, StepKeepsHandlers DEF GotoAbout

LEMMA FinishKeepsHandlers ==
  ASSUME HandlersOK, NEW h \in Handlers, Finish(h)
  PROVE  HandlersOK'
<1>1. WellFormed(Idle)
  BY DEF WellFormed, Idle, Step
<1>2. QED
  BY <1>1, StepKeepsHandlers DEF Finish

----------------------------------------------------------------------------
(* What the tables look like after a step                                  *)

TablesOK ==
  /\ status \in [Entries -> EntryStates]
  /\ request \in [Requests -> RequestStates]
  /\ unread \subseteq Requests \cup {Submission}
  /\ OnePending

LEMMA SetEntriesTyped ==
  ASSUME TablesOK, NEW ids, NEW s \in EntryStates, SetEntries(ids, s)
  PROVE  status' \in [Entries -> EntryStates]
BY DEF TablesOK, SetEntries

\* Deciding a request or taking it away leaves at most one pending.
LEMMA CloseRequest ==
  ASSUME TablesOK, NEW r \in Requests, NEW s \in Decided \cup {"none"},
         request' = [request EXCEPT ![r] = s]
  PROVE  request' \in [Requests -> RequestStates] /\ OnePending'
<1>1. request' \in [Requests -> RequestStates]
  BY DEF TablesOK, RequestStates, Decided
<1>2. Pending' \subseteq Pending
  BY DEF TablesOK, Pending, Decided
<1>3. QED
  BY <1>1, <1>2 DEF TablesOK, OnePending

\* So does asking when none is pending.
LEMMA OpenRequest ==
  ASSUME TablesOK, Pending = {}, NEW r \in Requests,
         request' = [request EXCEPT ![r] = "pending"]
  PROVE  request' \in [Requests -> RequestStates] /\ OnePending'
<1>1. request' \in [Requests -> RequestStates]
  BY DEF TablesOK, RequestStates
<1>2. Pending' \subseteq {r}
  BY DEF TablesOK, Pending
<1>3. QED
  BY <1>1, <1>2 DEF TablesOK, OnePending

LEMMA SameRequests ==
  ASSUME TablesOK, UNCHANGED request
  PROVE  request' \in [Requests -> RequestStates] /\ OnePending'
BY DEF TablesOK, OnePending, Pending

----------------------------------------------------------------------------
(* Every step keeps the invariant                                          *)

LEMMA InvParts == Inv <=> HandlersOK /\ TablesOK
BY DEF Inv, TypeOK, HandlersOK, TablesOK

USE DEF EntryStates, Decided

LEMMA RowsInv ==
  ASSUME TablesOK, HandlersOK, NEW i \in Entries, CreateDraft(i) \/ DeleteDraft(i)
  PROVE  TablesOK' /\ HandlersOK'
<1>1. status' \in [Entries -> EntryStates]
  BY SetEntriesTyped DEF CreateDraft, DeleteDraft
<1>2. UNCHANGED <<request, unread, handler>>
  BY DEF CreateDraft, DeleteDraft
<1>3. QED
  BY <1>1, <1>2, SameRequests DEF TablesOK, HandlersOK, WellFormed

\* A handler that auto-approves a request reopens the week.
LEMMA ReopenInv ==
  ASSUME TablesOK, HandlersOK, NEW h \in Handlers, ReopenAtOnce(h) \/ ReopenSubmitted(h)
  PROVE  TablesOK' /\ HandlersOK'
<1>1. UNCHANGED unread
  BY DEF ReopenAtOnce, ReopenSubmitted
<1>2. CASE Finish(h) /\ UNCHANGED <<status, request>>
  BY <1>1, <1>2, SameRequests, FinishKeepsHandlers DEF TablesOK
<1>3. CASE \E r \in Requests :
             /\ request' = [request EXCEPT ![r] = "auto_approved"]
             /\ SetEntries(Reopenable, "draft")
             /\ Goto(h, "check_submitted")
  <2>1. PICK r \in Requests : request' = [request EXCEPT ![r] = "auto_approved"]
    BY <1>3
  <2>2. HandlersOK'
    BY <1>3, GotoKeepsHandlers
  <2>3. status' \in [Entries -> EntryStates]
    BY <1>3, SetEntriesTyped
  <2>4. request' \in [Requests -> RequestStates] /\ OnePending'
    BY <2>1, CloseRequest
  <2>5. QED
    BY <1>1, <2>2, <2>3, <2>4 DEF TablesOK
<1>4. QED
  BY <1>2, <1>3 DEF ReopenAtOnce, ReopenSubmitted

\* The steps that leave the entries alone and touch at most the notices.
LEMMA NoticeInv ==
  ASSUME TablesOK, HandlersOK, NEW h \in Handlers,
         \/ NotifySubmitted(h)
         \/ ClearRequest(h)
         \/ NotifyRequest(h)
         \/ CheckSubmitted(h)
         \/ ClearSubmission(h)
  PROVE  TablesOK' /\ HandlersOK'
<1>1. UNCHANGED <<status, request>>
  BY DEF NotifySubmitted, ClearRequest, NotifyRequest, CheckSubmitted, ClearSubmission
<1>2. unread' \subseteq Requests \cup {Submission}
  <2>1. CASE NotifyRequest(h)
    <3>1. handler[h].about \in Requests
      BY <2>1 DEF NotifyRequest, At, HandlersOK, WellFormed
    <3>2. QED
      BY <2>1, <3>1 DEF NotifyRequest, TablesOK
  <2>2. CASE ~NotifyRequest(h)
    BY <2>2 DEF NotifySubmitted, ClearRequest, CheckSubmitted, ClearSubmission, TablesOK
  <2>3. QED
    BY <2>1, <2>2
<1>3. HandlersOK'
  BY GotoKeepsHandlers, FinishKeepsHandlers
     DEF NotifySubmitted, ClearRequest, NotifyRequest, CheckSubmitted, ClearSubmission
<1>4. QED
  BY <1>1, <1>2, <1>3, SameRequests DEF TablesOK

\* The counts of an edit request and what the handler makes of them.
LEMMA CountInv ==
  ASSUME TablesOK, HandlersOK, NEW h \in Handlers, NEW auto,
         CountReopenable(h) \/ CountSubmitted(h) \/ FindPending(h, auto)
  PROVE  TablesOK' /\ HandlersOK'
<1>1. UNCHANGED <<status, request, unread>>
  BY DEF CountReopenable, CountSubmitted, FindPending
<1>2. PICK at, m, n :
        /\ at \in {"idle", "count_submitted", "find_pending", "reopen", "reopen_submitted",
                   "insert_pending"}
        /\ handler' = [handler EXCEPT ![h] = Step(at, m, n, NoRequest)]
  BY DEF CountReopenable, CountSubmitted, FindPending, Idle
<1>3. WellFormed(Step(at, m, n, NoRequest))
  BY <1>2 DEF WellFormed, Step
<1>4. HandlersOK'
  BY <1>2, <1>3, StepKeepsHandlers
<1>5. QED
  BY <1>1, <1>4, SameRequests DEF TablesOK

\* A request is closed, and its handler goes on to clear its notice.
LEMMA CloseInv ==
  ASSUME TablesOK, HandlersOK, NEW h \in Handlers,
         CancelZombie(h) \/ \E r \in Requests : ApproveReopen(h, r) \/ RejectReopen(h, r)
  PROVE  TablesOK' /\ HandlersOK'
<1>1. UNCHANGED unread /\ status' \in [Entries -> EntryStates]
  BY SetEntriesTyped DEF CancelZombie, ApproveReopen, RejectReopen, TablesOK
<1>2. CASE Finish(h) /\ UNCHANGED request
  BY <1>1, <1>2, SameRequests, FinishKeepsHandlers DEF TablesOK
<1>3. CASE \E r \in Requests, s \in Decided :
             request' = [request EXCEPT ![r] = s] /\ GotoAbout(h, "clear_request", r)
  BY <1>1, <1>3, CloseRequest, GotoAboutKeepsHandlers DEF TablesOK
<1>4. QED
  BY <1>2, <1>3 DEF CancelZombie, ApproveReopen, RejectReopen, Pending

LEMMA InsertPendingInv ==
  ASSUME TablesOK, HandlersOK, NEW h \in Handlers, InsertPending(h)
  PROVE  TablesOK' /\ HandlersOK'
<1>1. UNCHANGED <<status, unread>>
  BY DEF InsertPending
<1>2. CASE Finish(h) /\ UNCHANGED request
  BY <1>1, <1>2, SameRequests, FinishKeepsHandlers DEF TablesOK
<1>3. CASE /\ Pending = {}
           /\ \E r \in Requests : /\ request' = [request EXCEPT ![r] = "pending"]
                                  /\ GotoAbout(h, "notify_request", r)
  BY <1>1, <1>3, OpenRequest, GotoAboutKeepsHandlers DEF TablesOK
<1>4. QED
  BY <1>2, <1>3 DEF InsertPending

LEMMA EntriesInv ==
  ASSUME TablesOK, HandlersOK, NEW h \in Handlers, NEW ids,
         Submit(h, ids) \/ \E s \in {"approved", "rejected"} : DecideEntries(h, ids, s)
  PROVE  TablesOK' /\ HandlersOK'
<1>1. UNCHANGED <<request, unread>>
  BY DEF Submit, DecideEntries
<1>2. status' \in [Entries -> EntryStates]
  BY SetEntriesTyped DEF Submit, DecideEntries
<1>3. HandlersOK'
  BY GotoKeepsHandlers DEF Submit, DecideEntries
<1>4. QED
  BY <1>1, <1>2, <1>3, SameRequests DEF TablesOK

LEMMA CleanUpInv ==
  ASSUME TablesOK, HandlersOK, NEW r \in Requests, CleanUp(r)
  PROVE  TablesOK' /\ HandlersOK'
<1>1. request' \in [Requests -> RequestStates] /\ OnePending'
  BY CloseRequest DEF CleanUp
<1>2. UNCHANGED <<status, handler>> /\ unread' \subseteq unread
  BY DEF CleanUp
<1>3. QED
  BY <1>1, <1>2 DEF TablesOK, HandlersOK, WellFormed

LEMMA OthersInv ==
  ASSUME TablesOK, HandlersOK,
         (\E n \in unread : ReadNotice(n)) \/ Restart \/ UNCHANGED vars
  PROVE  TablesOK' /\ HandlersOK'
<1>1. UNCHANGED <<status, request>> /\ unread' \subseteq unread
  BY DEF ReadNotice, Restart, vars
<1>2. HandlersOK'
  <2>1. CASE Restart
    BY <2>1 DEF Restart, HandlersOK, WellFormed, Idle, Step
  <2>2. CASE UNCHANGED handler
    BY <2>2 DEF HandlersOK, WellFormed
  <2>3. QED
    BY <2>1, <2>2 DEF ReadNotice, vars
<1>3. QED
  BY <1>1, <1>2, SameRequests DEF TablesOK

LEMMA ContinueInv ==
  ASSUME TablesOK, HandlersOK, NEW h \in Handlers, Continue(h)
  PROVE  TablesOK' /\ HandlersOK'
BY NoticeInv, CloseInv, CountInv, ReopenInv, InsertPendingInv DEF Continue

LEMMA NextInv ==
  ASSUME Inv, [Next]_vars
  PROVE  Inv'
<1> SUFFICES TablesOK' /\ HandlersOK'
  BY DEF Inv, TypeOK, HandlersOK, TablesOK
<1>1. TablesOK /\ HandlersOK
  BY InvParts
<1>2. CASE \E i \in Entries : CreateDraft(i) \/ DeleteDraft(i)
  BY <1>1, <1>2, RowsInv
<1>3. ASSUME NEW h \in Handlers,
             \/ \E ids \in SUBSET Entries :
                  \/ Submit(h, ids)
                  \/ \E s \in {"approved", "rejected"} : DecideEntries(h, ids, s)
             \/ CountReopenable(h)
             \/ \E r \in Requests : ApproveReopen(h, r) \/ RejectReopen(h, r)
             \/ Continue(h)
      PROVE  TablesOK' /\ HandlersOK'
  BY <1>1, <1>3, EntriesInv, CountInv, CloseInv, ContinueInv
<1>4. CASE \E r \in Requests : CleanUp(r)
  BY <1>1, <1>4, CleanUpInv
<1>5. CASE (\E n \in unread : ReadNotice(n)) \/ Restart \/ UNCHANGED vars
  BY <1>1, <1>5, OthersInv
<1>6. QED
  BY <1>2, <1>3, <1>4, <1>5 DEF Next

LEMMA Invariance == Spec => []Inv
<1>1. Init => Inv
  BY InitInv
<1>2. Inv /\ [Next]_vars => Inv'
  BY NextInv
<1>3. QED
  BY <1>1, <1>2, PTL DEF Spec

----------------------------------------------------------------------------
(* The theorems                                                            *)

\* Rows and handlers stay well-formed.
THEOREM TypeCorrect == Spec => []TypeOK
<1>1. Inv => TypeOK
  BY DEF Inv
<1>2. QED
  BY <1>1, Invariance, PTL

\* A week never has two pending edit requests, however many tabs ask for one.
THEOREM OnePendingAlways == Spec => []OnePending
<1>1. Inv => OnePending
  BY DEF Inv
<1>2. QED
  BY <1>1, Invariance, PTL

\* Approved entries go back to draft only with consent.  Of the steps that take
\* entries back, only the approval of a request and the reopening at will touch
\* approved ones: the one for submitted weeks looks again under the lock.
THEOREM ConsentNeeded == Spec => ReopenNeedsConsent
<1>1. ASSUME Inv, [Next]_vars
      PROVE  ReopensByConsent
  <2>1. SUFFICES ASSUME NEW i \in Entries, status[i] = "approved", status'[i] = "draft"
                 PROVE  \/ \E r \in Pending : request'[r] = "approved"
                        \/ \E h \in Handlers : At(h, "reopen") /\ ~At(h, "reopen")'
    BY DEF ReopensByConsent
  <2>2. \/ \E h \in Handlers, r \in Requests : ApproveReopen(h, r)
        \/ \E h \in Handlers : ReopenAtOnce(h) \/ ReopenSubmitted(h)
    <3>1. ~UNCHANGED status
      BY <2>1
    <3>2. CASE \E k \in Entries : CreateDraft(k) \/ DeleteDraft(k)
      BY <2>1, <3>2 DEF CreateDraft, DeleteDraft, SetEntries
    <3>3. CASE \E h \in Handlers, ids \in SUBSET Entries :
                 \/ Submit(h, ids)
                 \/ \E s \in {"approved", "rejected"} : DecideEntries(h, ids, s)
      BY <2>1, <3>3 DEF Submit, DecideEntries, SetEntries
    <3>4. QED
      BY <1>1, <3>1, <3>2, <3>3
         DEF Next, Continue, vars, NotifySubmitted, CancelZombie, ClearRequest,
             CountReopenable, CountSubmitted, FindPending, InsertPending, NotifyRequest,
             CheckSubmitted, ClearSubmission, RejectReopen, ReadNotice, CleanUp, Restart
  <2>3. CASE \E h \in Handlers, r \in Requests : ApproveReopen(h, r)
    <3>1. PICK h \in Handlers, r \in Requests : ApproveReopen(h, r)
      BY <2>3
    <3>2. r \in Pending /\ request'[r] = "approved"
      BY <1>1, <3>1 DEF ApproveReopen, Inv, TypeOK
    <3>3. QED
      BY <3>2
  <2>4. ASSUME NEW h \in Handlers, ReopenSubmitted(h)
        PROVE  FALSE
    <3>1. i \in Reopenable /\ i \notin With("submitted")
      BY <2>1 DEF Reopenable, With
    <3>2. QED
      BY <2>1, <2>4, <3>1 DEF ReopenSubmitted
  <2>5. ASSUME NEW h \in Handlers, ReopenAtOnce(h)
        PROVE  At(h, "reopen") /\ ~At(h, "reopen")'
    <3>1. Goto(h, "check_submitted") \/ Finish(h)
      BY <2>5 DEF ReopenAtOnce
    <3>2. handler'[h].at # "reopen"
      BY <1>1, <3>1 DEF Goto, Finish, Idle, Step, Inv, TypeOK
    <3>3. QED
      BY <2>5, <3>2 DEF ReopenAtOnce, At
  <2>6. QED
    BY <2>2, <2>3, <2>4, <2>5
<1>2. Inv /\ [Next]_vars => [ReopensByConsent]_vars
  BY <1>1
<1>3. QED
  BY <1>2, Invariance, PTL DEF Spec, ReopenNeedsConsent

\* A decided request keeps its decision until it is cleaned up: every write of a
\* request's status is guarded by its being pending, or makes a new one.
THEOREM DecidedOnce == Spec => RequestsFinal
<1>1. ASSUME Inv, [Next]_vars
      PROVE  KeepsDecided
  <2>1. SUFFICES ASSUME NEW r \in Requests, request[r] \in Decided
                 PROVE  request'[r] \in {request[r], "none"}
    BY DEF KeepsDecided
  <2>2. \/ UNCHANGED request
        \/ \E q \in Requests : CleanUp(q)
        \/ \E q \in Requests, s \in RequestStates :
             request[q] \in {"none", "pending"} /\ request' = [request EXCEPT ![q] = s]
    <3>1. CASE \E h \in Handlers, q \in Requests : ApproveReopen(h, q) \/ RejectReopen(h, q)
      BY <3>1 DEF ApproveReopen, RejectReopen, Pending, RequestStates
    <3>2. CASE \E h \in Handlers : CancelZombie(h)
      BY <3>2 DEF CancelZombie, Pending, RequestStates
    <3>3. CASE \E h \in Handlers : InsertPending(h)
      BY <3>3 DEF InsertPending, RequestStates
    <3>4. CASE \E h \in Handlers : ReopenAtOnce(h) \/ ReopenSubmitted(h)
      BY <3>4 DEF ReopenAtOnce, ReopenSubmitted, RequestStates
    <3>5. QED
      BY <1>1, <3>1, <3>2, <3>3, <3>4
         DEF Next, Continue, vars, CreateDraft, DeleteDraft, Submit, DecideEntries,
             NotifySubmitted, ClearRequest, CountReopenable, CountSubmitted, FindPending,
             NotifyRequest, CheckSubmitted, ClearSubmission, ReadNotice, Restart
  <2>3. request \in [Requests -> RequestStates]
    BY <1>1 DEF Inv, TypeOK
  <2>4. QED
    BY <2>1, <2>2, <2>3 DEF CleanUp
<1>2. Inv /\ [Next]_vars => [KeepsDecided]_vars
  BY <1>1
<1>3. QED
  BY <1>2, Invariance, PTL DEF Spec, RequestsFinal
=============================================================================
