--------------------------- MODULE AccountsProofs ---------------------------
(***************************************************************************)
(* Accounts and Sessions proved for any number of accounts and requests.   *)
(*                                                                         *)
(* Accounts: an active admin remains, approvers remain and approvals never *)
(* run in a circle.                                                        *)
(*                                                                         *)
(* Sessions: neither a session nor a reset link outlives the change that   *)
(* revokes it.  SessionsCurrent is not inductive.  Why a change of         *)
(* password may keep the session that asked for it depends on the account  *)
(* being active for as long as that session exists, and why it ends all    *)
(* others on what its DELETE saw; a login creates a current session only   *)
(* if the account has been active since the login read it.                 *)
(***************************************************************************)
EXTENDS Accounts, Sessions, FiniteSetTheorems, WellFoundedInduction, TLAPS

\* What the rows and the requests' memories may hold.
THEOREM TypeCorrect == Spec => []TypeOK
<1>1. Init => TypeOK
  BY DEF Init, TypeOK, ReqState, Idle, Roles
<1>2. ASSUME TypeOK, [Next]_vars PROVE TypeOK'
  <2> USE <1>2 DEF TypeOK
  <2>idle. Idle \in ReqState
    BY DEF ReqState
  <2>1. ASSUME NEW u \in Users, Setup(u) PROVE TypeOK'
    BY <2>1 DEF Setup, Roles
  <2>2. ASSUME NEW r \in Requests, Fail(r) PROVE TypeOK'
    BY <2>2, <2>idle DEF Fail
  <2>3. ASSUME NEW r \in Requests, ArchiveAssistant(r) PROVE TypeOK'
    BY <2>3, <2>idle DEF ArchiveAssistant, Done
  <2>4. ASSUME NEW r \in Requests, RestoreAssistant(r) PROVE TypeOK'
    BY <2>4, <2>idle DEF RestoreAssistant, Done
  <2>5. ASSUME NEW r \in Requests, NEW u \in Users, Authenticate(r, u) PROVE TypeOK'
    <3>1. Authed(u, role[u]) \in ReqState
      BY DEF ReqState
    <3> QED BY <2>5, <3>1 DEF Authenticate
  <2>6. ASSUME NEW r \in Requests, NEW u \in Users, Delete(r, u) PROVE TypeOK'
    <3>1. approvers' \in [Users -> SUBSET Users]
      BY <2>6 DEF Delete
    <3> QED BY <2>6, <3>1, <2>idle DEF Delete, Done, Roles
  <2>7. ASSUME NEW r \in Requests, NEW u \in Users, NEW op \in {"archive", "restore"},
               CheckAssistant(r, op, u)
        PROVE TypeOK'
    <3>1. req[r] \in ReqState /\ req[r].step = "authed"
      BY <2>7 DEF CheckAssistant, ByLead
    <3>2. req[r].by \in Users
      BY <3>1 DEF ReqState, Idle, Authed, Checked
    <3>3. Checked(req[r].by, op, u) \in ReqState
      BY <3>2 DEF ReqState
    <3> QED BY <2>7, <3>3 DEF CheckAssistant
  <2>8. ASSUME NEW r \in Requests, NEW u \in Users, NEW by \in [Dependents(u) -> Users],
               Archive(r, u, by)
        PROVE TypeOK'
    <3>1. approvers' \in [Users -> SUBSET Users]
      BY <2>8 DEF Archive, Reassigned
    <3> QED BY <2>8, <3>1, <2>idle DEF Archive, Done
  <2>9. ASSUME NEW r \in Requests, NEW u \in Users, NEW as \in SUBSET Users, Restore(r, u, as)
        PROVE TypeOK'
    BY <2>9, <2>idle DEF Restore, Done
  <2>10. ASSUME NEW r \in Requests, NEW u \in Users, NEW as \in SUBSET Users, NEW ro \in Roles,
                Create(r, u, ro, as)
         PROVE TypeOK'
    BY <2>10, <2>idle DEF Create, Done
  <2>11. ASSUME NEW r \in Requests, NEW u \in Users, NEW as \in SUBSET Users, NEW ro \in Roles,
                Update(r, u, ro, as)
         PROVE TypeOK'
    BY <2>11, <2>idle DEF Update, Done
  <2>12. CASE UNCHANGED vars
    BY <2>12 DEF vars
  <2> QED BY <2>1, <2>2, <2>3, <2>4, <2>5, <2>6, <2>7, <2>8, <2>9, <2>10, <2>11, <2>12 DEF Next
<1> QED BY <1>1, <1>2, PTL DEF Spec

-----------------------------------------------------------------------------
(***************************************************************************)
(* No approval cycle.                                                      *)
(***************************************************************************)

\* Sets of accounts each of which reports to another one in the set.
NoExit(S, up) == S # {} /\ \A u \in S : up[u] \cap S # {}

\* New approvers that do not lead back to the account close no cycle.
LEMMA AssignKeepsAcyclic ==
  ASSUME NEW up \in [Users -> SUBSET Users], NEW u \in Users, NEW as \in SUBSET Users,
         ~Reaches(as, up, u),
         \A S \in SUBSET Users : ~NoExit(S, up),
         NEW S \in SUBSET Users
  PROVE  ~NoExit(S, [up EXCEPT ![u] = as])
<1> DEFINE new == [up EXCEPT ![u] = as]
<1>1. PICK C \in SUBSET Users : as \subseteq C /\ (\A x \in C : up[x] \subseteq C) /\ u \notin C
  BY DEF Reaches
<1> SUFFICES ASSUME NoExit(S, new) PROVE FALSE
  OBVIOUS
<1>2. \A x \in C : new[x] \subseteq C
  BY <1>1
<1>3. ASSUME NEW x \in S \cap C PROVE up[x] \cap (S \cap C) # {}
  <2>1. x # u /\ x \in Users /\ new[x] = up[x] /\ new[x] \cap S # {}
    BY <1>1 DEF NoExit
  <2> QED BY <2>1, <1>1
<1>4. S \cap C = {}
  BY <1>3 DEF NoExit
<1>5. u \notin S
  <2>1. u \in S => new[u] = as /\ as \cap S # {}
    BY DEF NoExit
  <2> QED BY <2>1, <1>1, <1>4
<1>6. NoExit(S, up)
  BY <1>5 DEF NoExit
<1> QED BY <1>6

\* Archiving with replacements none of which leads back to the account it
\* is for closes no cycle: in a smallest set without exit some replacement
\* stays inside, and the accounts it leads to form a smaller one.
LEMMA ReplaceKeepsAcyclic ==
  ASSUME NEW up \in [Users -> SUBSET Users], NEW new \in [Users -> SUBSET Users],
         NEW D \in SUBSET Users, NEW by \in [D -> Users],
         \A x \in Users \ D : new[x] \subseteq up[x],
         \A d \in D : new[d] \subseteq up[d] \cup {by[d]},
         \A d \in D : ~Reaches({by[d]}, new, d),
         \A S \in SUBSET Users : ~NoExit(S, up),
         NEW S0 \in SUBSET Users
  PROVE  ~NoExit(S0, new)
<1> SUFFICES ASSUME NoExit(S0, new) PROVE FALSE
  OBVIOUS
<1> DEFINE T == {S \in SUBSET Users : NoExit(S, new)}
<1>1. T \subseteq FiniteSubsetsOf(Users) /\ T # {}
  BY UsersFinite, FS_Subset DEF FiniteSubsetsOf
<1>2. IsWellFoundedOn(StrictSubsetOrdering(Users), FiniteSubsetsOf(Users))
  BY FS_StrictSubsetOrderingWellFounded
<1>3. PICK S \in T : \A Y \in T : ~(<<Y, S>> \in StrictSubsetOrdering(Users))
  BY <1>1, <1>2, WFMin
<1>4. PICK d \in D \cap S : by[d] \in S
  <2> SUFFICES ASSUME \A d \in D \cap S : by[d] \notin S PROVE FALSE
    OBVIOUS
  <2>1. NoExit(S, up)
    BY DEF NoExit
  <2> QED BY <2>1
<1>5. PICK C \in SUBSET Users : by[d] \in C /\ (\A x \in C : new[x] \subseteq C) /\ d \notin C
  BY DEF Reaches
<1>6. NoExit(C \cap S, new)
  BY <1>4, <1>5 DEF NoExit
<1>7. <<C \cap S, S>> \in StrictSubsetOrdering(Users)
  BY <1>4, <1>5 DEF StrictSubsetOrdering
<1> QED BY <1>3, <1>6, <1>7

Acyclic == \A S \in SUBSET Users : ~NoExit(S, approvers)

\* Rows name accounts on both sides: deleting one deletes its rows.
RowsOfAccounts ==
  \A u \in Users : ~Exists(u) => approvers[u] = {} /\ \A x \in Users : u \notin approvers[x]

LEMMA RowsHaveAccounts == Spec => []RowsOfAccounts
<1>1. Init => RowsOfAccounts
  BY DEF Init, RowsOfAccounts
<1>2. ASSUME TypeOK, RowsOfAccounts, [Next]_vars PROVE RowsOfAccounts'
  <2> USE <1>2 DEF TypeOK, RowsOfAccounts, Exists
  <2>1. ASSUME NEW u \in Users, Setup(u) PROVE RowsOfAccounts'
    BY <2>1 DEF Setup
  <2>2. ASSUME NEW r \in Requests, Fail(r) PROVE RowsOfAccounts'
    BY <2>2 DEF Fail
  <2>3. ASSUME NEW r \in Requests, ArchiveAssistant(r) PROVE RowsOfAccounts'
    BY <2>3 DEF ArchiveAssistant
  <2>4. ASSUME NEW r \in Requests, RestoreAssistant(r) PROVE RowsOfAccounts'
    BY <2>4 DEF RestoreAssistant
  <2>5. ASSUME NEW r \in Requests, NEW u \in Users, Authenticate(r, u) PROVE RowsOfAccounts'
    BY <2>5 DEF Authenticate
  <2>6. ASSUME NEW r \in Requests, NEW u \in Users, Delete(r, u) PROVE RowsOfAccounts'
    BY <2>6 DEF Delete
  <2>7. ASSUME NEW r \in Requests, NEW u \in Users, NEW op \in {"archive", "restore"},
               CheckAssistant(r, op, u)
        PROVE RowsOfAccounts'
    BY <2>7 DEF CheckAssistant
  <2>8. ASSUME NEW r \in Requests, NEW u \in Users, NEW by \in [Dependents(u) -> Users],
               Archive(r, u, by)
        PROVE RowsOfAccounts'
    <3>1. \A d \in Dependents(u) : Active(d) /\ Active(by[d])
      BY <2>8 DEF Archive, ValidReplacement, CanApprove, Dependents
    <3> QED BY <2>8, <3>1 DEF Archive, Reassigned, Active
  <2>9. ASSUME NEW r \in Requests, NEW u \in Users, NEW as \in SUBSET Users, Restore(r, u, as)
        PROVE RowsOfAccounts'
    BY <2>9 DEF Restore, ValidApproversOf, ValidApprovers, CanApprove, Active
  <2>10. ASSUME NEW r \in Requests, NEW u \in Users, NEW as \in SUBSET Users, NEW ro \in Roles,
                Create(r, u, ro, as)
         PROVE RowsOfAccounts'
    BY <2>10 DEF Create, ValidApprovers, CanApprove, Active
  <2>11. ASSUME NEW r \in Requests, NEW u \in Users, NEW as \in SUBSET Users, NEW ro \in Roles,
                Update(r, u, ro, as)
         PROVE RowsOfAccounts'
    BY <2>11 DEF Update, ValidApproversOf, ValidApprovers, CanApprove, Active
  <2>12. CASE UNCHANGED vars
    BY <2>12 DEF vars
  <2> HIDE DEF TypeOK, RowsOfAccounts, Exists
  <2> QED BY <2>1, <2>2, <2>3, <2>4, <2>5, <2>6, <2>7, <2>8, <2>9, <2>10, <2>11, <2>12, Zenon DEF Next
<1> QED BY <1>1, <1>2, TypeCorrect, PTL DEF Spec

\* Nobody approves, over any number of steps, for somebody above them.
THEOREM ApprovalsAcyclic == Spec => []NoApprovalCycle
<1>1. Init => Acyclic
  BY DEF Init, Acyclic, NoExit
<1>2. ASSUME TypeOK, TypeOK', RowsOfAccounts, Acyclic, [Next]_vars PROVE Acyclic'
  <2> USE <1>2
  <2>types. approvers \in [Users -> SUBSET Users] /\ approvers' \in [Users -> SUBSET Users]
    BY DEF TypeOK
  <2>same. ASSUME UNCHANGED approvers PROVE Acyclic'
    BY <2>same DEF Acyclic, NoExit
  <2>fewer. ASSUME \A x \in Users : approvers'[x] \subseteq approvers[x] PROVE Acyclic'
    BY <2>fewer DEF Acyclic, NoExit
  <2>assign. ASSUME NEW u \in Users, NEW as \in SUBSET Users, ~Reaches(as, approvers, u),
                    approvers' = [approvers EXCEPT ![u] = as]
             PROVE  Acyclic'
    BY <2>assign, <2>types, AssignKeepsAcyclic DEF Acyclic
  <2>1. ASSUME NEW u \in Users, Setup(u) PROVE Acyclic'
    BY <2>1, <2>same DEF Setup
  <2>2. ASSUME NEW r \in Requests, Fail(r) PROVE Acyclic'
    BY <2>2, <2>same DEF Fail
  <2>3. ASSUME NEW r \in Requests, ArchiveAssistant(r) PROVE Acyclic'
    BY <2>3, <2>same DEF ArchiveAssistant
  <2>4. ASSUME NEW r \in Requests, RestoreAssistant(r) PROVE Acyclic'
    BY <2>4, <2>same DEF RestoreAssistant
  <2>5. ASSUME NEW r \in Requests, NEW u \in Users, Authenticate(r, u) PROVE Acyclic'
    BY <2>5, <2>same DEF Authenticate
  <2>6. ASSUME NEW r \in Requests, NEW u \in Users, Delete(r, u) PROVE Acyclic'
    BY <2>6, <2>fewer DEF Delete
  <2>7. ASSUME NEW r \in Requests, NEW u \in Users, NEW op \in {"archive", "restore"},
               CheckAssistant(r, op, u)
        PROVE Acyclic'
    BY <2>7, <2>same DEF CheckAssistant
  <2>8. ASSUME NEW r \in Requests, NEW u \in Users, NEW by \in [Dependents(u) -> Users],
               Archive(r, u, by)
        PROVE Acyclic'
    <3>1. /\ Dependents(u) \in SUBSET Users
          /\ \A x \in Users \ Dependents(u) : approvers'[x] \subseteq approvers[x]
          /\ \A d \in Dependents(u) : approvers'[d] \subseteq approvers[d] \cup {by[d]}
          /\ \A d \in Dependents(u) : ~Reaches({by[d]}, approvers', d)
      BY <2>8 DEF Archive, Reassigned, ValidReplacement, Dependents
    <3>2. \A S \in SUBSET Users : ~NoExit(S, approvers')
      BY <3>1, <2>types, ReplaceKeepsAcyclic DEF Acyclic
    <3> QED BY <3>2 DEF Acyclic
  <2>9. ASSUME NEW r \in Requests, NEW u \in Users, NEW as \in SUBSET Users, Restore(r, u, as)
        PROVE Acyclic'
    BY <2>9, <2>assign DEF Restore, ValidApproversOf
  <2>10. ASSUME NEW r \in Requests, NEW u \in Users, NEW as \in SUBSET Users, NEW ro \in Roles,
                Create(r, u, ro, as)
         PROVE Acyclic'
    <3>1. as \subseteq Users \ {u} /\ \A x \in Users \ {u} : approvers[x] \subseteq Users \ {u}
      BY <2>10, <2>types DEF Create, ValidApprovers, CanApprove, RowsOfAccounts, Active, Exists
    <3>2. ~Reaches(as, approvers, u)
      BY <3>1 DEF Reaches
    <3> QED BY <2>10, <3>2, <2>assign DEF Create
  <2>11. ASSUME NEW r \in Requests, NEW u \in Users, NEW as \in SUBSET Users, NEW ro \in Roles,
                Update(r, u, ro, as)
         PROVE Acyclic'
    BY <2>11, <2>assign DEF Update, ValidApproversOf
  <2>12. CASE UNCHANGED vars
    BY <2>12, <2>same DEF vars
  <2> QED BY <2>1, <2>2, <2>3, <2>4, <2>5, <2>6, <2>7, <2>8, <2>9, <2>10, <2>11, <2>12 DEF Next
<1>3. Acyclic => NoApprovalCycle
  BY DEF Acyclic, NoApprovalCycle, NoExit
<1> QED BY <1>1, <1>2, <1>3, TypeCorrect, RowsHaveAccounts, PTL DEF Spec

-----------------------------------------------------------------------------
(***************************************************************************)
(* An active admin remains.                                                *)
(***************************************************************************)

\* Beside an active admin who is not the last one there is another.
LEMMA AnotherAdmin ==
  ASSUME NEW u \in ActiveAdmins, ~LastAdmin(u)
  PROVE  \E x \in ActiveAdmins : x # u
<1>1. IsFiniteSet(ActiveAdmins)
  BY UsersFinite, FS_Subset DEF ActiveAdmins
<1>2. ~(Cardinality(ActiveAdmins) <= 1)
  BY DEF LastAdmin, ActiveAdmins
<1>3. Cardinality({u}) = 1
  BY FS_Singleton
<1>4. ActiveAdmins # {u}
  BY <1>2, <1>3
<1> QED BY <1>4

NoAdminLeft == (\E u \in Users : Exists(u)) /\ ActiveAdmins = {}

\* No installation loses its last active admin, except to the overtaken
\* archiving of an account that has become an admin.
THEOREM AdminAlwaysRemains == Spec => AdminRemains
<1> DEFINE Slip == \E r \in Requests, u \in Users : Overtaken(r, "archive", u) /\ role[u] = "admin"
<1>1. ASSUME TypeOK, [Next]_vars, NoAdminLeft' PROVE NoAdminLeft \/ Slip
  <2> USE <1>1 DEF TypeOK, NoAdminLeft, Exists, Active
  <2> DEFINE Goal == NoAdminLeft \/ Slip
  <2>keep. ASSUME NEW x \in ActiveAdmins, status'[x] = "active", role'[x] = "admin" PROVE Goal
    BY <2>keep DEF ActiveAdmins
  <2>same. ASSUME UNCHANGED <<status, role>> PROVE Goal
    BY <2>same DEF ActiveAdmins
  \* Only an account that leaves its role or its active state matters.
  <2>other. ASSUME NEW u \in Users, u \in ActiveAdmins => ~LastAdmin(u), \E x \in Users : Exists(x),
                   \A x \in Users \ {u} : status'[x] = status[x] /\ role'[x] = role[x]
            PROVE  Goal
    <3>1. CASE ActiveAdmins = {}
      BY <2>other, <3>1
    <3>2. CASE ActiveAdmins # {}
      <4>1. PICK x \in ActiveAdmins : x # u
        BY <2>other, <3>2, AnotherAdmin
      <4> QED BY <4>1, <2>other, <2>keep DEF ActiveAdmins
    <3> QED BY <3>1, <3>2
  <2>1. ASSUME NEW u \in Users, Setup(u) PROVE Goal
    BY <2>1 DEF Setup, ActiveAdmins
  <2>2. ASSUME NEW r \in Requests, Fail(r) PROVE Goal
    BY <2>2, <2>same DEF Fail
  <2>3. ASSUME NEW r \in Requests, ArchiveAssistant(r) PROVE Goal
    <3> DEFINE u == req[r].of
    <3>1. u \in Users /\ req[r].by \in Users
      BY <2>3 DEF ArchiveAssistant, ReqState, Idle, Authed, Checked
    <3>2. CASE u \in ActiveAdmins
      <4>1. role[u] = "admin" /\ ~MayManage(req[r].by, u)
        BY <3>2 DEF MayManage, ActiveAdmins
      <4>2. req'[r] = Idle
        BY <2>3 DEF ArchiveAssistant, Done
      <4> QED BY <3>1, <4>1, <4>2, <2>3 DEF ArchiveAssistant, Overtaken
    <3>3. CASE u \notin ActiveAdmins
      BY <3>1, <3>3, <2>3, <2>other DEF ArchiveAssistant
    <3> QED BY <3>2, <3>3
  <2>4. ASSUME NEW r \in Requests, RestoreAssistant(r) PROVE Goal
    <3>1. req[r].of \in Users
      BY <2>4 DEF RestoreAssistant, ReqState, Idle, Authed, Checked
    <3>2. req[r].of \notin ActiveAdmins /\ Exists(req[r].of)
      BY <2>4 DEF RestoreAssistant, ActiveAdmins
    <3> QED BY <3>1, <3>2, <2>4, <2>other DEF RestoreAssistant
  <2>5. ASSUME NEW r \in Requests, NEW u \in Users, Authenticate(r, u) PROVE Goal
    BY <2>5, <2>same DEF Authenticate
  <2>6. ASSUME NEW r \in Requests, NEW u \in Users, Delete(r, u) PROVE Goal
    BY <2>6, <2>other DEF Delete
  <2>7. ASSUME NEW r \in Requests, NEW u \in Users, NEW op \in {"archive", "restore"},
               CheckAssistant(r, op, u)
        PROVE Goal
    BY <2>7, <2>same DEF CheckAssistant
  <2>8. ASSUME NEW r \in Requests, NEW u \in Users, NEW by \in [Dependents(u) -> Users],
               Archive(r, u, by)
        PROVE Goal
    BY <2>8, <2>other DEF Archive
  <2>9. ASSUME NEW r \in Requests, NEW u \in Users, NEW as \in SUBSET Users, Restore(r, u, as)
        PROVE Goal
    BY <2>9, <2>other DEF Restore, ActiveAdmins
  <2>10. ASSUME NEW r \in Requests, NEW u \in Users, NEW as \in SUBSET Users, NEW ro \in Roles,
                Create(r, u, ro, as)
         PROVE Goal
    <3>1. CASE ro = "admin"
      BY <2>10, <3>1 DEF Create, ActiveAdmins
    <3>2. CASE ro # "admin"
      <4>1. \E a \in Users : Exists(a)
        BY <2>10, <3>2 DEF Create, ValidApprovers, CanApprove
      <4> QED BY <2>10, <4>1, <2>other DEF Create, ActiveAdmins
    <3> QED BY <3>1, <3>2
  <2>11. ASSUME NEW r \in Requests, NEW u \in Users, NEW as \in SUBSET Users, NEW ro \in Roles,
                Update(r, u, ro, as)
         PROVE Goal
    <3>1. CASE ro = "admin"
      <4>1. \A x \in ActiveAdmins : status'[x] = "active" /\ role'[x] = "admin"
        BY <2>11, <3>1 DEF Update, ActiveAdmins
      <4> QED BY <2>11, <4>1, <2>keep DEF Update
    <3>2. CASE ro # "admin"
      BY <2>11, <3>2, <2>other DEF Update
    <3> QED BY <3>1, <3>2
  <2>12. CASE UNCHANGED vars
    BY <2>12, <2>same DEF vars
  <2> QED BY <2>1, <2>2, <2>3, <2>4, <2>5, <2>6, <2>7, <2>8, <2>9, <2>10, <2>11, <2>12 DEF Next
<1>2. TypeOK /\ [Next]_vars =>
        [(\E u \in Users : Exists(u)') /\ ActiveAdmins' = {}
          => (\E u \in Users : Exists(u) /\ ActiveAdmins = {}) \/ Slip]_vars
  BY <1>1 DEF NoAdminLeft
<1> QED BY <1>2, TypeCorrect, PTL DEF Spec, AdminRemains

-----------------------------------------------------------------------------
(***************************************************************************)
(* An approver remains.                                                    *)
(***************************************************************************)

\* Nobody who needs an approver loses the last one that counts, except to
\* the overtaken restoring of an assistant.
THEOREM ApproverAlwaysRemains == Spec => ApproverRemains
<1> DEFINE Slip(x) == \E r \in Requests : Overtaken(r, "restore", x)
<1>1. ASSUME TypeOK, RowsOfAccounts, [Next]_vars, NEW x \in Users, Unapproved(x)'
      PROVE  Unapproved(x) \/ Slip(x)
  <2> USE <1>1 DEF TypeOK, Active
  <2> DEFINE Goal == Unapproved(x) \/ Slip(x)
  <2>now. status'[x] = "active" /\ role'[x] # "admin" /\ ((\A a \in approvers[x] : ~CanApprove(a, role[x]))')
    BY DEF Unapproved, Effective
  \* An account that was active and keeps its role and rows, whose approvers
  \* all keep what counts.
  <2>other. ASSUME status[x] = "active", role'[x] = role[x], approvers[x] \subseteq approvers'[x],
                   \A a \in approvers[x] : CanApprove(a, role[x]) => CanApprove(a, role[x])'
            PROVE  Goal
    BY <2>other, <2>now DEF Unapproved, Effective
  <2>same. ASSUME UNCHANGED <<status, role, approvers>> PROVE Goal
    BY <2>same, <2>now, <2>other DEF CanApprove
  <2>1. ASSUME NEW u \in Users, Setup(u) PROVE Goal
    BY <2>1, <2>now DEF Setup, Exists
  <2>2. ASSUME NEW r \in Requests, Fail(r) PROVE Goal
    BY <2>2, <2>same DEF Fail
  <2>3. ASSUME NEW r \in Requests, ArchiveAssistant(r) PROVE Goal
    <3> DEFINE u == req[r].of
    <3>1. u \in Users
      BY <2>3 DEF ArchiveAssistant, ReqState, Idle, Authed, Checked
    <3>2. x # u /\ status[x] = "active" /\ u \notin approvers[x]
      BY <2>3, <2>now, <3>1 DEF ArchiveAssistant, Dependents
    <3> QED BY <2>3, <3>2, <2>other DEF ArchiveAssistant, CanApprove
  <2>4. ASSUME NEW r \in Requests, RestoreAssistant(r) PROVE Goal
    <3> DEFINE u == req[r].of
    <3>1. u \in Users /\ req[r].by \in Users
      BY <2>4 DEF RestoreAssistant, ReqState, Idle, Authed, Checked
    <3>2. CASE x # u
      <4>1. \A a \in approvers[x] : CanApprove(a, role[x]) => CanApprove(a, role[x])'
        BY <2>4, <3>1 DEF RestoreAssistant, CanApprove
      <4> QED BY <2>4, <2>now, <3>1, <3>2, <4>1, <2>other DEF RestoreAssistant
    <3>3. CASE x = u /\ MayManage(req[r].by, u)
      <4>1. req[r].by \in approvers[x] /\ CanApprove(req[r].by, role[x])
        BY <3>3 DEF MayManage, Effective
      <4>2. PICK l \in Users : l = req[r].by /\ l # u
        BY <2>4, <3>1, <3>3, <4>1 DEF RestoreAssistant, CanApprove
      <4>3. status'[l] = status[l] /\ role' = role /\ approvers' = approvers
        BY <2>4, <3>1, <4>2 DEF RestoreAssistant
      <4>4. l \in approvers'[x] /\ CanApprove(l, role[x])'
        BY <4>1, <4>2, <4>3 DEF CanApprove
      <4> QED BY <4>4, <2>now
    <3>4. CASE x = u /\ ~MayManage(req[r].by, u)
      BY <2>4, <3>4 DEF RestoreAssistant, Overtaken, Done
    <3> QED BY <3>2, <3>3, <3>4
  <2>5. ASSUME NEW r \in Requests, NEW u \in Users, Authenticate(r, u) PROVE Goal
    BY <2>5, <2>same DEF Authenticate
  <2>6. ASSUME NEW r \in Requests, NEW u \in Users, Delete(r, u) PROVE Goal
    <3>1. x # u /\ status[x] = "active" /\ u \notin approvers[x]
      BY <2>6, <2>now DEF Delete, Dependents
    <3>2. approvers'[x] = approvers[x] \ {u} /\ role'[x] = role[x]
      BY <2>6, <3>1 DEF Delete
    <3>3. \A a \in Users \ {u} : status'[a] = status[a] /\ role'[a] = role[a]
      BY <2>6 DEF Delete
    <3>4. \A a \in approvers[x] : CanApprove(a, role[x]) => CanApprove(a, role[x])'
      BY <3>1, <3>2, <3>3 DEF CanApprove
    <3> QED BY <3>1, <3>2, <3>4, <2>other
  <2>7. ASSUME NEW r \in Requests, NEW u \in Users, NEW op \in {"archive", "restore"},
               CheckAssistant(r, op, u)
        PROVE Goal
    BY <2>7, <2>same DEF CheckAssistant
  <2>8. ASSUME NEW r \in Requests, NEW u \in Users, NEW by \in [Dependents(u) -> Users],
               Archive(r, u, by)
        PROVE Goal
    <3>1. x # u /\ status[x] = "active"
      BY <2>8, <2>now DEF Archive
    <3>2. CASE x \in Dependents(u)
      <4>1. by[x] # u /\ CanApprove(by[x], role[x]) /\ by[x] \in approvers'[x]
        BY <2>8, <3>2 DEF Archive, ValidReplacement, Reassigned
      <4>2. CanApprove(by[x], role[x])'
        BY <2>8, <3>2, <4>1 DEF Archive, CanApprove
      <4> QED BY <4>1, <4>2, <2>now
    <3>3. CASE x \notin Dependents(u)
      <4>1. u \notin approvers[x] /\ approvers'[x] = approvers[x]
        BY <2>8, <3>1, <3>3 DEF Archive, Reassigned, Dependents
      <4>2. \A a \in approvers[x] : CanApprove(a, role[x]) => CanApprove(a, role[x])'
        BY <2>8, <4>1 DEF Archive, CanApprove
      <4> QED BY <2>8, <3>1, <4>1, <4>2, <2>other DEF Archive
    <3> QED BY <3>2, <3>3
  <2>9. ASSUME NEW r \in Requests, NEW u \in Users, NEW as \in SUBSET Users, Restore(r, u, as)
        PROVE Goal
    <3>1. \A a \in Users : CanApprove(a, role[x]) => CanApprove(a, role[x])'
      BY <2>9 DEF Restore, CanApprove
    <3>2. CASE x = u
      <4>1. PICK a \in as : CanApprove(a, role[x])
        BY <2>9, <2>now, <3>2 DEF Restore, ValidApproversOf, ValidApprovers
      <4>2. a \in approvers'[x] /\ CanApprove(a, role[x])'
        BY <2>9, <3>1, <3>2, <4>1 DEF Restore
      <4> QED BY <4>2, <2>now
    <3>3. CASE x # u
      BY <2>9, <2>now, <3>1, <3>3, <2>other DEF Restore
    <3> QED BY <3>2, <3>3
  <2>10. ASSUME NEW r \in Requests, NEW u \in Users, NEW as \in SUBSET Users, NEW ro \in Roles,
                Create(r, u, ro, as)
         PROVE Goal
    <3>1. \A a \in Users, any \in Roles : CanApprove(a, any) => CanApprove(a, any)'
      BY <2>10 DEF Create, CanApprove, Exists
    <3>2. CASE x = u
      <4>1. role'[x] = ro /\ approvers'[x] = as
        BY <2>10, <3>2 DEF Create
      <4>2. PICK a \in as : CanApprove(a, ro)
        BY <2>10, <2>now, <4>1 DEF Create, ValidApprovers
      <4>3. CanApprove(a, role[x])'
        BY <3>1, <4>1, <4>2
      <4> QED BY <4>1, <4>2, <4>3, <2>now
    <3>3. CASE x # u
      BY <2>10, <2>now, <3>1, <3>3, <2>other DEF Create
    <3> QED BY <3>2, <3>3
  <2>11. ASSUME NEW r \in Requests, NEW u \in Users, NEW as \in SUBSET Users, NEW ro \in Roles,
                Update(r, u, ro, as)
         PROVE Goal
    <3>1. CASE x = u
      <4>1. role'[x] = ro /\ approvers'[x] = as
        BY <2>11, <3>1 DEF Update
      <4>2. PICK a \in as : CanApprove(a, ro)
        BY <2>11, <2>now, <4>1 DEF Update, ValidApproversOf, ValidApprovers
      <4>3. a # u
        BY <2>11, <4>2 DEF Update, ValidApproversOf, Reaches
      <4>4. CanApprove(a, role[x])'
        BY <2>11, <4>1, <4>2, <4>3 DEF Update, CanApprove
      <4> QED BY <4>1, <4>2, <4>4, <2>now
    <3>2. CASE x # u
      <4>1. status[x] = "active" /\ role'[x] = role[x] /\ approvers'[x] = approvers[x]
        BY <2>11, <2>now, <3>2 DEF Update
      <4>2. CASE u \in approvers[x]
        <5>1. x \in Dependents(u)
          BY <4>1, <4>2 DEF Dependents
        <5>2. ro \in {"admin", "team_lead"} /\ status[u] = "active"
          BY <2>11, <5>1 DEF Update, KeepsDependents
        <5>3. role[x] # "admin"
          BY <2>now, <4>1
        <5>4. \A a \in Users : CanApprove(a, role[x]) => CanApprove(a, role[x])'
          <6>1. status' = status /\ role' = [role EXCEPT ![u] = ro]
            BY <2>11 DEF Update
          <6>2. CanApprove(u, role[x])'
            BY <4>1, <5>2, <5>3, <6>1 DEF CanApprove
          <6>3. ASSUME NEW a \in Users \ {u}, CanApprove(a, role[x]) PROVE CanApprove(a, role[x])'
            BY <4>1, <6>1, <6>3 DEF CanApprove
          <6> QED BY <6>2, <6>3
        <5> QED BY <4>1, <5>4, <2>other
      <4>3. CASE u \notin approvers[x]
        <5>1. \A a \in approvers[x] : CanApprove(a, role[x]) => CanApprove(a, role[x])'
          BY <2>11, <4>1, <4>3 DEF Update, CanApprove
        <5> QED BY <4>1, <5>1, <2>other
      <4> QED BY <4>2, <4>3
    <3> QED BY <3>1, <3>2
  <2>12. CASE UNCHANGED vars
    BY <2>12, <2>same DEF vars
  <2> QED BY <2>1, <2>2, <2>3, <2>4, <2>5, <2>6, <2>7, <2>8, <2>9, <2>10, <2>11, <2>12 DEF Next
<1>2. TypeOK /\ RowsOfAccounts /\ [Next]_vars =>
        [\A u \in Users : Unapproved(u)' => Unapproved(u) \/ Slip(u)]_vars
  BY <1>1
<1> QED BY <1>2, TypeCorrect, RowsHaveAccounts, PTL DEF Spec, ApproverRemains

-----------------------------------------------------------------------------
(* Sessions.                                                               *)

\* A login that read the present account, active, has an active account.
LoginsCurrent ==
  \A l \in Logins :
    \/ login[l].at \notin {"right", "accepted"}
    \/ login[l].epoch < epoch
    \/ login[l].epoch = epoch /\ (active \/ (login[l].at = "right" /\ ~login[l].active))

\* While its session exists, the account of a change is active.
ChangesCurrent ==
  \A c \in Changes : change[c] = NoRequest \/ active \/ \A s \in sessions : s.token # change[c].token

\* What a change of password leaves alone was created after its DELETE; the
\* row of the account admits one change at a time.
DoomedComplete ==
  \A c \in Changes : change[c].at = "deleted" =>
    /\ epoch < MaxEpoch
    /\ \A d \in Changes : change[d].at = "deleted" => d = c
    /\ \A s \in sessions : s.token \in change[c].doomed \cup {change[c].token} \/ s.late

SessionInv == SessionTypeOK /\ SessionsCurrent /\ LoginsCurrent /\ ChangesCurrent /\ DoomedComplete /\ LinksRetired

-----------------------------------------------------------------------------
LEMMA SessionsStart == SessionInit => SessionInv
  BY LimitAssumption DEF SessionInit, SessionInv, SessionTypeOK, SessionsCurrent, LoginsCurrent, ChangesCurrent,
     DoomedComplete, LinksRetired, LoginStates, ChangeStates, NoRequest

LEMMA SessionsStep == SessionInv /\ [SessionNext]_sessionVars => SessionInv'
  <1> SUFFICES ASSUME SessionInv, [SessionNext]_sessionVars PROVE SessionInv'
      OBVIOUS
  <1> USE LimitAssumption
  <1> USE DEF SessionInv, SessionTypeOK, LoginStates, ChangeStates, NoRequest
  <1>1. CASE \E l \in Logins : CountFailures(l) \/ RecordFailure(l)
    <2> SUFFICES ASSUME NEW l \in Logins, CountFailures(l) \/ RecordFailure(l) PROVE SessionInv'
        BY <1>1
    <2>1. SessionTypeOK'
        BY DEF CountFailures, RecordFailure, account, mail
    <2>2. LoginsCurrent'
        BY DEF CountFailures, RecordFailure, account, mail, LoginsCurrent
    <2> QED BY <2>1, <2>2 DEF CountFailures, RecordFailure, account, mail, SessionsCurrent,
              ChangesCurrent, DoomedComplete, LinksRetired
  <1>2. ASSUME NEW l \in Logins, Verify(l) PROVE SessionInv'
    <2>1. SessionTypeOK'
        BY <1>2 DEF Verify, account, mail
    <2>2. LoginsCurrent'
      <3>1. UNCHANGED <<epoch, active>>
          BY <1>2 DEF Verify, account
      <3>2. /\ \A k \in Logins \ {l} : login'[k] = login[k]
            /\ \/ login'[l] = [at |-> "wrong"]
               \/ login'[l] = [at |-> "right", epoch |-> epoch, active |-> active]
          BY <1>2 DEF Verify
      <3>3. \/ login'[l].at \notin {"right", "accepted"}
            \/ login'[l].epoch = epoch /\ (active \/ (login'[l].at = "right" /\ ~login'[l].active))
          BY <3>2
      <3> QED BY <3>1, <3>2, <3>3 DEF LoginsCurrent
    <2> QED BY <1>2, <2>1, <2>2 DEF Verify, account, mail, SessionsCurrent, ChangesCurrent,
              DoomedComplete, LinksRetired
  <1>3. ASSUME NEW l \in Logins, RecordSuccess(l) PROVE SessionInv'
    <2>1. SessionTypeOK'
        BY <1>3 DEF RecordSuccess, account, mail
    <2>2. LoginsCurrent'
        BY <1>3 DEF RecordSuccess, account, mail, LoginsCurrent
    <2> QED BY <1>3, <2>1, <2>2 DEF RecordSuccess, account, mail, SessionsCurrent, ChangesCurrent,
              DoomedComplete, LinksRetired
  <1>4. ASSUME NEW l \in Logins, NEW t \in Tokens, CreateSession(l, t) PROVE SessionInv'
    <2> DEFINE new == Session(t, login[l].epoch, Changing \/ login[l].epoch # epoch)
    <2>1. sessions' = sessions \cup {new} /\ login[l].at = "accepted" /\ Fresh(t)
        BY <1>4 DEF CreateSession
    <2>2. new \in [token : Tokens, epoch : 0..MaxEpoch, late : BOOLEAN] /\ new.token = t
        BY <2>1 DEF Session, Changing
    <2>3. SessionTypeOK'
        BY <1>4, <2>1, <2>2 DEF CreateSession, account, mail
    <2>4. LoginsCurrent'
        BY <1>4 DEF CreateSession, account, mail, LoginsCurrent
    <2>5. new.late \/ (new.epoch = epoch /\ active)
      <3>1. CASE Changing \/ login[l].epoch # epoch
          BY <3>1 DEF Session
      <3>2. CASE login[l].epoch = epoch
        <4>1. active
            BY <2>1, <3>2 DEF LoginsCurrent
        <4> QED BY <3>2, <4>1 DEF Session
      <3> QED BY <3>1, <3>2
    <2>6. SessionsCurrent'
        BY <1>4, <2>1, <2>5 DEF CreateSession, account, SessionsCurrent
    <2>7. ChangesCurrent'
        BY <1>4, <2>1, <2>2 DEF CreateSession, account, ChangesCurrent, Fresh
    <2>8. Changing => new.late
        BY DEF Session
    <2>9. DoomedComplete'
        BY <1>4, <2>1, <2>8 DEF CreateSession, account, DoomedComplete, Changing
    <2> QED BY <1>4, <2>3, <2>4, <2>6, <2>7, <2>9 DEF CreateSession, mail, LinksRetired
  <1>5. CASE FailureExpires
    BY <1>5 DEF FailureExpires, account, mail, SessionsCurrent, LoginsCurrent, ChangesCurrent,
       DoomedComplete, LinksRetired
  <1>6. ASSUME NEW c \in Changes, NEW s \in sessions, ReadSession(c, s) PROVE SessionInv'
    <2>1. SessionTypeOK'
        BY <1>6 DEF ReadSession, account, mail
    <2> QED BY <1>6, <2>1 DEF ReadSession, account, mail, SessionsCurrent, LoginsCurrent,
              ChangesCurrent, DoomedComplete, LinksRetired
  <1>7. ASSUME NEW c \in Changes, DeleteOthers(c) PROVE SessionInv'
    <2>1. SessionTypeOK'
        BY <1>7 DEF DeleteOthers, account, mail
    <2>2. ChangesCurrent'
        BY <1>7 DEF DeleteOthers, account, ChangesCurrent
    <2>3. DoomedComplete'
        BY <1>7 DEF DeleteOthers, account, DoomedComplete, Changing
    <2> QED BY <1>7, <2>1, <2>2, <2>3 DEF DeleteOthers, account, mail, SessionsCurrent,
              LoginsCurrent, LinksRetired
  <1>8. ASSUME NEW c \in Changes, CommitPassword(c) PROVE SessionInv'
    <2>1. /\ change[c].at = "deleted" /\ change[c].token \in Tokens
          /\ epoch < MaxEpoch /\ epoch' = epoch + 1 /\ epoch' \in 0..MaxEpoch
          /\ active' = active
        BY <1>8 DEF CommitPassword, DoomedComplete
    <2> DEFINE kept(x) == IF x.token = change[c].token THEN Session(x.token, epoch', FALSE) ELSE x
    <2>a. sessions' = {kept(x) : x \in {y \in sessions : y.token \notin change[c].doomed}}
        BY <1>8, <2>1 DEF CommitPassword, Kept, Session
    <2>b. ASSUME NEW x \in sessions, x.token \notin change[c].doomed
          PROVE  \/ kept(x) = Session(x.token, epoch', FALSE) /\ active /\ x.token \in Tokens
                 \/ kept(x) = x /\ x.late
      <3>1. x.token \in Tokens
          OBVIOUS
      <3>2. CASE x.token = change[c].token
        <4>1. active
            BY <2>1, <3>2 DEF ChangesCurrent
        <4> QED BY <3>1, <3>2, <4>1
      <3>3. CASE x.token # change[c].token
        <4>1. x.late
            BY <2>1, <2>b, <3>3 DEF DoomedComplete
        <4> QED BY <3>3, <4>1
      <3> QED BY <3>2, <3>3
    <2>c. \A x : kept(x) = x \/ kept(x) = Session(x.token, epoch', FALSE)
        OBVIOUS
    <2> HIDE DEF kept
    <2>2. \A s \in sessions' :
            \/ \E t \in Tokens : s = Session(t, epoch', FALSE) /\ active
            \/ s \in sessions /\ s.late
        BY <2>a, <2>b
    <2>3. \A s \in sessions' : \E x \in sessions : x.token = s.token
        BY <2>a, <2>c DEF Session
    <2>d. sessions' \subseteq [token : Tokens, epoch : 0..MaxEpoch, late : BOOLEAN]
      <3> SUFFICES ASSUME NEW s \in sessions'
                   PROVE s \in [token : Tokens, epoch : 0..MaxEpoch, late : BOOLEAN]
          OBVIOUS
      <3>1. CASE s \in sessions
          BY <3>1
      <3>2. CASE \E t \in Tokens : s = Session(t, epoch', FALSE)
          BY <2>1, <3>2 DEF Session
      <3> QED BY <2>2, <3>1, <3>2
    <2>4. SessionTypeOK'
        BY <1>8, <2>1, <2>d DEF CommitPassword, mail
    <2>5. SessionsCurrent'
        BY <2>1, <2>2 DEF Session, SessionsCurrent
    <2>6. LoginsCurrent'
        BY <1>8, <2>1 DEF CommitPassword, LoginsCurrent
    <2>7. ChangesCurrent'
        BY <1>8, <2>1, <2>3 DEF CommitPassword, ChangesCurrent
    <2>8. \A d \in Changes : change'[d].at # "deleted"
        BY <1>8, <2>1 DEF CommitPassword, DoomedComplete
    <2> QED BY <1>8, <2>4, <2>5, <2>6, <2>7, <2>8 DEF CommitPassword, mail, DoomedComplete,
              LinksRetired
  <1>9. CASE ResetByAdmin \/ ChangeRole \/ ArchiveAccount \/ \E x \in links : ResetByLink(x)
    <2>1. /\ ~Changing /\ epoch < MaxEpoch /\ epoch' = epoch + 1 /\ sessions' = {}
          /\ login' = login /\ change' = change
        BY <1>9 DEF ResetByAdmin, ChangeRole, ArchiveAccount, ResetByLink, NewEpoch
    <2>2. ASSUME ResetByAdmin \/ ChangeRole \/ ArchiveAccount PROVE SessionTypeOK' /\ LinksRetired'
      <3>1. links' = links /\ resets' = resets /\ asked' = asked /\ forgot' = forgot
          BY <2>2 DEF ResetByAdmin, ChangeRole, ArchiveAccount, mail
      <3>2. active' \in BOOLEAN /\ failures' = failures
          BY <2>2 DEF ResetByAdmin, ChangeRole, ArchiveAccount
      <3> QED BY <2>1, <3>1, <3>2 DEF LinksRetired
    <2>3. ASSUME NEW x \in links, ResetByLink(x) PROVE SessionTypeOK' /\ LinksRetired'
      <3>1. links' = {} /\ resets' = resets + 1 /\ asked' = asked /\ forgot' = forgot
          BY <2>3 DEF ResetByLink
      <3>2. active' = active /\ failures' = failures
          BY <2>3 DEF ResetByLink
      <3> QED BY <2>1, <3>1, <3>2 DEF LinksRetired
    <2>4. SessionTypeOK' /\ LinksRetired'
        BY <1>9, <2>2, <2>3
    <2>5. LoginsCurrent'
        BY <2>1 DEF LoginsCurrent
    <2> QED BY <2>1, <2>4, <2>5 DEF SessionsCurrent, ChangesCurrent, DoomedComplete, Changing
  <1>10. CASE RestoreAccount
    BY <1>10 DEF RestoreAccount, mail, SessionsCurrent, LoginsCurrent, ChangesCurrent, DoomedComplete,
       LinksRetired
  <1>11. CASE \E s \in sessions : Logout(s) \/ SessionExpires(s)
    BY <1>11 DEF Logout, SessionExpires, account, mail, SessionsCurrent, LoginsCurrent,
       ChangesCurrent, DoomedComplete, LinksRetired
  <1>12. CASE \/ ForgotExpires
              \/ \E f \in Forgots : CountForgots(f) \/ RecordForgot(f) \/ FindAccount(f)
                                    \/ \E l \in Links : InsertLink(f, l)
              \/ \E x \in links : WasteLink(x) \/ LinkExpires(x)
    <2>1. UNCHANGED <<epoch, active, sessions, failures, resets, login, change>>
        BY <1>12 DEF ForgotExpires, CountForgots, RecordForgot, FindAccount, InsertLink,
           ForgotStep, WasteLink, LinkExpires, account
    <2>2. forgot' \in [Forgots -> {"idle", "counted", "recorded", "found"}] /\ asked' \in Nat
        BY <1>12 DEF ForgotExpires, CountForgots, RecordForgot, FindAccount, InsertLink,
           ForgotStep, WasteLink, LinkExpires
    <2>3. links' \subseteq [link : Links, resets : Nat] /\ LinksRetired'
        BY <1>12 DEF ForgotExpires, CountForgots, RecordForgot, FindAccount, InsertLink,
           ForgotStep, WasteLink, LinkExpires, LinksRetired
    <2> QED BY <2>1, <2>2, <2>3 DEF SessionsCurrent, LoginsCurrent, ChangesCurrent, DoomedComplete
  <1>13. CASE UNCHANGED sessionVars
    BY <1>13 DEF sessionVars, SessionsCurrent, LoginsCurrent, ChangesCurrent, DoomedComplete, LinksRetired
  <1> QED
    BY <1>1, <1>2, <1>3, <1>4, <1>5, <1>6, <1>7, <1>8, <1>9, <1>10, <1>11, <1>12, <1>13 DEF SessionNext

-----------------------------------------------------------------------------
LEMMA SessionInvHolds == SessionSpec => []SessionInv
  BY SessionsStart, SessionsStep, PTL DEF SessionSpec

\* Tables, and what the requests in progress hold, always have their types.
THEOREM SessionsTyped == SessionSpec => []SessionTypeOK
  <1>1. SessionInv => SessionTypeOK
      BY DEF SessionInv
  <1> QED BY <1>1, SessionInvHolds, PTL

\* Changing the password, resetting it, changing the role and archiving end
\* every session opened before (services/auth.rs change_password,
\* handlers/users.rs reset_password and update, services/users.rs archive),
\* up to logins that had already read the account.
THEOREM RevokedSessionsEnd == SessionSpec => []SessionsCurrent
  <1>1. SessionInv => SessionsCurrent
      BY DEF SessionInv
  <1> QED BY <1>1, SessionInvHolds, PTL

\* The use of one reset link voids the others (repository/sessions.rs
\* consume_reset_token_and_update_password_checked).
THEOREM UsedLinkRetiresOthers == SessionSpec => []LinksRetired
  <1>1. SessionInv => LinksRetired
      BY DEF SessionInv
  <1> QED BY <1>1, SessionInvHolds, PTL

-----------------------------------------------------------------------------
(* The limits.  A request that has been counted and has not been recorded  *)
(* yet is an attempt the counters do not show; with these, the counters    *)
(* stay within the limits.                                                 *)

Unrecorded == {l \in Logins : login[l].at \in {"counted", "wrong"}}
Asking == {f \in Forgots : forgot[f] = "counted"}

AttemptsInv ==
  /\ failures + Cardinality(Unrecorded) <= MaxFailures - 1 + Cardinality(Logins)
  /\ asked + Cardinality(Asking) <= MaxForgots - 1 + Cardinality(Forgots)

LEMMA RequestsFinite ==
  /\ IsFiniteSet(Unrecorded) /\ IsFiniteSet(Asking)
  /\ Cardinality(Unrecorded) \in Nat /\ Cardinality(Asking) \in Nat
  /\ Cardinality(Logins) \in Nat /\ Cardinality(Forgots) \in Nat
  /\ Cardinality(Unrecorded) <= Cardinality(Logins)
  /\ Cardinality(Asking) <= Cardinality(Forgots)
<1>1. Unrecorded \in SUBSET Logins /\ Asking \in SUBSET Forgots
  BY DEF Unrecorded, Asking
<1>2. QED
  BY <1>1, RequestsAssumption, FS_Subset, FS_CardinalityType

\* The failures of this account, against the logins under way.
LEMMA FailuresStep ==
  ASSUME SessionTypeOK, AttemptsInv, [SessionNext]_sessionVars
  PROVE  failures' + Cardinality(Unrecorded') <= MaxFailures - 1 + Cardinality(Logins)
<1> DEFINE Bound == MaxFailures - 1 + Cardinality(Logins)
<1>1. /\ failures \in Nat /\ Cardinality(Unrecorded) \in Nat /\ Cardinality(Logins) \in Nat
      /\ MaxFailures \in Nat \ {0} /\ failures + Cardinality(Unrecorded) <= Bound
  BY RequestsFinite, LimitAssumption DEF SessionTypeOK, AttemptsInv
<1>2. /\ IsFiniteSet(Unrecorded') /\ Cardinality(Unrecorded') \in Nat
      /\ Cardinality(Unrecorded') <= Cardinality(Logins)
  <2>1. Unrecorded' \in SUBSET Logins
    BY DEF Unrecorded
  <2>2. QED
    BY <2>1, RequestsAssumption, FS_Subset, FS_CardinalityType
<1>3. CASE \E l \in Logins : CountFailures(l)
  <2>1. failures' = failures /\ failures < MaxFailures
    BY <1>3 DEF CountFailures
  <2>2. QED
    BY <1>1, <1>2, <2>1
<1>4. CASE \E l \in Logins : RecordFailure(l)
  <2>1. PICK l \in Logins : /\ login[l].at = "wrong" /\ failures' = failures + 1
                            /\ login' = [login EXCEPT ![l] = NoRequest]
    BY <1>4 DEF RecordFailure
  <2>2. Unrecorded' = Unrecorded \ {l} /\ l \in Unrecorded
    BY <2>1 DEF Unrecorded, SessionTypeOK, NoRequest
  <2>3. Cardinality(Unrecorded') = Cardinality(Unrecorded) - 1
    BY <2>2, RequestsFinite, FS_RemoveElement
  <2>4. QED
    BY <1>1, <2>1, <2>3
<1>5. CASE \E l \in Logins : RecordSuccess(l)
  <2>1. failures' = 0
    BY <1>5 DEF RecordSuccess
  <2>2. QED
    BY <1>1, <1>2, <2>1
<1>6. ASSUME failures' = failures \/ (failures > 0 /\ failures' = failures - 1),
             Unrecorded' \subseteq Unrecorded
      PROVE  failures' + Cardinality(Unrecorded') <= Bound
  <2>1. Cardinality(Unrecorded') <= Cardinality(Unrecorded)
    BY <1>6, RequestsFinite, FS_Subset
  <2>2. QED
    BY <1>1, <1>2, <1>6, <2>1
<1>7. CASE \E l \in Logins : Verify(l) \/ \E t \in Tokens : CreateSession(l, t)
  <2>1. failures' = failures
    BY <1>7 DEF Verify, CreateSession
  <2>2. Unrecorded' \subseteq Unrecorded
    BY <1>7 DEF Verify, CreateSession, Unrecorded, SessionTypeOK, NoRequest
  <2>3. QED
    BY <1>6, <2>1, <2>2
<1>8. CASE FailureExpires
  BY <1>6, <1>8 DEF FailureExpires, Unrecorded
<1>9. CASE \/ ForgotExpires \/ ResetByAdmin \/ ChangeRole \/ ArchiveAccount \/ RestoreAccount
           \/ \E c \in Changes : \/ DeleteOthers(c) \/ CommitPassword(c)
                                 \/ \E s \in sessions : ReadSession(c, s)
           \/ \E s \in sessions : Logout(s) \/ SessionExpires(s)
           \/ \E f \in Forgots : \/ CountForgots(f) \/ RecordForgot(f) \/ FindAccount(f)
                                 \/ \E l \in Links : InsertLink(f, l)
           \/ \E x \in links : ResetByLink(x) \/ WasteLink(x) \/ LinkExpires(x)
           \/ UNCHANGED sessionVars
  <2>1. UNCHANGED <<failures, login>>
    BY <1>9 DEF ForgotExpires, ResetByAdmin, ChangeRole, ArchiveAccount, RestoreAccount, DeleteOthers,
                CommitPassword, ReadSession, Logout, SessionExpires, CountForgots, RecordForgot,
                FindAccount, InsertLink, ForgotStep, ResetByLink, WasteLink, LinkExpires, sessionVars
  <2>2. QED
    BY <1>6, <2>1 DEF Unrecorded
<1>10. QED
  BY <1>3, <1>4, <1>5, <1>7, <1>8, <1>9 DEF SessionNext

\* The "forgot password" requests of this account.
LEMMA AskedStep ==
  ASSUME SessionTypeOK, AttemptsInv, [SessionNext]_sessionVars
  PROVE  asked' + Cardinality(Asking') <= MaxForgots - 1 + Cardinality(Forgots)
<1> DEFINE Bound == MaxForgots - 1 + Cardinality(Forgots)
<1>1. /\ asked \in Nat /\ Cardinality(Asking) \in Nat /\ Cardinality(Forgots) \in Nat
      /\ MaxForgots \in Nat \ {0} /\ asked + Cardinality(Asking) <= Bound
  BY RequestsFinite, LimitAssumption DEF SessionTypeOK, AttemptsInv
<1>2. /\ IsFiniteSet(Asking') /\ Cardinality(Asking') \in Nat
      /\ Cardinality(Asking') <= Cardinality(Forgots)
  <2>1. Asking' \in SUBSET Forgots
    BY DEF Asking
  <2>2. QED
    BY <2>1, RequestsAssumption, FS_Subset, FS_CardinalityType
<1>3. CASE \E f \in Forgots : CountForgots(f)
  <2>1. asked' = asked /\ asked < MaxForgots
    BY <1>3 DEF CountForgots
  <2>2. QED
    BY <1>1, <1>2, <2>1
<1>4. CASE \E f \in Forgots : RecordForgot(f)
  <2>1. PICK f \in Forgots : /\ forgot[f] = "counted" /\ asked' = asked + 1
                             /\ forgot' = [forgot EXCEPT ![f] = "recorded"]
    BY <1>4 DEF RecordForgot, ForgotStep
  <2>2. Asking' = Asking \ {f} /\ f \in Asking
    BY <2>1 DEF Asking, SessionTypeOK
  <2>3. Cardinality(Asking') = Cardinality(Asking) - 1
    BY <2>2, RequestsFinite, FS_RemoveElement
  <2>4. QED
    BY <1>1, <2>1, <2>3
<1>5. ASSUME asked' = asked \/ (asked > 0 /\ asked' = asked - 1), Asking' \subseteq Asking
      PROVE  asked' + Cardinality(Asking') <= Bound
  <2>1. Cardinality(Asking') <= Cardinality(Asking)
    BY <1>5, RequestsFinite, FS_Subset
  <2>2. QED
    BY <1>1, <1>2, <1>5, <2>1
<1>6. CASE \E f \in Forgots : FindAccount(f) \/ \E l \in Links : InsertLink(f, l)
  <2>1. asked' = asked
    BY <1>6 DEF FindAccount, InsertLink
  <2>2. Asking' \subseteq Asking
    BY <1>6 DEF FindAccount, InsertLink, ForgotStep, Asking, SessionTypeOK
  <2>3. QED
    BY <1>5, <2>1, <2>2
<1>7. CASE ForgotExpires
  BY <1>5, <1>7 DEF ForgotExpires, Asking
<1>8. CASE \/ FailureExpires \/ ResetByAdmin \/ ChangeRole \/ ArchiveAccount \/ RestoreAccount
           \/ \E l \in Logins : \/ CountFailures(l) \/ Verify(l) \/ RecordFailure(l)
                                \/ RecordSuccess(l) \/ \E t \in Tokens : CreateSession(l, t)
           \/ \E c \in Changes : \/ DeleteOthers(c) \/ CommitPassword(c)
                                 \/ \E s \in sessions : ReadSession(c, s)
           \/ \E s \in sessions : Logout(s) \/ SessionExpires(s)
           \/ \E x \in links : ResetByLink(x) \/ WasteLink(x) \/ LinkExpires(x)
           \/ UNCHANGED sessionVars
  <2>1. UNCHANGED <<asked, forgot>>
    BY <1>8 DEF FailureExpires, ResetByAdmin, ChangeRole, ArchiveAccount, RestoreAccount, CountFailures,
                Verify, RecordFailure, RecordSuccess, CreateSession, DeleteOthers,
                CommitPassword, ReadSession, Logout, SessionExpires, ResetByLink, WasteLink,
                LinkExpires, sessionVars, mail
  <2>2. QED
    BY <1>5, <2>1 DEF Asking
<1>9. QED
  BY <1>3, <1>4, <1>6, <1>7, <1>8 DEF SessionNext

\* Attempts checked side by side get past MAX_FAILED_LOGINS and the limit of reset
\* requests by at most the number of requests in progress (services/auth.rs).
THEOREM LimitsHold == SessionSpec => []AttemptsBounded
<1>1. SessionInit => AttemptsInv
  <2>1. SUFFICES ASSUME SessionInit
                 PROVE  AttemptsInv
    OBVIOUS
  <2>2. Unrecorded = {} /\ Asking = {} /\ failures = 0 /\ asked = 0
    BY <2>1 DEF SessionInit, Unrecorded, Asking, NoRequest
  <2>3. QED
    BY <2>2, FS_EmptySet, RequestsFinite, LimitAssumption DEF AttemptsInv
<1>2. SessionTypeOK /\ AttemptsInv /\ [SessionNext]_sessionVars => AttemptsInv'
  BY FailuresStep, AskedStep DEF AttemptsInv
<1>3. SessionTypeOK /\ AttemptsInv => AttemptsBounded
  BY RequestsFinite, LimitAssumption DEF SessionTypeOK, AttemptsInv, AttemptsBounded
<1>4. QED
  BY <1>1, <1>2, <1>3, SessionsTyped, PTL DEF SessionSpec
=============================================================================
