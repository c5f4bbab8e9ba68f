------------------------------ MODULE Accounts ------------------------------
(***************************************************************************)
(* Accounts, roles and the approval graph (table user_approvers): the      *)
(* first-run setup, an admin's creating, changing, archiving, restoring    *)
(* and deleting of accounts, and the assistants a team lead may create,    *)
(* archive and restore.                                                    *)
(*                                                                         *)
(* Every mutation runs in one transaction under the user-graph advisory    *)
(* lock and is one action.  What a request learned before the lock is      *)
(* kept in req: the requester's row as the session middleware read it, and *)
(* for a lead's archiving and restoring the whole check of the assistant.  *)
(***************************************************************************)
EXTENDS Naturals, FiniteSets

CONSTANTS Users, Requests,
          WithData,    \* accounts with time data, which cannot be deleted
          LeadsManage  \* setting allow_team_lead_manage_assistants

ASSUME UsersFinite == IsFiniteSet(Users)
ASSUME DataAssumption == WithData \subseteq Users
ASSUME SettingAssumption == LeadsManage \in BOOLEAN

VARIABLES status,     \* no account, an active one or an archived one
          role,       \* the account's role, "employee" where there is no account
          approvers,  \* user_approvers rows, an archived approver's included
          req         \* what a request has read so far

vars == <<status, role, approvers, req>>

Roles == {"admin", "team_lead", "employee", "assistant"}

Idle == [step |-> "idle"]
Authed(u, ro) == [step |-> "authed", by |-> u, as |-> ro]
Checked(u, op, target) == [step |-> "checked", by |-> u, op |-> op, of |-> target]

ReqState ==
  {Idle} \cup {Authed(u, ro) : u \in Users, ro \in Roles}
         \cup {Checked(u, op, x) : u \in Users, op \in {"archive", "restore"}, x \in Users}

TypeOK ==
  /\ status \in [Users -> {"absent", "active", "archived"}]
  /\ role \in [Users -> Roles]
  /\ approvers \in [Users -> SUBSET Users]
  /\ req \in [Requests -> ReqState]

Init ==
  /\ status = [u \in Users |-> "absent"]
  /\ role = [u \in Users |-> "employee"]
  /\ approvers = [u \in Users |-> {}]
  /\ req = [r \in Requests |-> Idle]

-----------------------------------------------------------------------------
\* The rules shared by the handlers.

Exists(u) == status[u] # "absent"
Active(u) == status[u] = "active"
ActiveAdmins == {u \in Users : Active(u) /\ role[u] = "admin"}

\* Whose approvals count: admins report to admins, everybody else to leads.
CanApprove(a, subjectRole) ==
  /\ Active(a)
  /\ role[a] = "admin" \/ (role[a] = "team_lead" /\ subjectRole # "admin")

\* The approvers that remain when the stale rows are filtered out.
Effective(u) == {a \in approvers[u] : CanApprove(a, role[u])}

Dependents(u) == {d \in Users : Active(d) /\ u \in approvers[d]}

\* Mutant: only the first step of the chain is looked at.
ReachesDirectly(start, links, u) == u \in start

\* u is found by following the given links upwards, starting from the users in start.
Reaches(start, links, u) ==
  \A S \in SUBSET Users :
    (start \subseteq S /\ \A x \in S : links[x] \subseteq S) => u \in S

ValidApprovers(ro, as) ==
  /\ ro # "admin" => as # {}
  /\ \A a \in as : CanApprove(a, ro)

\* The search follows rows of archived accounts too; u itself is one of the
\* accounts it must not find.
ValidApproversOf(u, ro, as) ==
  /\ ValidApprovers(ro, as)
  /\ ~Reaches(as, approvers, u)

\* Mutant: off by one.
LastAdminOffByOne(u) == Active(u) /\ role[u] = "admin" /\ Cardinality(ActiveAdmins) < 1

LastAdmin(u) == Active(u) /\ role[u] = "admin" /\ Cardinality(ActiveAdmins) <= 1

\* What a lead needs to archive or restore an assistant: an archived
\* assistant still reports to the lead.
MayManage(l, u) ==
  /\ LeadsManage
  /\ Exists(u) /\ role[u] = "assistant"
  /\ l \in Effective(u)

-----------------------------------------------------------------------------
\* Requests.

\* The session middleware reads the requester's row once for the whole request.
Authenticate(r, u) ==
  /\ req[r] = Idle
  /\ Active(u)
  /\ req' = [req EXCEPT ![r] = Authed(u, role[u])]
  /\ UNCHANGED <<status, role, approvers>>

\* A request that is refused or fails leaves nothing behind.
Fail(r) ==
  /\ req[r] # Idle
  /\ req' = [req EXCEPT ![r] = Idle]
  /\ UNCHANGED <<status, role, approvers>>

ByAdmin(r) == req[r].step = "authed" /\ req[r].as = "admin"
ByLead(r) == req[r].step = "authed" /\ req[r].as = "team_lead"

Done(r) == req' = [req EXCEPT ![r] = Idle]

\* First-run setup: only while the users table is empty.
Setup(u) ==
  /\ \A x \in Users : ~Exists(x)
  /\ status' = [status EXCEPT ![u] = "active"]
  /\ role' = [role EXCEPT ![u] = "admin"]
  /\ UNCHANGED <<approvers, req>>

\* A lead creates assistants only, who report to the lead.
Create(r, u, ro, as) ==
  /\ \/ ByAdmin(r)
     \/ ByLead(r) /\ LeadsManage /\ ro = "assistant" /\ as = {req[r].by}
  /\ ~Exists(u)
  /\ ValidApprovers(ro, as)
  /\ status' = [status EXCEPT ![u] = "active"]
  /\ role' = [role EXCEPT ![u] = ro]
  /\ approvers' = [approvers EXCEPT ![u] = as]
  /\ Done(r)

\* Mutant: a new assistant may keep those who report to it.
KeepsDependentsOfAssistants(u, ro) ==
  /\ ~(ro = "admin" /\ Active(u)) => \A d \in Dependents(u) : role[d] # "admin"
  /\ ro = "employee" \/ ~Active(u) => Dependents(u) = {}

\* The new role must still be able to approve for those who report to the account.
KeepsDependents(u, ro) ==
  /\ ~(ro = "admin" /\ Active(u)) => \A d \in Dependents(u) : role[d] # "admin"
  /\ ~(ro \in {"admin", "team_lead"} /\ Active(u)) => Dependents(u) = {}

Update(r, u, ro, as) ==
  /\ ByAdmin(r)
  /\ u = req[r].by => ro = "admin"
  /\ Exists(u)
  /\ ValidApproversOf(u, ro, as)
  /\ KeepsDependents(u, ro)
  /\ ~(ro # "admin" /\ LastAdmin(u))
  /\ role' = [role EXCEPT ![u] = ro]
  /\ approvers' = [approvers EXCEPT ![u] = as]
  /\ UNCHANGED status
  /\ Done(r)

Delete(r, u) ==
  /\ ByAdmin(r)
  /\ u # req[r].by
  /\ Exists(u)
  /\ ~LastAdmin(u)
  /\ Dependents(u) = {}
  /\ u \notin WithData
  /\ status' = [status EXCEPT ![u] = "absent"]
  /\ approvers' = [x \in Users |-> IF x = u THEN {} ELSE approvers[x] \ {u}]
  /\ role' = [role EXCEPT ![u] = "employee"]
  /\ Done(r)

\* by[d] takes the place of u as an approver of d, for everyone u is an approver of.
Reassigned(u, by) ==
  [d \in Users |-> IF d \in Dependents(u) THEN (approvers[d] \ {u}) \cup {by[d]}
                                          ELSE approvers[d]]

\* The loop checks each replacement against the rows as the ones before it
\* left them.  While no cycle exists a path back through u would be one, so
\* this is the same as checking all of them against the final rows.
ValidReplacement(u, by) ==
  \A d \in Dependents(u) :
    /\ by[d] \notin {d, u}
    /\ CanApprove(by[d], role[d])
    /\ ~Reaches({by[d]}, Reassigned(u, by), d)

Archive(r, u, by) ==
  /\ ByAdmin(r)
  /\ u # req[r].by
  /\ Active(u)
  /\ ~LastAdmin(u)
  /\ ValidReplacement(u, by)
  /\ status' = [status EXCEPT ![u] = "archived"]
  /\ approvers' = Reassigned(u, by)
  /\ UNCHANGED role
  /\ Done(r)

Restore(r, u, as) ==
  /\ ByAdmin(r)
  /\ status[u] = "archived"
  /\ ValidApproversOf(u, role[u], as)
  /\ status' = [status EXCEPT ![u] = "active"]
  /\ approvers' = [approvers EXCEPT ![u] = as]
  /\ UNCHANGED role
  /\ Done(r)

\* The lead's checks, all made before the lock is taken.
CheckAssistant(r, op, u) ==
  /\ ByLead(r)
  /\ MayManage(req[r].by, u)
  /\ u # req[r].by
  /\ req' = [req EXCEPT ![r] = Checked(req[r].by, op, u)]
  /\ UNCHANGED <<status, role, approvers>>

\* Under the lock only the state of the account and its dependents are looked at again.
ArchiveAssistant(r) ==
  LET u == req[r].of
  IN /\ req[r].step = "checked" /\ req[r].op = "archive"
     /\ Active(u)
     /\ Dependents(u) = {}
     /\ status' = [status EXCEPT ![u] = "archived"]
     /\ UNCHANGED <<role, approvers>>
     /\ Done(r)

\* The old approver rows stay as they are.
RestoreAssistant(r) ==
  LET u == req[r].of
  IN /\ req[r].step = "checked" /\ req[r].op = "restore"
     /\ status[u] = "archived"
     /\ status' = [status EXCEPT ![u] = "active"]
     /\ UNCHANGED <<role, approvers>>
     /\ Done(r)

Next ==
  \/ \E u \in Users : Setup(u)
  \/ \E r \in Requests :
       \/ Fail(r) \/ ArchiveAssistant(r) \/ RestoreAssistant(r)
       \/ \E u \in Users :
            \/ Authenticate(r, u) \/ Delete(r, u)
            \/ \E op \in {"archive", "restore"} : CheckAssistant(r, op, u)
            \/ \E by \in [Dependents(u) -> Users] : Archive(r, u, by)
            \/ \E as \in SUBSET Users :
                 \/ Restore(r, u, as)
                 \/ \E ro \in Roles : Create(r, u, ro, as) \/ Update(r, u, ro, as)

Spec == Init /\ [][Next]_vars

-----------------------------------------------------------------------------
(***************************************************************************)
(* Properties.                                                             *)
(***************************************************************************)

\* A lead's request that commits now though its checks hold no more: the
\* account is no assistant of the lead any longer.
Overtaken(r, op, u) ==
  /\ req[r].step = "checked" /\ req[r].op = op /\ req[r].of = u
  /\ ~MayManage(req[r].by, u)
  /\ req'[r] = Idle

\* An installation never loses its last active admin: not by two admins who
\* demote, archive or delete each other, and not while the first-run setup
\* runs twice.  The one exception is a lead's archiving whose checks were
\* overtaken (services/users.rs archive_assistant does not look at the role
\* again under the lock).
AdminRemains ==
  [][(\E u \in Users : Exists(u)') /\ ActiveAdmins' = {}
       => \/ \E u \in Users : Exists(u) /\ ActiveAdmins = {}
          \/ \E r \in Requests, u \in Users : Overtaken(r, "archive", u) /\ role[u] = "admin"
    ]_vars

Unapproved(u) == Active(u) /\ role[u] # "admin" /\ Effective(u) = {}

\* Nobody who needs an approver is left without one that counts, whatever
\* happens to the approver: demoting, archiving and deleting an approver
\* find every active account that reports to it.  The one exception is a
\* lead's restoring whose checks were overtaken: the assistant comes back
\* with rows of approvers that no longer count.
ApproverRemains ==
  [][\A u \in Users : Unapproved(u)' =>
       Unapproved(u) \/ \E r \in Requests : Overtaken(r, "restore", u)]_vars

\* Nobody approves, over any number of steps, for somebody above them, also
\* when an archived account in between is restored.  Stated as: among any
\* accounts there is one that reports to none of them.
NoApprovalCycle ==
  \A S \in SUBSET Users : S # {} => \E u \in S : approvers[u] \cap S = {}
=============================================================================
