------------------------------ MODULE Sessions ------------------------------
(***************************************************************************)
(* Signing in and out of one account: the lockout after failed logins,     *)
(* sessions, changes and resets of the password, and reset links, against  *)
(* an admin who archives, restores or changes the account.                 *)
(*                                                                         *)
(* A login and a "forgot password" request run their statements outside    *)
(* any transaction, so each statement is an action.  The changes that end  *)
(* sessions are transactions that hold the row of the account; epoch       *)
(* counts them, which tells the sessions opened before a change from those *)
(* opened after it.  All but the change of a password take the row FOR     *)
(* UPDATE, which makes the insertion of a session or a link wait as well.  *)
(***************************************************************************)
EXTENDS Naturals, FiniteSets

CONSTANTS Logins,       \* logins of the account in progress side by side
          Forgots,      \* "forgot password" requests in progress side by side
          Changes,      \* password changes in progress side by side
          Tokens,       \* session tokens
          Links,        \* password-reset links
          MaxFailures,  \* MAX_FAILED_LOGINS
          MaxForgots,   \* "forgot password" requests allowed in a window
          MaxEpoch      \* bound: changes that end sessions

ASSUME LimitAssumption == MaxFailures \in Nat \ {0} /\ MaxForgots \in Nat \ {0} /\ MaxEpoch \in Nat

\* Requests run on the connections of one pool.
ASSUME RequestsAssumption == IsFiniteSet(Logins) /\ IsFiniteSet(Forgots)

VARIABLES epoch,     \* changes of password, role or state so far
          active,    \* is the account active, or archived?
          sessions,  \* [token, epoch of the row the login read, late: the epoch was over]
          failures,  \* failed attempts younger than LOCKOUT_MIN
          asked,     \* reset attempts of the last 15 minutes
          links,     \* valid reset links: [link, resets]
          resets,    \* password resets by link so far
          login, forgot, change  \* what each request has read so far

sessionVars == <<epoch, active, sessions, failures, asked, links, resets, login, forgot, change>>

account == <<epoch, active>>
mail == <<asked, links, resets, forgot>>

Session(t, e, late) == [token |-> t, epoch |-> e, late |-> late]
NoRequest == [at |-> "idle"]

LoginStates ==
  [at : {"idle", "counted", "wrong"}]
    \cup [at : {"right"}, epoch : 0..MaxEpoch, active : BOOLEAN]
    \cup [at : {"accepted"}, epoch : 0..MaxEpoch]

ChangeStates ==
  {NoRequest} \cup [at : {"read"}, token : Tokens]
         \cup [at : {"deleted"}, token : Tokens, doomed : SUBSET Tokens]

SessionTypeOK ==
  /\ epoch \in 0..MaxEpoch /\ resets \in Nat
  /\ active \in BOOLEAN
  /\ sessions \subseteq [token : Tokens, epoch : 0..MaxEpoch, late : BOOLEAN]
  /\ failures \in Nat /\ asked \in Nat
  /\ links \subseteq [link : Links, resets : Nat]
  /\ login \in [Logins -> LoginStates]
  /\ forgot \in [Forgots -> {"idle", "counted", "recorded", "found"}]
  /\ change \in [Changes -> ChangeStates]

SessionInit ==
  /\ epoch = 0 /\ active = TRUE /\ resets = 0
  /\ sessions = {} /\ links = {}
  /\ failures = 0 /\ asked = 0
  /\ login = [l \in Logins |-> NoRequest]
  /\ forgot = [f \in Forgots |-> "idle"]
  /\ change = [c \in Changes |-> NoRequest]

-----------------------------------------------------------------------------
\* Logging in.

\* mutant: the comparison lets one attempt too many through
CountFailuresOffByOne(l) ==
  /\ login[l].at = "idle"
  /\ failures <= MaxFailures
  /\ login' = [login EXCEPT ![l] = [at |-> "counted"]]
  /\ UNCHANGED <<account, sessions, failures, mail, change>>

\* mutant: attempts during a lockout count as well (here: one of them)
CountFailuresWhileLocked(l) ==
  /\ login[l].at = "idle"
  /\ failures <= MaxFailures
  /\ failures' = IF failures = MaxFailures THEN failures + 1 ELSE failures
  /\ login' = IF failures = MaxFailures THEN login ELSE [login EXCEPT ![l] = [at |-> "counted"]]
  /\ UNCHANGED <<account, sessions, mail, change>>

\* During a lockout the attempt is ignored, and not counted either.
CountFailures(l) ==
  /\ login[l].at = "idle"
  /\ failures < MaxFailures
  /\ login' = [login EXCEPT ![l] = [at |-> "counted"]]
  /\ UNCHANGED <<account, sessions, failures, mail, change>>

\* The row is read once: its hash decides here, its active flag below.
Verify(l) ==
  /\ login[l].at = "counted"
  /\ login' \in {[login EXCEPT ![l] = [at |-> "wrong"]],
                [login EXCEPT ![l] = [at |-> "right", epoch |-> epoch, active |-> active]]}
  /\ UNCHANGED <<account, sessions, failures, mail, change>>

RecordFailure(l) ==
  /\ login[l].at = "wrong"
  /\ failures' = failures + 1
  /\ login' = [login EXCEPT ![l] = NoRequest]
  /\ UNCHANGED <<account, sessions, mail, change>>

\* mutant: the active flag of the row is not looked at
RecordSuccessArchived(l) ==
  /\ login[l].at = "right"
  /\ failures' = 0
  /\ login' = [login EXCEPT ![l] = [at |-> "accepted", epoch |-> @.epoch]]
  /\ UNCHANGED <<account, sessions, mail, change>>

\* A right password clears the failures, also those of other attempts and
\* also when the account is archived.
RecordSuccess(l) ==
  /\ login[l].at = "right"
  /\ failures' = 0
  /\ login' = [login EXCEPT ![l] =
                 IF @.active THEN [at |-> "accepted", epoch |-> @.epoch] ELSE NoRequest]
  /\ UNCHANGED <<account, sessions, mail, change>>

\* Is the account's row held by a change of password not yet committed?
Changing == \E c \in Changes : change[c].at = "deleted"

\* A token is random and never used again.
Fresh(t) ==
  t \notin {s.token : s \in sessions}
         \cup {change[c].token : c \in {d \in Changes : change[d] # NoRequest}}

CreateSession(l, t) ==
  /\ login[l].at = "accepted"
  /\ Fresh(t)
  /\ sessions' = sessions \cup
                   {Session(t, login[l].epoch, Changing \/ login[l].epoch # epoch)}
  /\ login' = [login EXCEPT ![l] = NoRequest]
  /\ UNCHANGED <<account, failures, mail, change>>

\* A failed attempt leaves the window of LOCKOUT_MIN minutes.
FailureExpires ==
  /\ failures > 0
  /\ failures' = failures - 1
  /\ UNCHANGED <<account, sessions, mail, login, change>>

-----------------------------------------------------------------------------
\* Changes that end sessions.

NewEpoch == ~Changing /\ epoch < MaxEpoch /\ epoch' = epoch + 1

\* auth_middleware: the session is looked up once, at the start of a request.
ReadSession(c, s) ==
  /\ active
  /\ change[c] = NoRequest
  /\ change' = [change EXCEPT ![c] = [at |-> "read", token |-> s.token]]
  /\ UNCHANGED <<account, sessions, failures, mail, login>>

\* delete_except_tx: every session the statement sees but the one that asked
\* for the change, which by now may be gone as well.
DeleteOthers(c) ==
  /\ change[c].at = "read"
  /\ ~Changing /\ epoch < MaxEpoch
  /\ change' = [change EXCEPT ![c] =
                  [at |-> "deleted", token |-> @.token,
                   doomed |-> {s.token : s \in sessions} \ {@.token}]]
  /\ UNCHANGED <<account, sessions, failures, mail, login>>

\* The sessions left, the one that made the change belonging to what follows it.
Kept(token, doomed) ==
  {IF s.token = token THEN Session(token, epoch + 1, FALSE) ELSE s :
     s \in {x \in sessions : x.token \notin doomed}}

CommitPassword(c) ==
  /\ change[c].at = "deleted"
  /\ epoch' = epoch + 1
  /\ sessions' = Kept(change[c].token, change[c].doomed)
  /\ change' = [change EXCEPT ![c] = NoRequest]
  /\ UNCHANGED <<active, failures, mail, login>>

ResetByAdmin ==
  /\ active
  /\ NewEpoch
  /\ sessions' = {}
  /\ UNCHANGED <<active, failures, mail, login, change>>

ChangeRole ==
  /\ NewEpoch
  /\ sessions' = {}
  /\ UNCHANGED <<active, failures, mail, login, change>>

ArchiveAccount ==
  /\ active
  /\ NewEpoch
  /\ active' = FALSE
  /\ sessions' = {}
  /\ UNCHANGED <<failures, mail, login, change>>

RestoreAccount ==
  /\ ~active /\ ~Changing
  /\ active' = TRUE
  /\ UNCHANGED <<epoch, sessions, failures, mail, login, change>>

\* Logging out of one device logs out of all of them.
Logout(s) ==
  /\ s \in sessions
  /\ sessions' = {}
  /\ UNCHANGED <<account, failures, mail, login, change>>

\* Unused or too old: deleted by the next request that uses it or by the cleanup.
SessionExpires(s) ==
  /\ sessions' = sessions \ {s}
  /\ UNCHANGED <<account, failures, mail, login, change>>

-----------------------------------------------------------------------------
\* Reset links.

ForgotStep(f, from, to) ==
  /\ forgot[f] = from
  /\ forgot' = [forgot EXCEPT ![f] = to]
  /\ UNCHANGED <<account, sessions, failures, resets, login, change>>

CountForgots(f) ==
  /\ asked < MaxForgots
  /\ ForgotStep(f, "idle", "counted")
  /\ UNCHANGED <<asked, links>>

RecordForgot(f) ==
  /\ ForgotStep(f, "counted", "recorded")
  /\ asked' = asked + 1
  /\ UNCHANGED links

FindAccount(f) ==
  /\ ForgotStep(f, "recorded", IF active THEN "found" ELSE "idle")
  /\ UNCHANGED <<asked, links>>

InsertLink(f, l) ==
  /\ \A x \in links : x.link # l
  /\ ForgotStep(f, "found", "idle")
  /\ links' = links \cup {[link |-> l, resets |-> resets]}
  /\ UNCHANGED asked

ForgotExpires ==
  /\ asked > 0
  /\ asked' = asked - 1
  /\ UNCHANGED <<account, sessions, failures, links, resets, login, forgot, change>>

LinkExpires(x) ==
  /\ links' = links \ {x}
  /\ UNCHANGED <<account, sessions, failures, asked, resets, login, forgot, change>>

\* mutant: the other links of the account stay valid
ResetByLinkOnly(x) ==
  /\ active
  /\ NewEpoch
  /\ sessions' = {}
  /\ links' = links \ {x}
  /\ resets' = resets + 1
  /\ UNCHANGED <<active, failures, asked, login, forgot, change>>

\* Two links used at once wait for each other's rows; the database fails one
\* of the two transactions, which then did nothing.
ResetByLink(x) ==
  /\ active
  /\ NewEpoch
  /\ sessions' = {}
  /\ links' = {}
  /\ resets' = resets + 1
  /\ UNCHANGED <<active, failures, asked, login, forgot, change>>

\* The link of an archived account is used up without effect.
WasteLink(x) ==
  /\ ~active
  /\ links' = links \ {x}
  /\ UNCHANGED <<account, sessions, failures, asked, resets, login, forgot, change>>

SessionNext ==
  \/ FailureExpires \/ ForgotExpires
  \/ ResetByAdmin \/ ChangeRole \/ ArchiveAccount \/ RestoreAccount
  \/ \E l \in Logins :
       \/ CountFailures(l) \/ Verify(l) \/ RecordFailure(l) \/ RecordSuccess(l)
       \/ \E t \in Tokens : CreateSession(l, t)
  \/ \E c \in Changes : DeleteOthers(c) \/ CommitPassword(c) \/ \E s \in sessions : ReadSession(c, s)
  \/ \E s \in sessions : Logout(s) \/ SessionExpires(s)
  \/ \E f \in Forgots :
       CountForgots(f) \/ RecordForgot(f) \/ FindAccount(f) \/ \E l \in Links : InsertLink(f, l)
  \/ \E x \in links : ResetByLink(x) \/ WasteLink(x) \/ LinkExpires(x)

\* Time passes: what has to leave a window leaves it.
Fairness == WF_sessionVars(FailureExpires)

SessionSpec == SessionInit /\ [][SessionNext]_sessionVars /\ Fairness

-----------------------------------------------------------------------------
(***************************************************************************)
(* Properties.                                                             *)
(***************************************************************************)

\* Sessions survive neither a new password nor a new role nor archiving,
\* whatever requests are in progress.  The exceptions are the session that
\* asked for the new password, and a login that had already read the account
\* when the change came.
SessionsCurrent ==
  \A s \in sessions : (s.epoch = epoch /\ active) \/ s.late

\* Once a link has been used, the others issued before it are void
\* (repository/sessions.rs: "all the rest must die with it").
LinksRetired == \A x \in links : x.resets = resets

\* Attempts checked side by side get past the limits by their number at most.
AttemptsBounded ==
  /\ failures <= MaxFailures - 1 + Cardinality(Logins)
  /\ asked <= MaxForgots - 1 + Cardinality(Forgots)

\* A lockout ends, however often it is knocked at (handlers/auth.rs: "The
\* existing failures naturally expire after LOCKOUT_MIN minutes").
LockoutEnds == failures >= MaxFailures ~> failures < MaxFailures
=============================================================================
