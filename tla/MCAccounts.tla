----------------------------- MODULE MCAccounts -----------------------------
(* What admins keep up, one part at a time: the accounts of three people and  *)
(* their approvers (the constants of the .cfg), changed by two requests, and  *)
(* the public holidays of two countries, while two saves of the settings, the *)
(* weekly import, a restart and a new year cross each other.  In the latter   *)
(* the accounts are those of a new installation, and stay so.                 *)
EXTENDS Accounts

CONSTANTS u1, u2, u3

VARIABLES part, year, place, holidays, saves, job, own, used

imports == <<year, place, holidays, saves, job, own, used>>
all == <<part, vars, imports>>

Holiday(d, name, regions) == [day |-> d, name |-> name, regions |-> regions]

\* Both countries have a holiday on day 1, one has a region with another.
Source ==
  [c \in {"DE", "FR"} |-> [y \in 1..3 |->
     IF c = "FR" THEN {Holiday(1, "Jour de l'an", {})}
     ELSE {Holiday(1, "Neujahr", {}), Holiday(2, "Epiphany", {"BW"})}]]

H == INSTANCE Holidays WITH
  Places <- {<<"", "">>, <<"DE", "BW">>, <<"FR", "">>},
  Saves <- {1, 2}, Days <- {1, 2}, LastYear <- 2,
  MaxSaves <- 2, MaxManual <- 1, MaxRestarts <- 1

NoImports ==
  /\ year = 0 /\ place = 0 /\ holidays = 0 /\ saves = 0 /\ job = 0 /\ own = 0 /\ used = 0

MCInit ==
  \/ part = "accounts" /\ Init /\ NoImports
  \/ part = "holidays" /\ H!Init /\ own \subseteq {<<1, 1>>} /\ Init

MCNext ==
  \/ part = "accounts" /\ Next /\ UNCHANGED <<part, imports>>
  \/ part = "holidays" /\ H!Next /\ UNCHANGED <<part, vars>>

\* The fairness of H!Spec.
MCFairness ==
  /\ WF_all(part = "holidays" /\ H!Monday /\ UNCHANGED <<part, vars>>)
  /\ WF_all(part = "holidays" /\ H!Import /\ UNCHANGED <<part, vars>>)
  /\ SF_all(part = "holidays" /\ H!Fetch /\ UNCHANGED <<part, vars>>)

MCSpec == MCInit /\ [][MCNext]_all /\ MCFairness

\* NextYearFollows, where holidays are imported.
NextYearFollowsPlace == <>[](part = "holidays" => H!NextYearSettled)
=============================================================================
