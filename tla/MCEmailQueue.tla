---------------------------- MODULE MCEmailQueue ----------------------------
(* Small instances of EmailQueue, as two scenarios of one run.  The code's   *)
(* 100th attempt, threshold of 5 and batch of 50 become Persistent,          *)
(* Threshold and BatchLimit of 1 and 2, so that attempts before, at and      *)
(* after each are reached.                                                   *)
(*                                                                           *)
(* "faults" has the constants of the .cfg: two mails, one of them refused,   *)
(* both senders, an outage and a fault.  In "turns" nothing fails but two    *)
(* mails that can never be delivered, which trip the breaker again and again *)
(* in front of the mails behind them.                                        *)
EXTENDS EmailQueue

VARIABLE scenario

Turns == INSTANCE EmailQueue WITH
  MaxMails <- 3, Refused <- {1, 2}, OptedIn <- TRUE,
  MaxFaults <- 0, MaxOutages <- 0, MaxPayrolls <- 0

MCVars == <<vars, scenario>>

MCInit == \/ scenario = "faults" /\ Init
          \/ scenario = "turns" /\ Turns!Init

MCNext ==
  /\ UNCHANGED scenario
  /\ \/ scenario = "faults" /\ Next
     \/ scenario = "turns" /\ Turns!Next

\* The fairness of Turns!Spec, where it is the scenario.
MCFairness ==
  /\ WF_MCVars(scenario = "turns" /\ Turns!WorkerStep /\ UNCHANGED scenario)
  /\ WF_MCVars(scenario = "turns" /\ Turns!PayrollEnd /\ UNCHANGED scenario)
  /\ WF_MCVars(scenario = "turns" /\ Turns!ErrorStep /\ UNCHANGED scenario)
  /\ WF_MCVars(scenario = "turns" /\ Turns!CoolDown /\ UNCHANGED scenario)

MCSpec == MCInit /\ [][MCNext]_MCVars /\ MCFairness

\* RetriedForever of Turns: every mail gets its turn behind the two that trip the
\* breaker.
RetriedInTurns ==
  \A m \in Turns!Mails :
    []<>(scenario = "turns" /\ m \in queue => worker.at = "send" /\ Current = m)

\* FailureReported of Turns: the admin learns of both mails that are refused.
FailureReportedInTurns ==
  \A m \in Turns!Mails :
    scenario = "turns" /\ mail[m].kind = "ordinary" /\ mail[m].attempts > 0
      ~> scenario = "turns" /\ notice[m].attempts > 0
=============================================================================
