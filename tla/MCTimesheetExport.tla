-------------------------- MODULE MCTimesheetExport --------------------------
(* Small instances of TimesheetExport, as three scenarios of one run.          *)
(* "requeue" has the constants of the .cfg: two months, the daily upload, an   *)
(* admin's upload and a handler side by side, with a fault and uploads on or   *)
(* off, before the upload day.  In "months" the daily loop is alone over three *)
(* months, so that one is just finished while others are older, and uploads    *)
(* are switched off and on.  In "overtaken" an admin's upload runs beside it   *)
(* over as many months, each as slow as it likes, with a fault, while every    *)
(* month is ready.                                                             *)
EXTENDS TimesheetExport

VARIABLE scenario

ByMonth == INSTANCE TimesheetExport WITH
  LastMonth <- 3, Uploaders <- {"daily"}, MaxChanges <- 0

Racing == INSTANCE TimesheetExport WITH
  LastMonth <- 3, MaxChanges <- 0

MCVars == <<vars, scenario>>

MCInit == \/ scenario = "requeue" /\ Init
          \/ scenario = "months" /\ ByMonth!Init
          \/ scenario = "overtaken" /\ Racing!Init

MCNext ==
  /\ UNCHANGED scenario
  /\ \/ scenario = "requeue" /\ Next /\ UNCHANGED <<enabled, reached>>
     \/ scenario = "months" /\ ByMonth!Next
     \/ scenario = "overtaken" /\ Racing!Next /\ UNCHANGED settled

\* The fairness of ByMonth!Spec, where it is the scenario.
MCFairness ==
  /\ WF_MCVars(scenario = "months" /\ ByMonth!RunStep("daily") /\ UNCHANGED scenario)
  /\ WF_MCVars(scenario = "months" /\ ByMonth!UploadDay /\ UNCHANGED scenario)

MCSpec == MCInit /\ [][MCNext]_MCVars /\ MCFairness

\* ReadyIsUploaded, where months pass.
ReadyIsUploadedInMonths ==
  \A m \in ByMonth!Months :
    []<>~(scenario = "months" /\ m \in queue /\ settled[m] /\ enabled)
=============================================================================
