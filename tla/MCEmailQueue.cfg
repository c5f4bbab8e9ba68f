\* The constants of the scenario "faults".
CONSTANTS
  MaxMails = 2
  MaxOrdinary = 2
  Refused = {1}
  Threshold = 2
  BatchLimit = 2
  Persistent = 1
  MaxFaults = 1
  MaxOutages = 1
  MaxPayrolls = 1
  OptedIn = FALSE
SPECIFICATION MCSpec
INVARIANTS SentOnce OneTrial
PROPERTIES RetriedInTurns FailureReportedInTurns
\* Once the bounds are used up nothing is left to do.
CHECK_DEADLOCK FALSE
