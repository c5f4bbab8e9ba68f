\* The constants of the scenario "requeue".
CONSTANTS
  LastMonth = 2
  Uploaders = {"daily", "now"}
  Editors = {"e1"}
  MaxChanges = 1
  MaxFaults = 1
SPECIFICATION MCSpec
INVARIANTS StaleIsQueued NoMonthSkipped
PROPERTIES ReadyIsUploadedInMonths
