SPECIFICATION Spec
CONSTANTS
  Days = {1, 2}
  MonthOf <- MCMonthOf
  LastMonth = 2
  Entries = {e1}
  Absences = {a1}
  Minutes = {1}
  BreakAfter = 2
  MaxWrites = 2
  MaxFaults = 1
INVARIANTS
  AbsenceDaysReported
CHECK_DEADLOCK FALSE
