SPECIFICATION Spec
CONSTANTS
  Days = {1, 2}
  MonthOf <- MCMonthOf
  LastMonth = 2
  Entries = {e1, e2}
  Absences = {a1}
  Minutes = {1, 2}
  BreakAfter = 2
  MaxWrites = 4
  MaxFaults = 1
PROPERTIES
  ReadyIsReported
INVARIANTS
  BooksMatch
  AccountedOnce
  HoursAccountedFor
  CancellationsHeard
CHECK_DEADLOCK FALSE
