SPECIFICATION Spec
CONSTANTS
  YearLength = 2
  LastYear = 3
  WeekLength = 2
  Quota = 2
  YearMonths = 2
  StartDay = 1
  Anchor = 1
  AccountStart = 1
  WorkDays <- MCWorkDays
  DefaultDays = 1
  DayCounts = {0, 1}
  ExpiryDays = {1}
  MaxBookings = 3
  MaxAdmin = 1
INVARIANTS
  ApprovedWithinEntitlement
CHECK_DEADLOCK FALSE
