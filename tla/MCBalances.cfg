SPECIFICATION MCSpec
CONSTANTS
  \* the leave account
  YearLength = 2
  LastYear = 3
  WeekLength = 2
  Quota = 2
  YearMonths = 2
  StartDay = 1
  Anchor = 1
  AccountStart = 1
  WorkDays <- MCWorkDays
  DefaultDays = 1
  DayCounts = {0, 1}
  ExpiryDays = {1}
  MaxBookings = 2
  MaxAdmin = 1
  \* the flextime account
  FlexDays = 6
  MonthLength = 3
  FlexYearMonths = 1
  FlexWorkDays <- MCFlexWorkDays
  Holidays = {5}
  DayMinutes = 2
  EntryMinutes = 3
  Bookable = {3}
  Floor = 0
  Starts = {1, 2}
  MaxSteps = 3
  \* the contract
  ContractDays = 2
  HourCounts = {0, 1}
  MaxUpdates = 2
  \* the payroll reports: the first week lies in two months, days 1 to 3 have no
  \* recorded weekdays
  PayDays = 6
  PayWeek = 4
  PayMonth = 2
  PayHolidays = {5}
  ContractStart = 1
  PatternFrom = 4
  PayPattern = {4, 6}
  Cap = 2
  Categories = {"sick", "unpaid"}
  Tracked = {"sick"}
  Threshold = 3
  MaxAbsences = 2
INVARIANTS LeaveCardMatchesRule FlextimeViewsAgree QuotaPaidOnce
PROPERTIES LeaveBacked LeaveCarryoverExpires ContractPastStands VerdictOfTheIllness
CHECK_DEADLOCK FALSE
