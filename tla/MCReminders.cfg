\* Days 1 to 7 are the weeks {1, 2}, {3, 4, 5} and {6, 7} of months of three days.
SPECIFICATION MCSpec
CONSTANTS
  FinalDay = 7
  WeekLength = 3
  DueDay = 2
  MonthLength = 3
  WorkDays = {1, 2, 3, 4, 6, 7}
  Holidays = {2}
  Starts = {1, 3}
  Roles = {"employee", "zero hours", "assistant"}
  MaxSteps = 4
  StepsWatched = 2
  DeadlineDay = 2
  PayrollDay = 0
  Interval = 2
  MaxClears = 1
INVARIANTS VerdictsAgreeUnwatched RemindedOnce MissingIsAsked
PROPERTIES ReadyStaysReady WaitingIsHeardWatched
CONSTRAINT Focus
CHECK_DEADLOCK FALSE
