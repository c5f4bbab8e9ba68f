SPECIFICATION MCSpec
CONSTANTS
  emp = emp
  lead = lead
  boss = boss
  e1 = e1
  e2 = e2
  e3 = e3
  a1 = a1
  a2 = a2
  NoRow = NoRow
  NoUser = NoUser
  Users = {emp, lead, boss}
  Admins = {boss}
  Leads = {lead, boss}
  Trackers = {emp, lead}
  AutoSubmitters = {lead}
  Approvers <- MCApprovers
  EntryIds = {e1, e2, e3}
  AbsenceIds = {a1, a2}
  Days = {1, 2, 3}
  Times = {0, 1, 2, 3}
  WeekOf <- MCWeekOf
  Categories = {1, 2}
  Working = {1}
  WorkRequests = {1}
  Settings <- WorkSettings
  MaxChanges = 3
INVARIANTS
  NoDoubleBooking
  NoWorkOnAbsence
  ReplacedRejectionsResolved
  NoLongStretchAllDay
  CreditIsByMinutesEachDay
SYMMETRY Symmetry
CHECK_DEADLOCK FALSE
