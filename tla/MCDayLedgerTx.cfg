SPECIFICATION TxSpec
CONSTANTS
  NoRow = NoRow
  NoUser = NoUser
  Nobody = Nobody
  Requests = {p, q}
  Users = {1, 2}
  Admins <- MCAdmins
  Leads <- MCAdmins
  Trackers <- MCTrackers
  AutoSubmitters = {}
  Approvers <- MCApprovers
  EntryIds = {e1, e2}
  AbsenceIds = {a1}
  Days = {1, 2}
  Times = {0, 1}
  WeekOf <- MCWeekOf
PROPERTY
  ImplementsLedger
SYMMETRY Symmetry
CONSTRAINT Focus
