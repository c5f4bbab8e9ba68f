\* The constants of the accounts; those of the holidays are in MCAccounts.
SPECIFICATION MCSpec
CONSTANTS
  u1 = u1
  u2 = u2
  u3 = u3
  Users = {u1, u2, u3}
  Requests = {1, 2}
  WithData = {u1}
  LeadsManage = TRUE
INVARIANTS
  NoApprovalCycle
PROPERTIES
  AdminRemains
  ApproverRemains
  NextYearFollowsPlace
CHECK_DEADLOCK FALSE
