SPECIFICATION SessionSpec
CONSTANTS
  Logins = {1, 2}
  Forgots = {1}
  Changes = {1}
  Tokens = {1, 2}
  Links = {1, 2}
  MaxFailures = 2
  MaxForgots = 1
  MaxEpoch = 2
INVARIANTS
  SessionsCurrent
  LinksRetired
  AttemptsBounded
PROPERTIES
  LockoutEnds
