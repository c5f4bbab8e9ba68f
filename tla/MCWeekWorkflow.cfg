SPECIFICATION Spec
CONSTANTS
  Entries = {e1, e2}
  Requests = {r1, r2}
  Handlers = {h1, h2}
  NoRequest = NoRequest
  Submission = Submission
  AutoReopen = {TRUE, FALSE}
  MayRestart = TRUE
PROPERTIES
  ReopenNeedsConsent
  PendingDecided
