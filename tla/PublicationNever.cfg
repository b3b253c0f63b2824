CHECK_DEADLOCK FALSE
SPECIFICATION Spec
CONSTANTS
  Caller = {c1}
  Approval = {a1}
  None = None
  Content = {s1, s2}
  Exported = FALSE
  MaxSession = 0
  MaxEdits = 1
PROPERTIES ApprovedPublicationsPass
