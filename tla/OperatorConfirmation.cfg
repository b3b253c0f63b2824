CHECK_DEADLOCK FALSE
SPECIFICATION Spec
CONSTANTS
  Caller = {c1, c2}
  Approval = {a1}
  None = None
  Content = {s1, s2}
  Exported = TRUE
  MaxSession = 1
  MaxEdits = 2
SYMMETRY MCSymmetry
INVARIANTS TypeOK
PROPERTIES ImplementsOneTimeApproval 
