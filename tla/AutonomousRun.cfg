SPECIFICATION Spec
CONSTANTS
  Loop = {l1, l2}
  None = None
  Snapshot <- MCSnapshot
  Initial <- MCInitial
  Patched <- MCPatched
  Plan = {p, q}
  Ambiguous <- MCAmbiguous
  MaxRetries = 1
  MaxFaults = 1
  MaxCalls = 3
SYMMETRY MCSymmetry
INVARIANTS TypeOK 
PROPERTIES CompletedMeansVerified NothingAfterClose Converges
