SPECIFICATION Spec
CONSTANTS
  Generation = {g1, g2}
  Owner = {o1}
  Caller = {c1, c2}
  Snapshot = {s1, s2}
  TTL = {2}
  MaxFence = 2
  MaxClock = 2
  None = None
SYMMETRY Symmetry
INVARIANTS TypeOK NoInheritedAuthority FenceNamesOneEpoch
PROPERTIES QuarantineIsSticky OneRuntimeOwner ImplementsFenceAuthority
