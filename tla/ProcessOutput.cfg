SPECIFICATION Spec
CONSTANTS
  Stream = {stdout, stderr}
  ChunkUnits = 2
  MemoryUnits = 2
  Limits = {1, 2}
  Faults = FALSE
  MaxOutput = 1
INVARIANTS OutputIsComplete
