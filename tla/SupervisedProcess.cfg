SPECIFICATION FairSpec
CONSTANTS
  Stream = {stdout, stderr}
  ChunkUnits = 2
  MemoryUnits = 2
  Limits = {1, 2}
  Faults = TRUE
  MaxOutput = 2
INVARIANTS TypeOK 
PROPERTIES FinishedIsFinal WaitReturns
