SPECIFICATION Spec
CONSTANTS
  Generation = {g1}
  Caller = {c1, c2}
  MaxFence = 4
  None = None
SYMMETRY Symmetry
INVARIANTS TypeOK NeverResurrected OneContainerRuns StoppedMeansStopped RunningIsReserved
