SPECIFICATION Spec
CONSTANTS
  Task = {t1, t2}
  Commit = {a, b}
  None = None
  Damaged = Damaged
  MaxMoves = 4
  MaxFaults = 3
SYMMETRY MCSymmetry
INVARIANTS TypeOK TasksAreOfMainUnlessStrayed RefusedOnlyHalfRenamed
PROPERTIES ImplementsTaskTable
