SPECIFICATION Spec
CONSTANTS
  Path <- MCPath
  Above <- MCAbove
  Content = {x, y}
  Large = {}
  Absent = Absent
  MaxJournal = 2
  MaxLiveEdit = 0
  MaxCandidateEdit = 1
  None = None
SYMMETRY Symmetry
INVARIANTS TypeOK 
PROPERTIES JournalMovesForward
