SPECIFICATION FairSpec
CONSTANTS
  Path <- NestedPath
  Above <- NestedAbove
  Content = {x, y}
  Large = {y}
  Absent = Absent
  MaxJournal = 1
  MaxLiveEdit = 2
  MaxCandidateEdit = 1
  None = None
INVARIANTS OnlyUndoneEditsSlipIn
PROPERTIES OpenOnlyWhenFinished ApplyReturns OpeningEnds
