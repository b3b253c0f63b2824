SPECIFICATION Spec
CONSTANTS
  Path <- FlatPath
  Above <- FlatAbove
  Content = {x, y}
  Large = {y}
  Absent = Absent
  MaxJournal = 1
  MaxLiveEdit = 0
  MaxCandidateEdit = 0
  None = None
PROPERTIES FinishedJournalsNeverRefuse
