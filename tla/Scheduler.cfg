SPECIFICATION FairSpec
CONSTANTS
  Job <- MCJob
  DependsOn <- MCDependsOn
  Class <- MCClass
  Weight <- MCWeight
  Budget <- MCBudget
  Cost <- MCCost
  Limit <- MCLimit
  Pressure = TRUE
  MaxQueued = 3
INVARIANTS TypeOK BudgetsHold DependenciesFirst ReturnsDrained
PROPERTIES NilMeansAllSucceeded RunReturns
