\* Two stages, one retried, up to three task ends, one of them lost.
CONSTANTS
  None = None
  StageIds <- MCStageIds
  Retried <- MCRetried
  Sizes <- MCSizes
  BudgetProperties <- MCBudget
  Recorded <- MCRecorded
  MaxEnds = 3
  MaxDrops = 1
SPECIFICATION Spec
INVARIANTS OnceSpilledNeverClean PeakIsOfTheStage TotalsCatchALoss
CHECK_DEADLOCK FALSE
