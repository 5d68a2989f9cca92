\* Two jobs of one single-task stage each, which may overlap, with driver
\* updates, a plan that may be missing and executors that come and go.
CONSTANTS
  Stages = {0, 1}
  Jobs = {0, 1}
  StagesOf <- JobPerStage
  Parents <- NoParents
  AccIds = {0}
  Reports <- OwnReport
  Executors = {e1}
  CoresEach = 2
  Cpus = {1}
  Partitions = 1
  MaxAttempts = 2
  MaxTries = 1
  MaxPlans = 1
  MaxDriver = 1
  MaxPosted = 9
  Droppable = {}
  MaxDrops = 0
  None = None
SPECIFICATION Spec
INVARIANTS TypeOK SucceededJobShowsItsStages LatestReadingWins
CHECK_DEADLOCK FALSE
