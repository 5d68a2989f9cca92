\* An executor is lost and another takes its place.
CONSTANTS
  Stages = {0}
  Jobs = {0}
  StagesOf <- OneStage
  Parents <- NoParents
  AccIds = {}
  Reports <- OwnReport
  Executors = {e1, e2}
  CoresEach = 2
  Cpus = {1}
  Partitions = 1
  MaxAttempts = 1
  MaxTries = 1
  MaxPlans = 0
  MaxDriver = 0
  MaxPosted = 9
  Droppable = {}
  MaxDrops = 0
  None = None
SPECIFICATION Spec
INVARIANT SlotsCanRun
CHECK_DEADLOCK FALSE
