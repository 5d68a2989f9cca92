\* One stage of up to two tasks, retried once, each task tried at most twice,
\* the log caught at any point and at most one event dropped.
CONSTANTS
  Stages = {0}
  Jobs = {0}
  StagesOf <- OneStage
  Parents <- NoParents
  AccIds = {0}
  Reports <- OwnReport
  Executors = {}
  CoresEach = 0
  Cpus = {1}
  Partitions = 2
  MaxAttempts = 2
  MaxTries = 2
  MaxPlans = 0
  MaxDriver = 0
  MaxPosted = 10
  Droppable = {"StageSubmitted", "StageCompleted"}
  MaxDrops = 1
  None = None
SPECIFICATION Spec
INVARIANTS TasksConserved StagesCarryTheirTasks RefusalIsHonest
PROPERTY LongerLogKeepsTheAnswer
CHECK_DEADLOCK FALSE
