\* A log that ends before the application did.
CONSTANTS
  Stages = {0}
  Jobs = {0}
  StagesOf <- OneStage
  Parents <- NoParents
  AccIds = {}
  Reports <- OwnReport
  Executors = {}
  CoresEach = 2
  Cpus = {1}
  Partitions = 1
  MaxAttempts = 1
  MaxTries = 1
  MaxPlans = 0
  MaxDriver = 0
  MaxPosted = 9
  Droppable = {}
  MaxDrops = 0
  None = None
SPECIFICATION Spec
INVARIANT StagesReportsWhateverIsThere
CHECK_DEADLOCK FALSE
