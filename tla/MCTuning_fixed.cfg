\* One global aggregate is enough; the rest as in MCTuning.cfg.
CONSTANTS
  None = None
  Queries <- MCQueries
  Confs = {1, 8}
  SlotsSeen = {0, 2}
  MaxPlans = 2
  Advisory = 4
  Threshold = 10
SPECIFICATION Spec
INVARIANT AdviceCanBeTaken
