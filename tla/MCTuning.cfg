\* Eleven queries run with one or two slots or none in the log, once or
\* twice in an application or not at all, from two counts.
CONSTANTS
  None = None
  Queries <- MCQueries
  Confs = {1, 8}
  SlotsSeen = {0, 2}
  MaxPlans = 2
  Advisory = 4
  Threshold = 10
SPECIFICATION Spec
INVARIANTS TypeOK OneDecisionOneCount CutsKnowTheirReader StatusIsWhatWasPrinted
  TargetsFit AdviceSettles SavedShuffleFedTheJoin
