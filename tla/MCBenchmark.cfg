\* Two passes of two arms, run one at a time or to the end; one driver
\* killed, one child failing.
CONSTANTS
  Arms <- TwoArms
  Passes = 2
  Limits = {0, 1}
  None = None
  MaxCrashes = 1
  MaxFailures = 1
SPECIFICATION FairSpec
INVARIANTS TypeOK OwnLogs CompleteMeansDone
PROPERTIES ImplementsSplitRun Completes
CHECK_DEADLOCK FALSE
