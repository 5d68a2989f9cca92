\* Two captures, one of which may die or raise, beside a command or a check.
CONSTANTS
  c1 = c1
  c2 = c2
  Captures = {c1, c2}
  Script <- TwoEvents
  Consumes <- Events
  None = None
  MaxDeaths = 1
  Scenarios <- MCScenarios
SPECIFICATION FairSpec
INVARIANTS ReturnsItsOwnOrAYounger InventoryIsOfItsTime AbortsOnlyForARename
  NamedForATrace
PROPERTY Ends
CHECK_DEADLOCK FALSE
