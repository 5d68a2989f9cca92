\* Up to five tasks of six sizes, a clock step's negative one included, a floor between the two smallest.
CONSTANTS
  Kinds <- MCKinds
  KindOf <- MCKindOf
  Quantities <- MCQuantities
  Floors <- MCFloors
  Metric = "memory_spilled"
  Threshold <- Four
  Values <- MCValues
  MaxTasks = 5
SPECIFICATION Spec
INVARIANTS ReachableOnlyFromThree UnboundedIsMajorityZero
PROPERTIES HotterNeverCooler IdleTaskNeverClears
CHECK_DEADLOCK FALSE
