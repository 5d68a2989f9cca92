\* Four passes of two arms, three wall times, one run whose log differs from the others'.
CONSTANTS
  Rounds = 4
  Outcomes <- MCOutcomes
  Usual <- MCUsual
  MaxOdd = 1
SPECIFICATION ReadingsSpec
INVARIANTS Rotates FloorIsTheSmallest OnFloorMeansApart EitherArmAsBaseline
  ComparedDidTheSameWork
CHECK_DEADLOCK FALSE
