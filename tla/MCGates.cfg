SPECIFICATION Spec
CONSTANTS
  w1 = w1
  w2 = w2
  Worker = {w1, w2}
  Threshold <- MCThreshold
  Base = 1
  Token = 2
  Rate = 1
  Capacity = 4
  MaxNow = 5
  MaxBack = 1
INVARIANTS
  RateBound
  RefusedOnlyNearPeak
  CooldownServed
CHECK_DEADLOCK FALSE
