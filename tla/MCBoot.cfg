SPECIFICATION Spec
CONSTANTS
  Domain = {1, 2}
  CatOf <- MCCatOf
  RingNode = {0, 1, 2}
  Position = {0, 1, 2, 3, 4, 5, 6}
  CopyAt <- MCCopyAt
  PerDomain = 3
  Target = 7
  Total = 9
  Templates = 2
  Years = 1
  Months = 2
  Words = 1
  Shift = 2
  Bit = {1, 2, 3, 4, 5}
  BitsOf <- MCBitsOf
INVARIANTS
  RepeatsHaveNoId
  FilteredOnce
  DroppedByCollision
  DequesFit
PROPERTIES
  KeysMoveOnlyToAdded
CHECK_DEADLOCK FALSE
