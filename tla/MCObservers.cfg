SPECIFICATION Spec
CONSTANTS
  u1 = u1
  u2 = u2
  scaler = scaler
  NoUrl = NoUrl
  Worker = {0, 1, 2}
  Logger = {scaler}
  Url = {u1, u2}
  MaxNodes = 2
  Keep = 4
  MaxStamp = 5
SYMMETRY Symmetry
INVARIANTS
  StoryInOrder
  FewNewerLost
  ResultsInOrder
  ComparableIffSlotShared
CHECK_DEADLOCK FALSE
