CONSTANTS
  N = 3
  None = None
  t1 = t1
  Tab = {t1}
  MaxTerm = 2
  MaxCrashes = 0
  MaxAppends = 0
SPECIFICATION FairSpec
PROPERTY ElectionEnds
CHECK_DEADLOCK FALSE
