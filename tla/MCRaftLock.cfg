CONSTANTS
  N = 3
  None = None
  t1 = t1
  Tab = {t1}
  MaxTerm = 3
  MaxCrashes = 1
  MaxAppends = 0
SPECIFICATION Spec
INVARIANT NoLockCycle
CHECK_DEADLOCK FALSE
