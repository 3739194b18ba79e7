CONSTANTS
  N = 3
  None = None
  t1 = t1
  Tab = {t1}
  MaxTerm = 2
  MaxCrashes = 1
  MaxAppends = 1
SPECIFICATION Spec
INVARIANTS ElectionSafety SoleLeader NoLockCycleUnhit ReplicasAgree
PROPERTY TermsAndVotesKept
CHECK_DEADLOCK FALSE
