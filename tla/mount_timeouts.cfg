CONSTANTS
  DirCount = 1
  None = None
  Torn = Torn
  MountBudget <- TimeoutBudget
SPECIFICATION Spec
INVARIANT ReadyMeansMounted
CHECK_DEADLOCK FALSE
