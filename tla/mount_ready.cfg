CONSTANTS
  DirCount = 1
  None = None
  Torn = Torn
  MountBudget <- FailuresBudget
SPECIFICATION Spec
INVARIANT MountTypeOK
INVARIANT ReadyMeansMounted
INVARIANT RequestAnswered
PROPERTY MountedOnce
CHECK_DEADLOCK FALSE
