CONSTANTS
  DirCount = 1
  None = None
  Torn = Torn
  MountBudget <- RecoveryBudget
SPECIFICATION FairSpec
INVARIANT RequestAnswered
 
CHECK_DEADLOCK FALSE
