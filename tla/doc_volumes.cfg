CONSTANTS
  Templates <- VolumeTemplate
  MaxAttempts = 3
  ConsumerBudget <- RebootBudget
SPECIFICATION Spec
INVARIANT VolumesVisible
CHECK_DEADLOCK FALSE
