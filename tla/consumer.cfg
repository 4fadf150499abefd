CONSTANTS
  Templates <- ThreeTemplates
  MaxAttempts = 3
  ConsumerBudget <- OnceBudget
SPECIFICATION FairSpec
INVARIANT ConsumerTypeOK
INVARIANT PodWellFormed
INVARIANT CommandRunsComplete
INVARIANT VolumesVisibleInFirstLayer
 
PROPERTY CommandRuns
CHECK_DEADLOCK FALSE
