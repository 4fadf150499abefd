CONSTANTS
  Names <- OneName
  PodNames <- OneNamePods
  ProviderPodName <- OneNameProvider
  Nodes = {node1}
  None = None
  Budget <- TeardownBudget
SPECIFICATION FairSpec
PROPERTY DeletionCompletes
PROPERTY NothingLeaks
CHECK_DEADLOCK FALSE
