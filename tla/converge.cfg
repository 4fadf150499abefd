CONSTANTS
  Names <- OneName
  PodNames <- OneNamePods
  ProviderPodName <- OneNameProvider
  Nodes = {node1}
  None = None
  Budget <- ConvergeBudget
SPECIFICATION FairSpec
PROPERTY StartConverges
PROPERTY StopConverges
CHECK_DEADLOCK FALSE
