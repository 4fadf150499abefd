CONSTANTS
  Names <- OneName
  PodNames <- OneNamePods
  ProviderPodName <- OneNameProvider
  Nodes = {node1}
  None = None
  Budget <- RecreateBudget
SPECIFICATION Spec
 
 
 
PROPERTY LeaseKept
PROPERTY InstanceFollowsContainer
CHECK_DEADLOCK FALSE
