CONSTANTS
  Names <- CollidingNames
  PodNames <- CollidingPods
  ProviderPodName <- CollidingProvider
  Nodes = {node1}
  None = None
  Budget <- TwoBudget
SPECIFICATION Spec
PROPERTY RootfsPreserved
CHECK_DEADLOCK FALSE
