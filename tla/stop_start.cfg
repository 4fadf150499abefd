CONSTANTS
  Names <- OneName
  PodNames <- OneNamePods
  ProviderPodName <- OneNameProvider
  Nodes = {node1, node2}
  None = None
  Budget <- StopStartBudget
SYMMETRY NodeSymmetry
SPECIFICATION Spec
INVARIANT TypeOK
INVARIANT InstanceStatusTruthful
INVARIANT SameNode
PROPERTY RootfsPreserved
 
PROPERTY ConsumerFollowsSpec
PROPERTY InstanceFollowsContainer
CHECK_DEADLOCK FALSE
