CONSTANTS
  Names <- OneName
  PodNames <- OneNamePods
  ProviderPodName <- OneNameProvider
  Nodes = {node1, node2}
  None = None
  Budget <- DisturbedBudget
SYMMETRY NodeSymmetry
SPECIFICATION Spec
INVARIANT RestsOnlyWhenDone
 
PROPERTY LeaseKept
CHECK_DEADLOCK FALSE
