CONSTANTS
  Height = 4
  Labels <- AllLabels
SPECIFICATION Spec
INVARIANTS
  NodesOfTheTree
  MaskAdmitsSharedNodes
