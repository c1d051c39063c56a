SPECIFICATION Spec
CONSTANTS
  MaxId = 4
  Lengths = {2, 4}
  leafCapacity = 26
  nodeCapacity = 18
  PageSize = 30
  SplitRootLeaf = TRUE
INVARIANT FindsAll
