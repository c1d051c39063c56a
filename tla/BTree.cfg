SPECIFICATION Spec
CONSTANTS
  MaxId = 5
  Lengths = {2, 4}
  leafCapacity = 26
  nodeCapacity = 18
  PageSize = 30
  SplitRootLeaf = FALSE
INVARIANTS
  TypeOK
  FindsAll
  LinksTrue
  PagesFit
  WalkTrue
  Committed
