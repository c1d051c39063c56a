SPECIFICATION Spec
CONSTANTS
  Pages = {1, 2, 3, 4, 5, 6, 7}
  LeafSize = 1
  MaxId = 3
  Kills = {}
INVARIANT ObjectsKept
