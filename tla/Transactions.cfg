SPECIFICATION Spec
CONSTANTS
  Pages = {1, 2, 3, 4, 5}
  LeafSize = 9
  MaxId = 3
  Kills = {"insert"}
INVARIANTS ObjectsKept DurableIndex OwnersMarked
