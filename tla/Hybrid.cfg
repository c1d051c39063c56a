SPECIFICATION Spec
CONSTANTS
  PageSize = 8
  BlockSize = 2
  Classes = 2
  PerPage = 4
  InfoPage = 1
  MinPages = 3
  MaxPages = 8
  Records = {r1, r2}
  Lengths = {2, 5, 8}
CHECK_DEADLOCK FALSE
INVARIANTS TypeOK OwnersDisjoint OwnedAreUsed HistogramTrue RecordLength InfoPagesFit FileTrimmed CommittedImage NoHeapDamage
PROPERTIES GrowsOnlyWhenNeeded AllocatorSpec
