SPECIFICATION FairSpec
CONSTANTS
  PageSize = 8
  BlockSize = 4
  PerPage = 4
  InfoPage = 1
  MinPages = 3
  MaxPages = 8
  limit = 2
  Records = {r1, r2}
  Lengths = {6, 11, 20}
  Rooms = {4, 5, 7, 8}
CHECK_DEADLOCK FALSE
INVARIANTS TypeOK OwnedAreUsed CachedSpaceIsThere CommittedImage
PROPERTIES CallReturns AllocatorSpec
