SPECIFICATION Spec
CONSTANTS
  PageSize = 8
  BlockSize = 2
  Classes = 2
  PerPage = 4
  InfoPage = 1
  MinPages = 3
  MaxPages = 7
  Records = {r1, r2}
  Lengths = {2, 12}
CHECK_DEADLOCK FALSE
INVARIANT RecordLength
