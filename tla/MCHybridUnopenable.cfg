SPECIFICATION ReopenSpec
CONSTANTS
  PageSize = 8
  BlockSize = 4
  Classes = 2
  PerPage = 4
  InfoPage = 1
  MinPages = 3
  MaxPages = 7
  Records = {r1, r2}
  Lengths = {3, 8}
  FirstCommit = TRUE
  MaxReopens = 1
SYMMETRY RecordSymmetry
CHECK_DEADLOCK FALSE
INVARIANT EveryReopenSucceeds
