SPECIFICATION FairSpec
CONSTANTS
  Boards = {FALSE, TRUE}
  Jobs <- BothBoards
  BytesPerLine = 2
  Retries = 2
  MaxLost = 1
  MaxRuns = 2
  MaxKills = 1
INVARIANTS
  ImageArrives
  FailureHasCause
PROPERTIES
  RunEnds
CHECK_DEADLOCK FALSE
