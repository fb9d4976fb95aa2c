SPECIFICATION Spec
CONSTANTS
  Boards = {TRUE}
  Jobs <- BothBoards
  BytesPerLine = 2
  Retries = 2
  MaxLost = 1
  MaxRuns = 1
  MaxKills = 0
INVARIANT RejectedIsReported
CHECK_DEADLOCK FALSE
