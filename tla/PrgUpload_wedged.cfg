SPECIFICATION Spec
CONSTANTS
  Boards = {FALSE}
  Jobs <- BothBoards
  BytesPerLine = 2
  Retries = 2
  MaxLost = 0
  MaxRuns = 2
  MaxKills = 1
INVARIANT UploadSucceeds
CHECK_DEADLOCK FALSE
