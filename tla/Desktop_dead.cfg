SPECIFICATION FairDeskSpec
CONSTANTS
  Folder = {d64}
  NoImage = none
  MaxEvents = 1
  Jobs = {"upload", "build"}
INVARIANTS
  ConnectedServes
