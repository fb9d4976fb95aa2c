SPECIFICATION Spec
CONSTANTS
  Disks = {1, 2, 3}
  Folders <- TwoFolders
  DirOf <- Files
  Sectors <- Places
  Link <- Links
  SectorSize = 2
  Matches <- Patterns
  Channels = {2, 3, 15}
  Specs <- Opens
  BlockArgs <- Padded
  Pointers <- Moves
  Sizes = {0, 2}
  MaxRequests = 4
  MaxChanges = 1
INVARIANTS
  BlockReadAsAsked
CHECK_DEADLOCK FALSE
