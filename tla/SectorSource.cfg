SPECIFICATION FairSpec
CONSTANTS
  s1 = s1
  s2 = s2
  Sectors <- TwoSectors
  NoSector = NoSector
  IllegalSector = IllegalSector
  SectorLen = 2
  WildLen = 3
  MaxFaults = 1
  MaxMounts = 2
  ZoneCrossings = TRUE
INVARIANTS
  AnswerIsFresh
PROPERTIES
  FetchServed
