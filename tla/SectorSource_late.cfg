SPECIFICATION Spec
CONSTANTS
  s1 = s1
  s2 = s2
  Sectors <- TwoSectors
  NoSector = NoSector
  IllegalSector = IllegalSector
  SectorLen = 2
  WildLen = 3
  MaxFaults = 2
  MaxMounts = 1
  ZoneCrossings = FALSE
INVARIANTS
  ValidIsWanted
