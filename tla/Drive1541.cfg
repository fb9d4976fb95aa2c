SPECIFICATION FairSpec
CONSTANTS
  Disks <- TwoDisks
  FileLen <- Lengths
  MaxLoads = 5
  MaxChanges = 1
  MaxFaults = 2
INVARIANTS
  LoadWhole
  FailureHasCause
  OverflowHasCause
PROPERTIES
  LoadEnds
CHECK_DEADLOCK FALSE
