SPECIFICATION Spec
CONSTANTS
  Disks <- TwoDisks
  FileLen <- Lengths
  MaxLoads = 2
  MaxChanges = 1
  MaxFaults = 0
INVARIANTS
  OneDisk
  LoadSucceeds
CHECK_DEADLOCK FALSE
