SPECIFICATION Spec
CONSTANTS
  Uses <- DriveOrWindow
  HalfBeats = 1
  MaxVersion = 1
  RemountAnytime = FALSE
  Illegal = Illegal
  None = None
INVARIANTS MountedDiskServed WritesLand OneOutstanding
PROPERTIES OtherHalfPreserved
