SPECIFICATION Spec
CONSTANTS
  Uses <- Remounts
  HalfBeats = 1
  MaxVersion = 0
  RemountAnytime = TRUE
  Illegal = Illegal
  None = None
INVARIANTS OneOutstanding
