SPECIFICATION FairSpec
CONSTANTS
  Uses <- TimeoutOnly
  HalfBeats = 1
  MaxVersion = 1
  RemountAnytime = FALSE
  Illegal = Illegal
  None = None
PROPERTIES RequestsServed FastWindowAgrees
