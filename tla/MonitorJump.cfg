SPECIFICATION JumpFairSpec
CONSTANTS
  b0 = b0
  b1 = b1
  Halves <- MCHalves
  RomVector <- MCRomVector
  NoJump = NoJump
  ResetClocks = 16
INVARIANTS RestartsRight
PROPERTIES JumpServed
