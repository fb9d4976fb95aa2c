SPECIFICATION MCFairSpec
CONSTANTS
  c1 = c1
  c2 = c2
  b0 = b0
  b1 = b1
  Cell <- MCCell
  Byte <- MCByte
  Blank = b0
  Elsewhere = Elsewhere
  None = None
  Framebuffer = FALSE
INVARIANTS NoWriteLost
PROPERTIES Implements AccessesEnd
