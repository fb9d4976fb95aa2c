SPECIFICATION FairSpec
CONSTANTS
  c1 = c1
  c2 = c2
  b0 = b0
  b1 = b1
  Cell <- MCCell
  Byte <- MCByte
  Blank = b0
  Elsewhere = Elsewhere
  NoSteal = NoSteal
  BitmapFetch = BitmapFetch
  NoWrite = NoWrite
  MaxSteal = 3
  MinGap = 3
  ExecFromVram = FALSE
INVARIANTS Coherent LatchFree EveryReadCurrent
PROPERTIES AccessesEnd
