SPECIFICATION Spec
CONSTANTS
  BUF_SIZE = 7
  Widths = {1, 3, 9}
  Heights = {1, 2}
  Depths = {1, 4, 8, 16, 24, 32}
  MaxCut = 4
INVARIANT TypeOK
INVARIANT PixelsInPlace
INVARIANT CompleteLoads
PROPERTY ReadsHeld
