SPECIFICATION Spec
CONSTANTS
  ByteBits = 2
  WordBits = 4
  MaxBits = 3
  AllocSz = 5
  Slack = 7
  InitLens = {0}
  BufSize = 2
  Sizes = {1, 4}
  FileLen = 3
  MaxBytes = 6
INVARIANT TypeOK
INVARIANT InBounds
PROPERTY ImplementsFifo
PROPERTY LoadComplete
