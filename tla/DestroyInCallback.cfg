SPECIFICATION LiveSpec
CONSTANTS
  MaxDirs = 1
  MaxFiles = 2
  PipeCap = 8
  ReadChunk = 3
  HasError = TRUE
  HasProgress = TRUE
  HasFinish = TRUE
  DestroyInCallback = TRUE
INVARIANT ObjectOutlivesLoop
