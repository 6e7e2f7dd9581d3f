SPECIFICATION LiveSpec
CONSTANTS
  MaxDirs = 1
  MaxFiles = 2
  PipeCap = 2
  ReadChunk = 3
  HasError = TRUE
  HasProgress = TRUE
  HasFinish = TRUE
  DestroyInCallback = FALSE
PROPERTY DestroyReturns
\* A full pipe stops both threads in the counterexample.
CHECK_DEADLOCK FALSE
