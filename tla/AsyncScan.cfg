SPECIFICATION LiveSpec
CONSTANTS
  MaxDirs = 1
  MaxFiles = 2
  PipeCap = 8
  ReadChunk = 3
  HasError = TRUE
  HasProgress = TRUE
  HasFinish = TRUE
  DestroyInCallback = FALSE
INVARIANT TypeOK
INVARIANT NoLostWakeup
INVARIANT InOrderOnce
INVARIANT HeapExact
INVARIANT WorkerOutlived
INVARIANT CallbacksNeverOverlap
INVARIANT FinishMeansDone
INVARIANT AbortIsPrompt
INVARIANT SignalNeverWaits
PROPERTY GetsNearer
PROPERTY FinishCalled
PROPERTY DestroyReturns
PROPERTY ImplementsChannel
