SPECIFICATION LiveSpec
CONSTANTS
  music = music
  album = album
  song = song
  broken = broken
  readme = readme
  File <- MCFile
  Dir <- MCDir
  Good = {song}
  Bad = {broken}
  Roots <- MCRoots
  Files <- MCFiles
  Subdirs <- MCSubdirs
  FlagSets <- MCFlagSets
  MaxTime = 2
  MaxScans = 2
  MaxObjects = 2
  MaxDirect = 1
  MaxFaults = 1
  HasProgress = TRUE
INVARIANT TypeOK
INVARIANT NothingMissed
INVARIANT FreshFullScan
INVARIANT ReportedOnce
INVARIANT CacheNeverAhead
INVARIANT ProgressExact
PROPERTY ScanEnds
