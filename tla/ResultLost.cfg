SPECIFICATION Spec
CONSTANTS
  music = music
  album = album
  song = song
  broken = broken
  readme = readme
  File <- MCFile
  Dir <- MCDir
  Good = {song}
  Bad = {broken}
  Roots <- MCRoots
  Files <- MCFiles
  Subdirs <- MCSubdirs
  FlagSets <- MCFlagSets
  MaxTime = 1
  MaxScans = 2
  MaxObjects = 1
  MaxDirect = 0
  MaxFaults = 0
  HasProgress = TRUE
INVARIANT EveryResultTold
