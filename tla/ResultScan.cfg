SPECIFICATION Spec
CONSTANTS
  MAX_THUMBS = 4
  MaxSpecs = 4
  Codecs = {"JPEG", "PNG", "GIF", "BMP"}
  MaxSkipped = 2
  MaxPackets = 4
INVARIANT TypeOK
INVARIANT FreedOnce
INVARIANT AllFreed
INVARIANT ToldWhole
PROPERTY ScanEnds
CHECK_DEADLOCK FALSE
