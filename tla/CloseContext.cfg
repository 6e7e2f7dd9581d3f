SPECIFICATION Spec
CONSTANTS
  MAX_THUMBS = 4
  MaxSpecs = 4
  Codecs = {"JPEG", "PNG", "GIF", "BMP"}
  MaxSkipped = 2
  MaxPackets = 4
INVARIANT ContextClosed
CHECK_DEADLOCK FALSE
