SPECIFICATION Spec
CONSTANTS
  FracBits = 6
  WordBits = 15
  MaxColour = 255
  Colour = 15
  MaxSide = 4
  Orientations = {1, 2, 3, 4, 5, 6, 7, 8}
INVARIANT PngUpright
CHECK_DEADLOCK FALSE
