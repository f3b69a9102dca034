SPECIFICATION Spec
CONSTANTS
  MAX_FRAME = 3
  BUFFER = 2
  STREAM = 6
INVARIANT FramesAreWhole
