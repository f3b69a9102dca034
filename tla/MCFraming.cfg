SPECIFICATION FairSpec
CONSTANTS
  MAX_FRAME = 3
  BUFFER = 2
  STREAM = 6
INVARIANTS BufferBound FramesAreTails EndIsJustified
PROPERTY ReaderKeepsUp
