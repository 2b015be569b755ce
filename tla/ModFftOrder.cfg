SPECIFICATION Spec
CONSTANTS
  Words = 5
  StartCount = 2
  Skid = 2
  MaxFrames = 4
INVARIANT FrameInPlace
CHECK_DEADLOCK FALSE
