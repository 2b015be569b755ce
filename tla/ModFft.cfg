SPECIFICATION FairSpec
CONSTANTS
  Words = 5
  StartCount = 2
  Skid = 2
  MaxFrames = 4
INVARIANTS
  PacketsWhole
  PacketOrder
PROPERTY EveryFrameAnswered
CHECK_DEADLOCK FALSE
