SPECIFICATION TransferSpec
CONSTANTS
  a = a
  b = b
  c = c
  none = none
  pc = pc
  nomac = nomac
  ChunkMax = 1
  Capacity = 2
  Transfers <- MCTransfers
  NoTransfer = none
  HasFrames <- MCHasFrames
  Frames <- MCFrames
  Stations <- MCStations
  Pc = pc
  NoMac = nomac
  TotalLen <- MCTotalLen
  ChunkSize = 1
  HostPort = 7
  Plan <- LongPlan
  ReadyRetries = 2
  ChunkRepeats = 2
  FirstRepeats = 3
  RingSize = 4
  MaxLost = 2
  MaxReboots = 1
  Interrupts = TRUE
  Patience = {FALSE}
INVARIANTS
  ReadyMeansPrepared
  OnlyOfferedScans
PROPERTIES
  ImplementsDelivery
