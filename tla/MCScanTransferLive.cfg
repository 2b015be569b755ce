SPECIFICATION FairTransferSpec
CONSTANTS
  a = a
  b = b
  c = c
  none = none
  pc = pc
  nomac = nomac
  ChunkMax = 1
  Capacity = 2
  Transfers <- MCTransfers
  NoTransfer = none
  HasFrames <- MCHasFrames
  Frames <- MCFrames
  Stations <- MCStations
  Pc = pc
  NoMac = nomac
  TotalLen <- MCTotalLen
  ChunkSize = 1
  HostPort = 7
  Plan <- MixedPlan
  ReadyRetries = 3
  ChunkRepeats = 2
  FirstRepeats = 3
  RingSize = 2
  MaxLost = 1
  MaxReboots = 1
  Interrupts = FALSE
  Patience = {TRUE, FALSE}
PROPERTIES
  EveryScanConfirmed
  ClientTerminates
  BoardReturns
CHECK_DEADLOCK FALSE
