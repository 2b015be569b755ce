SPECIFICATION Spec
CONSTANTS
  t1 = t1
  t2 = t2
  t3 = t3
  none = none
  pc = pc
  other = other
  nomac = nomac
  ChunkMax = 3
  Capacity = 6
  Transfers <- MCTransfers
  NoTransfer = none
  HasFrames <- MCHasFrames
  Frames <- MCFrames
  Stations <- MCStations
  Pc = pc
  NoMac = nomac
INVARIANTS
  MapMatchesStore
  PacketsCounted
  ReceivedScanIntact
  DoneNamesScan
  WaitsForAChunk
PROPERTIES
  ProgressKept
