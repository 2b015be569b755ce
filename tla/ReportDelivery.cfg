SPECIFICATION Spec
CONSTANTS
  MaxScans = 2
  MaxChunks = 2
  MapChunks = 1
  Window = 3
  Expiry = 4
  MaxTime = 4
  MaxInbox = 1
  MaxLost = 1
  MaxFailures = 1
  MaxReboots = 1
INVARIANTS
  ShownIsWhole
  ShownOnce
  ArrivedIsShown
  OneLossIsNothing
CHECK_DEADLOCK FALSE
