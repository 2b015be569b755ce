SPECIFICATION Spec
CONSTANTS
  MaxScans = 2
  MaxChunks = 2
  MapChunks = 1
  Window = 3
  Expiry = 4
  MaxTime = 3
  MaxInbox = 1
  MaxLost = 0
  MaxFailures = 0
  MaxReboots = 1
INVARIANT ReportsComplete
CHECK_DEADLOCK FALSE
