SPECIFICATION Spec
CONSTANTS
  QueueSize = 2
  DrainLimit = 1
  MaxPackets = 3
  MaxStarts = 2
  MaxFaults = 1
INVARIANTS
  ReceiverSurvives
  DropsCounted
  StoppedIsLast
PROPERTIES
  ThreadEnds
  NoEventStuck
CHECK_DEADLOCK FALSE
