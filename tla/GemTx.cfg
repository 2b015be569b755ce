SPECIFICATION FairSpec
CONSTANTS
  WaitPolls = 2
  Attempts = 2
  RecoveryMax = 1
  DoneCopies = 2
  MaxCalls = 4
  MaxStalls = 2
INVARIANTS
  WireIntact
PROPERTIES
  AllCopiesOut
  ImplementsTransport
  BoundedSendsReturn
  DoneGetsThrough
CHECK_DEADLOCK FALSE
