SPECIFICATION FairSpec
CONSTANTS
  Total = 2
  MaxFrames = 3
  ScanIds = 2
  MinValid = 60
INVARIANTS
  ResultsFresh
  OneBehind
  StoresAgree
PROPERTY RecoversFromStall
