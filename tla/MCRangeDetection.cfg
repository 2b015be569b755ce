SPECIFICATION FairSpec
CONSTANTS
  HalfSize = 18
  DcSkip = 1
  Guard = 1
  Train = 1
  OsK = 1
  ThreshQ8 = 768
  NoiseWin = 6
  NoiseMedianK = 2
  MaxPeaks = 3
  MergeBins = 1
  MinSnrQ8 = 512
  MinWidth = 2
  MaxWidth = 4
  Word = 16384
  Spectra <- MCSpectra
  ScanTotal = 2
  PhysicsNear = 3
  CouplingBins = 3
  Decay = 100
  BoundaryMargin = 2
  BoundaryMax = 6
  BaseNear = 2
  BaseFar = 4
  MinRatioQ8 = 768
  NearRadius = 1
  ConfirmHits = 2
INVARIANTS
  PeaksReal
  LocalPeaksSurvive
  TargetOfThisScan
  TargetStandsOut
  NothingFromNearField
  OneHitPerFrame
PROPERTIES
  ScanEnds
CHECK_DEADLOCK FALSE
