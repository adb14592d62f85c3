CONSTANTS
  SegSize = 2
  InitCwnd = 4
  MaxCwnd = 6
  MaxSeq = 4
  Scale = 8
  G = 1
  MinRttInit = 4
  RttSamples <- MCRttSamples
  BetaValues = {4}
  TdcvValues = {1}
  TdcvDefault = 2
  UseEct0 = FALSE

SPECIFICATION FairSpec

INVARIANTS
  TypeOK
  BetaBounded

PROPERTIES
  RttCutJustified
  WindowEventuallyCloses
  ImplementsCongestionEstimator
