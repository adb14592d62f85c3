CONSTANTS
  SegSize = 2
  InitCwnd = 4
  MaxCwnd = 6
  MaxSeq = 4
  Scale = 8
  G = 1
  MinRttInit = 4
  RttSamples <- MCRttSamples
  AlphaValues = {4}
  BetaValues = {4}
  TdcvValues = {1}
  TdcvDefault = 2
  UseEct0 = TRUE

SPECIFICATION FairSpec

PROPERTY EcnReductionKept
