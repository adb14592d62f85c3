CONSTANTS
  SegSize = 2
  InitCwnd = 4
  MaxCwnd = 6
  MaxSeq = 4
  Scale = 8
  G = 1
  MinRttInit = 4
  RttSamples <- MCRttSamples
  BetaValues = {4}
  TdcvValues = {1}
  TdcvDefault = 2
  UseEct0 = FALSE
  UninitValues = {0, 9}

SPECIFICATION ForkSpec

PROPERTY CutNeedsDelay
