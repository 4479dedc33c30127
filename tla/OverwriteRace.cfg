SPECIFICATION Spec
CONSTANTS
  c1 = c1
  c2 = c2
  d1 = d1
  d2 = d2
  Missing = Missing
  Compressors <- MCTwoCompressors
  Decompressors <- MCDecompressors
  NumChunks = 2
  MayLosePower = FALSE
PROPERTY OverwritesRejected
CHECK_DEADLOCK FALSE
