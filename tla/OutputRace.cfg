SPECIFICATION Spec

CONSTANTS
  c1 = c1
  c2 = c2
  d1 = d1
  d2 = d2
  Missing = Missing
  Compressors <- MCTwoCompressors
  Decompressors <- MCOneDecompressor
  NumChunks = 2
  MayLosePower = TRUE

INVARIANTS
  TypeOK
  TempsRemoved
  SuccessIsThere

PROPERTIES
  WrittenOnce
  CompressorsYield

CHECK_DEADLOCK FALSE
