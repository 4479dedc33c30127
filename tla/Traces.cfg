SPECIFICATION TracesSpec
CONSTANTS
  MaxInt64 = 7
  Directories <- MCAll
  Inputs <- MCInputs
  Stem <- MCStem
  SortedKeys <- MCSortedKeys
  KeyText <- MCKeyText
INVARIANTS
  TypeOK
  SameAsFullTree
  SerdeMirrorsSimd
  
  OwnRankIsKept
  LastOfRankIsWhole
  RoundTripTypeOK
  ChainCloses
  TimesAreInputTimes
  VerdictIsRight
  EveryEventCounted
CHECK_DEADLOCK FALSE
