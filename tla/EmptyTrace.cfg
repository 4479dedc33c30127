SPECIFICATION RoundTripSpec
CONSTANTS
  MaxInt64 = 7
  Inputs <- MCNoEvents
  Stem <- MCStem
  SortedKeys <- MCSortedKeys
  KeyText <- MCKeyText
INVARIANT VerifiedIsReconstructed
CHECK_DEADLOCK FALSE
