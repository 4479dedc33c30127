SPECIFICATION RoundTripSpec
CONSTANTS
  MaxInt64 = 7
  Inputs <- MCCategories
  Stem <- MCStem
  SortedKeys <- MCSortedKeys
  KeyText <- MCKeyText
INVARIANT EverythingElseMatches
CHECK_DEADLOCK FALSE
