\* Two-bit words: every difference and product of two values may wrap.
SPECIFICATION Spec
CONSTANTS
  I64Max = 1
  U32Mod = 8
  Inputs <- MCInputs
INVARIANTS
  TypeOK
  Lossless
  GetAgrees
PROPERTIES
  Ends
CHECK_DEADLOCK FALSE
