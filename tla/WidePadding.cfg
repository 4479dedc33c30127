SPECIFICATION Spec
CONSTANTS
  None = None
  I32Min <- MCI32Min
  I32Max = 3
  I64Max = 50
  U8Max = 3
  U32Mod = 5
  MaxDigits = 3
  Ints <- MCInts
  Texts <- MCTexts
  Jsons <- MCJsons
  RowSets <- MCWideRowSets
  MaxLog = 4
  MaxOther = 2
INVARIANT PaddingPreserved
