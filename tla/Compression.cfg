SPECIFICATION SystemSpec
CONSTANTS
  None = None
  gemm = gemm
  sync = sync
  I32Min <- MCI32Min
  I32Max = 8
  I64Max = 20
  U8Max = 3
  U32Mod = 5
  MaxDigits = 3
  Literals <- MCLiterals
  Strings <- MCStrings
  ArgKeys <- MCArgKeys
  EnableNamePattern = TRUE
  EnableArgsDedup = TRUE
  Traces <- MCTraces
  Ranks <- MCRanks
  Tids <- MCTids
  Phases <- MCPhases
  GpuTids <- MCGpuTids
  MaxEvents = 4
  Later <- MCLater
  OldTrace <- MCOldTrace
  OldNodes <- MCOldNodes
  OldDepth = 4
INVARIANTS
  TypeOK
  IndexCoherent
  Lossless
  EachInstanceOnce
  ColumnsAligned
  AnalysesAgree
  EventsRebuilt
PROPERTIES
  NoAppendAfterFinalize
  CallsReturn
  ImplementsArchive
