SPECIFICATION SystemSpec
CONSTANTS
  None = None
  gemm = gemm
  sync = sync
  I32Min <- MCI32Min
  I32Max = 8
  I64Max = 20
  U8Max = 3
  U32Mod = 5
  MaxDigits = 3
  Literals <- MCLiterals
  Strings <- MCStrings
  ArgKeys <- MCArgKeys
  EnableNamePattern = TRUE
  EnableArgsDedup = TRUE
  Traces <- MCOldTraces
  Ranks <- MCRanks
  Tids <- MCTids
  Phases <- MCPhases
  GpuTids <- MCGpuTids
  MaxEvents = 4
  Later <- MCOldTraces
  OldTrace <- MCOldTrace
  OldNodes <- MCOldNodes
  OldDepth = 4
INVARIANT LaunchesRebuilt
