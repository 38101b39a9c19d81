SPECIFICATION Spec
CONSTANTS
  v20 = v20
  v24 = v24
  Missing = Missing
  Garbled = Garbled
  Torn = Torn
  Values <- TwoValues
  BaseValue = v20
  ToolPatches <- SentPatches
  Repairs <- AnsweredPatches
  Overlap = FALSE
  MaxVersions = 6  MaxKills = 1
INVARIANTS ResumesOnCleanModel UnpatchedIsItsState
PROPERTIES SeriesKept
CHECK_DEADLOCK FALSE
