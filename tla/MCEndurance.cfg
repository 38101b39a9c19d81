SPECIFICATION FairSpec
CONSTANTS
  NoFile = NoFile
  Runs <- TwoRuns
  MaxKills = 3  MaxFaults = 2
INVARIANTS CountedChunksOnRecord OneChunkPerStop
PROPERTIES ProgressKept Completes
CHECK_DEADLOCK FALSE
