CONSTANTS
  Modes <- BothModes
  MaxSessions = 2
  Transient = 1
  Novel = 1
  MaxInactive = 2
  MaxTarget = 4
  LastFrame = 5
  MaxBlobs = 2
  MaxProcessed = 5
  MaxVideos = 2
  MaxFaults = 1
SPECIFICATION Spec
INVARIANTS
  TypeOK
  OneTarget
  RowsLinked
  BelievedSaved
  AllSaved
CHECK_DEADLOCK FALSE
