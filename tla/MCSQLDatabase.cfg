\* Threads and queries may fail; two sessions, in either mode.
CONSTANTS
  Kinds <- AllKinds
  Modes <- BothModes
  QueueCapacity = 1
  MaxQueries = 3
  MaxThreads = 2
  ThreadsMayFail = TRUE
  QueriesMayFail = TRUE
SPECIFICATION Spec
INVARIANTS
  TypeOK
  NothingLost
  NeverOvertakes
  OnlyLastPending
PROPERTIES
  CallsReturn
  QueriesRun
CHECK_DEADLOCK FALSE
