\* Non-blocking mode, nothing fails: whose result does StoreQueryResult get?
CONSTANTS
  Kinds <- AllKinds
  Modes <- NonBlocking
  QueueCapacity = 1
  MaxQueries = 3
  MaxThreads = 2
  ThreadsMayFail = FALSE
  QueriesMayFail = FALSE
SPECIFICATION Spec
PROPERTIES
  ResultOfLastQuery
CHECK_DEADLOCK FALSE
