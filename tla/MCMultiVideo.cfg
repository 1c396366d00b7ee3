\* Every list of up to three videos, with and without a start and an end time.
CONSTANTS
  Lists <- MCLists
  Start <- MCStart
  Times <- MCTimes
  MaxFrame = 6
SPECIFICATION Spec
INVARIANTS
  TypeOK
  PositionKept
PROPERTIES
  NothingSkipped
  VideoContract
CHECK_DEADLOCK FALSE
