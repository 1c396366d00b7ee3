CONSTANTS
  FrameCount = 2
  FrameRate = 2
  FrameSteps <- MCFrameSteps
  MaxBeyond = 2
  MaxRuns = 2
SPECIFICATION Spec
INVARIANTS
  LoadsAlone
CHECK_DEADLOCK FALSE
