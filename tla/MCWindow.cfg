CONSTANTS
  FrameCount = 1
  FrameRate = 1
  FrameSteps <- MCFrameSteps
  MaxBeyond = 1
  MaxRuns = 2
SPECIFICATION Spec
INVARIANTS
  TypeOK
  NoRebuildWhileParsing
  OneParsing
  StopHonoured
PROPERTIES
  EndedByStop
  GuiReturns
  RequestTaken
CHECK_DEADLOCK FALSE
