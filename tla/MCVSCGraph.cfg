CONSTANTS
  Names <- MCNames
  Order <- MCOrder
  Classes <- MCClasses
  None <- MCNone
  Choices <- MCChoices
  Dependencies <- MCDependencies
  OfflineClasses <- MCOffline
  AssertsCompiled = FALSE
  MaxFrames = 2
  MaxCrashes = 1
SPECIFICATION Spec
INVARIANTS
  TypeOK
  DependenciesFirst
  EachOnce
  ParentsCurrent
  NotDrawnWhileRunning
PROPERTIES
  Terminates
  DisplayReturns
CHECK_DEADLOCK FALSE
