CONSTANTS
  film = film
  clip = clip
  Videos <- MCVideos
  LastFrame = 2
  AssertsCompiled = TRUE
  MaxItems = 4
  MaxMetas = 3
  MaxStarts = 3
SPECIFICATION Spec
INVARIANT
  FoundAgain
CHECK_DEADLOCK FALSE
