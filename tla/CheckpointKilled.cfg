\* A compressed checkpoint, killed twice.
CONSTANTS
  Calls <- AllCalls
  Order <- ThreeLevels
  Depth = 3
  Level <- LevelOf
  Parent <- Nested
  NoCall = "no call"
  Gzip = TRUE
  Workers = 1
  MaxThrottle = 1
  MinRate = 1
  MaxRate = 1
  Span = 1
  Pause = 1
  MaxRuns = 3
  MaxStops = 2
SPECIFICATION Spec
PROPERTIES RecordsResume
CHECK_DEADLOCK FALSE
