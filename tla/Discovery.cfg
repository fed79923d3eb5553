\* A sweep that is interrupted or killed, and resumed from a plain checkpoint.
CONSTANTS
  Calls <- AllCalls
  Order <- ThreeLevels
  Depth = 3
  Level <- LevelOf
  Parent <- Nested
  NoCall = "no call"
  Gzip = FALSE
  Workers = 2
  MaxThrottle = 2
  MinRate = 1
  MaxRate = 2
  Span = 1
  Pause = 1
  MaxRuns = 2
  MaxStops = 1
SPECIFICATION FairSpec
INVARIANTS TypeOK RecordsAreAnswers GraphIsComplete SuspectsSurviveResume
PROPERTIES RecordsResume SweepEnds
CHECK_DEADLOCK FALSE
