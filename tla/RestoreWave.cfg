\* A drill, with every answer the dashboard may give.
CONSTANTS
  Acts <- WaveActs
  Plan <- WavePlan
  Attr <- WaveAttr
  Idents <- WaveIdents
  AdditiveOnly = FALSE
  SkipClaims = TRUE
  Faults = {"throttle", "refuse", "skip", "error", "noid"}
  EnvWhen = "never"
  MaxThrottle = 2
  Survivors = {}
  MaxRuns = 1
  MaxCrashes = 0
  MaxEnv = 0
SPECIFICATION Spec
INVARIANTS NothingForgotten DrillVerdictsPropagate
PROPERTIES LinkSurvives
CHECK_DEADLOCK FALSE
