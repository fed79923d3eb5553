\* A heal of one of two networks that carry the same IDs and share a profile.
CONSTANTS
  Acts <- TwinActs
  Plan <- TwinPlan
  Attr <- TwinAttr
  Idents <- TwinIdents
  AdditiveOnly = TRUE
  SkipClaims = FALSE
  Faults = {"throttle", "refuse", "read"}
  EnvWhen = "down"
  MaxThrottle = 2
  Survivors = {"east", "eastPolicy"}
  MaxRuns = 1
  MaxCrashes = 0
  MaxEnv = 1
SPECIFICATION Spec
INVARIANTS MappingStaysInScope ReferenceStaysInScope SharedOnce
PROPERTIES HealIsAdditive
CHECK_DEADLOCK FALSE
