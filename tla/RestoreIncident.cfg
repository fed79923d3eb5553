\* Objects disappear, or come back by hand, between the runs.
CONSTANTS
  Acts <- SiteActs
  Plan <- SitePlan
  Attr <- FactoryAttr
  Idents <- SiteIdents
  AdditiveOnly = FALSE
  SkipClaims = FALSE
  Faults = {}
  EnvWhen = "down"
  MaxThrottle = 2
  Survivors = {}
  MaxRuns = 3
  MaxCrashes = 0
  MaxEnv = 2
SPECIFICATION Spec
INVARIANTS MappingsAgree
PROPERTIES RunRestoresAll NoFactoryDefaults OnlyDeadRowsRetired
CHECK_DEADLOCK FALSE
