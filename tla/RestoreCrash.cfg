\* A network with a device, killed and re-run; answers get lost, calls fail.
CONSTANTS
  Acts <- SiteActs
  Plan <- SitePlan
  Attr <- SiteAttr
  Idents <- SiteIdents
  AdditiveOnly = FALSE
  SkipClaims = FALSE
  Faults = {"duplicate", "lost", "throttle", "refuse", "error"}
  EnvWhen = "never"
  MaxThrottle = 2
  Survivors = {}
  MaxRuns = 3
  MaxCrashes = 2
  MaxEnv = 0
SPECIFICATION FairSpec
INVARIANTS TypeOK WriteAhead NoDuplicate JournalTruthful DeviceWritesAfterClaim
PROPERTIES RunEnds
CHECK_DEADLOCK FALSE
