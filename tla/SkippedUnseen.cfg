SPECIFICATION Spec
CONSTANTS
  Sessions <- SkipSessions
  NoLine = NoLine
  Channels = {"mail", "pagerduty"}
  Networks = {"n1"}
  Templates = {"t1"}
  Admins = {"me", "other"}
  Devices = {"d1"}
  Caller = "me"
  OrgDeleteAttempts = 2
  MaxClaims = 2
  Tears = {"torn", "bare"}
  Objects <- MCObjects
  Hardware = {"stack"}
  Organizations = {"prod", "spare"}
  Populated = {"prod"}
  Assets <- MCAssets
  SourceNetworks <- MCSourceNetworks
  TemplateBound = {"N1"}
  Source = "prod"
  ReplayTargets = {"prod", "lab"}
  MaxCopies = 2
  Snapshot <- MCSnapshot
  HealWorlds <- MCHealWorlds
  Selectors <- MCSelectors
INVARIANTS
  CleanMeansDone
CHECK_DEADLOCK FALSE
