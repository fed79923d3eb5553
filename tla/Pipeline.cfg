\* A scheduled sync run and an operator's runs on one work directory.
SPECIFICATION FairSpec
CONSTANTS
  scheduled = scheduled
  operator = operator
  nobody = nobody
  net = net
  vlan = vlan
  ssid = ssid
  refused = refused
  Runs <- Both
  Nobody <- nobody
  Objs <- AllObjects
  Rejected <- OnlyRefused
  MayBeRejected <- OnlyNet
  Phantom <- OnlyNet
  MaxVersion = 2
  Invocations <- InvocationsOf
  Edits <- EditsOf
  MayBeOrphans <- OnlySsid
  MayBeUnreadable <- OnlyVlan
  MaxHealRounds = 1
  MaxDeferRounds = 1
  MaxPlanAttempts = 4
  ChunkSize = 2
  MaxEdits = 2
  MaxFaults = 1
INVARIANTS
  TypeOK
  Exclusive
  ApplySafe
  CoverageIsHonest
  PendingIsReported
PROPERTIES
  RemovedWasReviewed
  RunEnds
  EveryObjectIsBanked
