\* What the comment of orchestrator.py says of modified objects.
SPECIFICATION Spec
CONSTANTS
  scheduled = scheduled
  operator = operator
  nobody = nobody
  net = net
  vlan = vlan
  ssid = ssid
  refused = refused
  Runs <- Both
  Nobody <- nobody
  Objs <- AllObjects
  Rejected <- OnlyRefused
  MayBeRejected <- OnlyNet
  Phantom <- OnlyNet
  MaxVersion = 2
  Invocations <- InvocationsOf
  Edits <- EditsOf
  MayBeOrphans <- OnlySsid
  MayBeUnreadable <- OnlyVlan
  MaxHealRounds = 1
  MaxDeferRounds = 1
  MaxPlanAttempts = 4
  ChunkSize = 2
  MaxEdits = 2
  MaxFaults = 1
INVARIANT
  HealReimports
