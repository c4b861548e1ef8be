SPECIFICATION FairSpec
CONSTANTS
  m1 = m1
  m2 = m2
  Maintainers = {m1, m2}
  Sizes = {1, 2}
  SnapshotEvery = 2
  TriggerPacks = 3
  TriggerBytes = 3
  Factor = 2
  MaxPushes = 2
  MaxFaults = 1
CHECK_DEADLOCK FALSE
INVARIANTS
  MaintainerTypeOK
  PushesPlanned
  TriggersServed
PROPERTIES
  ImplementsFeed
  Converges
