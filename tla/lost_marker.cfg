SPECIFICATION Spec
CONSTANTS
  m1 = m1
  m2 = m2
  Maintainers = {m1}
  Sizes = {1}
  SnapshotEvery = 2
  TriggerPacks = 2
  TriggerBytes = 9
  Factor = 2
  MaxPushes = 2
  MaxFaults = 0
CHECK_DEADLOCK FALSE
INVARIANT NewerMarkerRemains
