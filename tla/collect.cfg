SPECIFICATION Spec
CONSTANTS
  g1 = g1
  x = x
  y = y
  z = z
  Collectors = {g1}
  Contents = {x, y, z}
  Retention = 1
  MaxTime = 1
  MaxWrites = 4
  MaxFolds = 2
  MaxFaults = 1
SYMMETRY CollectSymmetry
CHECK_DEADLOCK FALSE
INVARIANTS
  CollectTypeOK
  ListedPresent
  RetainedRecoverable
  ContentListed
