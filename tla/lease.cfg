SPECIFICATION LeaseSpec
CONSTANTS
  p1 = p1
  p2 = p2
  p3 = p3
  Holders = {p1, p2, p3}
  Offset <- Clocks
  Ttl = 2
  Tolerance = 1
  MaxTime = 4
  MaxWrites = 3
  Nobody = Nobody
CHECK_DEADLOCK FALSE
SYMMETRY SameClock
INVARIANTS
  LeaseTypeOK
  OneHolder
PROPERTIES
  NotRippedAway
