SPECIFICATION FairSpec
CONSTANTS
  b1 = b1
  b2 = b2
  Bridges = {b1, b2}
  MaxHead = 2
  MaxFailures = 1
INVARIANTS
  EventsTypeOK
  WindowDelivered
  DeliveredInOrder
PROPERTIES
  EventuallyPublished
