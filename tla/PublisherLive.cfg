\* Publish, the ring and Close make progress over an outage and refusals.
CONSTANTS
  Event = {e1, e2}
  Opaque = {e2}
  NoEvent = NoEvent
  Capacity = 1
  MaxConns = 2
  MaxBreaks = 1
  Closes = TRUE
  Refusals = TRUE
SPECIFICATION FairSpec
INVARIANTS
  CloseDrains
PROPERTIES
  CallsReturn
  RingDrains
CHECK_DEADLOCK FALSE
