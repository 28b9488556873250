\* Two calls, a ring of one, an outage, refusals.
CONSTANTS
  Event = {e1, e2}
  Opaque = {}
  NoEvent = NoEvent
  Capacity = 1
  MaxConns = 2
  MaxBreaks = 1
  Closes = FALSE
  Refusals = TRUE
SPECIFICATION Spec
SYMMETRY Symmetry
INVARIANTS
  EveryEventAccounted
  DuplicateOnlyAfterDoubt

  
