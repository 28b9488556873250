\* MemStore: calls race, and a crash takes the records but not the envelopes.
CONSTANTS
  Sigil = {s1}
  CapId = {c1, c2}
  Nonce = {n1, n2}
  Call = {v1, v2}
  NoEnvelope = NoEnvelope
  MaxTime = 0
  MaxCaps = 2
  MaxEnvelopes = 2
  MaxBoots = 1
  Durable = FALSE
  Faults = FALSE
SPECIFICATION Spec
SYMMETRY Symmetry
INVARIANTS
  AtMostOnce
  RaceHasWinner
