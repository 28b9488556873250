\* PgStore: lost answers, failed queries and a crash, while tokens expire.
CONSTANTS
  Sigil = {s1}
  CapId = {c1}
  Nonce = {n1}
  Call = {v1, v2}
  NoEnvelope = NoEnvelope
  MaxTime = 1
  MaxCaps = 2
  MaxEnvelopes = 1
  MaxBoots = 1
  Durable = TRUE
  Faults = TRUE
SPECIFICATION Spec
SYMMETRY Symmetry
INVARIANTS
  TypeOK
  AtMostOnce
  RevocationHonoured
  NoncesAccounted
  
  ExpiryHonoured

  
