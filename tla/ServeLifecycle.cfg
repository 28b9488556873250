\* Two requests, two lives of the process, a key rotated at any time.
CONSTANTS
  Req = {r1, r2}
  Sigil = {s1}
  Key = {k1, k2}
  None = None
  Background = Background
  Secret = TRUE
  Oidc = TRUE
  MaxBoots = 2
  MaxKills = 1
SPECIFICATION FairSpec
INVARIANTS
  RevokeTruthful
  ResourcesOutliveHandlers
  PublishedKeySigns
PROPERTIES
  
  SignalStops
CHECK_DEADLOCK FALSE
