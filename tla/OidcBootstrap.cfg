\* Two requests with every way out of the handler, over keys that are rotated.
CONSTANTS
  Request = {r1, r2}
  Post <- MCPost
  NoPost = NoPost
  Issuer = {i1}
  Kid = {k1, k2}
  Policy <- MCPolicy
  NoEntry = NoEntry
  NoHolder = NoHolder
  CacheTtl = 1
  MaxTime = 2
  MaxRotations = 1
  Outages = TRUE
  Width = 4
  Second = 2
  MaxTtl = 2
  DefaultTtl = 1
  i1 = i1
  k1 = k1
  k2 = k2
  a = a
  b = b
SPECIFICATION FairSpec
INVARIANTS
  GrantSound
  
  KeysCurrent

  
CHECK_DEADLOCK FALSE
