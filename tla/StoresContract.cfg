\* Every order of calls on the three stores.
CONSTANTS
  Sigil = {s1, s2}
  Cap = {c1}
  Nonce = {n1, n2}
  Owner <- MCOwner
  Value = {old, new}
  Operator = Operator
  None = None
  MaxRevokes = 2
  s1 = s1
  s2 = s2
  c1 = c1
SPECIFICATION Spec
INVARIANTS
  
  RevokeSticks
  OneConsumer
