\* Two processes at once, any number of commands, two keys.
CONSTANTS
  Proc = {p1, p2}
  Sigil = {s1}
  Cap = {c1}
  Carried = {{c1}}
  Key = {k1, k2}
  None = None
  Absent = Absent
  Torn = Torn
SPECIFICATION Spec
SYMMETRY MCSymmetry
INVARIANTS
  KeyWhole
PROPERTIES
  OverwriteExplained
  VerifyHonest
