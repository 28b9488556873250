\* Five failures of two clients over three windows, recorded out of order.
CONSTANTS
  Handler = {h1, h2, h3, h4, h5}
  Client = {c1, c2}
  Threshold = 2
  Window = 2
  MaxTime = 6
  MaxLag = 1
SPECIFICATION Spec
SYMMETRY Symmetry
INVARIANTS
  
  AlertBacked
  
CHECK_DEADLOCK FALSE
