SPECIFICATION Spec
CONSTANTS
  None = None
  Conns = {c1, c2}
  Creds = {k1, k2, k3, k4, k5, k6, k7}
  Ids = {d1, d2, d3, d4, d5}
SYMMETRY Symmetry
INVARIANTS
  TypeOK
  ActiveIsPublished
  AttachedToItsDesktop
  
