SPECIFICATION Spec
CONSTANTS
  Orders = {o1, o2, o3}
  Passes = {p1, p2}
  MaxBoots = 3
  None = None
PROPERTIES
  CertificateFits
  OrderKept
SYMMETRY Symmetry
CHECK_DEADLOCK FALSE
