SPECIFICATION Spec
CONSTANTS
  Ids = {w1, w2}
  Conns = {c1, c2}
  Ptys = {p1, p2, p3}
  None = None
INVARIANT ClosedHoldsNothing
SYMMETRY Symmetry
CHECK_DEADLOCK FALSE
