SPECIFICATION Spec
CONSTANTS
  Ids = {w1, w2}
  Conns = {c1, c2, c3}
  Ptys = {p1, p2, p3}
  None = None
INVARIANTS
  OneViewer
  ClientKnows
  NoStrayPty
PROPERTIES
  ImplementsLock
SYMMETRY Symmetry
CHECK_DEADLOCK FALSE
