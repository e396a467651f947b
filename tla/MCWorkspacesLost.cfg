SPECIFICATION Spec
CONSTANTS
  Ids = {w1, w2}
  None = None
  Requests = {r1, r2}
  MaxConv = 1
  Crashes = FALSE
INVARIANT ParkKeepsListed
SYMMETRY Symmetry
