SPECIFICATION Spec
CONSTANTS
  Ids = {w1}
  Clients = {c1}
  Devices = {c1, c2}
  Listings = {l1}
  Titles = {n1}
  Twins = {a1, a2}
  Sessions = {s1}
  Choices = {"idle", "working"}
  Slugs = {"main", "docs"}
  Sites = {}
  MaxPolls = 1
  Pastes = {p1, p2, p3}
\* A file over the limit only ever does what any file may do, NotSent.
  Huge = {}
  Last = 2
  Requests = {r1}
  Inodes = {i1, i2}
  Cap = 2
  MaxSize = 3
  None = None
SYMMETRY Symmetry
\* The part `uploads` stops when every file has been attached.
CHECK_DEADLOCK FALSE
INVARIANTS ListingsSettle OneBrowserViewer OrphansAreLate WholeOrMarked
PROPERTIES SweepsOnlyTheMissed AttentionKept UploadsLand
