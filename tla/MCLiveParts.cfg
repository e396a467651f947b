SPECIFICATION LiveSpec
CONSTANTS
  Ids = {w1}
  Clients = {c1}
  Listings = {l1}
  Names = {n1, n2}
  Machines = {m1, m2}
  m1 = m1
  d1 = d1
  d2 = d2
  MaxRefocus = 2
  Takes = {t1, t2, t3}
  None = None
\* The parts `dictation` and `screen` stop when their recordings and frames are used up.
CHECK_DEADLOCK FALSE
PROPERTIES NewsArrives SpinnerEnds TranscribingEnds FramesSettle
