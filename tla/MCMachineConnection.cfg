SPECIFICATION Spec
CONSTANTS
  Socks = {s1, s2, s3}
  None = None
  MaxGen = 3
  MaxAttempts = 2
  MaxBackoff = 2
  ReconnectIn = {"offline", "connecting", "online"}
  SilentAuth = TRUE
INVARIANTS
  TypeOK
  OneChain
  NeverStranded
  ClosedForGood
  OnlineIsWatched
SYMMETRY Symmetry
CHECK_DEADLOCK FALSE
