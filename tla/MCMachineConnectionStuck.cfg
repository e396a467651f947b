SPECIFICATION FairSpec
CONSTANTS
  Socks = {s1, s2}
  None = None
  MaxGen = 2
  MaxAttempts = 2
  MaxBackoff = 1
  ReconnectIn = {"offline"}
  SilentAuth = TRUE
PROPERTIES
  ConnectingSettles
CHECK_DEADLOCK FALSE
