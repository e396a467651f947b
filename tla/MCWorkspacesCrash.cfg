SPECIFICATION Spec
CONSTANTS
  Ids = {w1, w2}
  None = None
  Requests = {r1, r2}
  MaxConv = 1
  Crashes = TRUE
INVARIANTS
  NoWorkspaceLost
  RecordOrSession
PROPERTIES
  ConversationKept
CONSTRAINT NotYetDisturbed
SYMMETRY Symmetry
