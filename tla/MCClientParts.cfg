SPECIFICATION Spec
CONSTANTS
  Machines = {m1, m2}
  m1 = m1
  d1 = d1
  d2 = d2
  Ones = {o1}
  Twins = {a1, a2}
  Files = {f1, f2, f3}
  Huge = {f3}
  Pointers = {p1}
  Keys = {"del", "enter"}
  Repeating = {"del"}
  Editing = {"del"}
  MaxFires = 2
  Notch = 3
  Span = 7
  Letters = {"a", "b"}
  Space = "_"
  MaxLine = 3
  Takes = {t1, t2, t3}
  MaxRefocus = 2
  None = None
SYMMETRY Symmetry
\* The parts `create` and `dictation` stop when their ids and recordings are used up.
CHECK_DEADLOCK FALSE
INVARIANTS KeepsThePick FileViewsSound EventsSurvive ShareSurvives TerminalFollowsAgent KeysCount InStep MicIsReleased
PROPERTIES CreateKeepsItsWord HomeHolds
