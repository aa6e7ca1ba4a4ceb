SPECIFICATION Spec
CONSTANTS
  w1 = w1
  w2 = w2
  Windows = {w1, w2}
  Fullscreen = {w2}
  MaxId = 3
  Reuse = FALSE
  None = None
  MaxEvents = 2
CHECK_DEADLOCK FALSE
INVARIANTS
  PairedRight
  NoAbort
  FocusIsKnown
  CommitHasRole
PROPERTIES
  ShownAtLast
