SPECIFICATION Spec
CONSTANTS
  None = None
  Results = {r1, r2, r3}
  Callbacks = {f, g}
INVARIANTS
  HandlerLivesAsLongAsConnection
CHECK_DEADLOCK FALSE
