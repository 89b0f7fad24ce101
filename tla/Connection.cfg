SPECIFICATION FairSpec
CONSTANTS
  None = None
  Results = {r1, r2, r3}
  Callbacks = {f, g}
INVARIANTS
  TypeOK
  RefIsTheOpenResult
  HandleOutlivesStatements
  HandlerPreserved
PROPERTIES
  GivenBack
CHECK_DEADLOCK FALSE
