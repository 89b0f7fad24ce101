SPECIFICATION Spec
CONSTANTS
  two = two
  none = none
  bad = bad
  empty = empty
  part = part
  Input <- InputValues
  BadInput = {bad}
  NoInput = empty
  Partial = part
  RowsOf <- RowCounts
  ChangesOf <- ChangeCounts
  FetchSizes <- FetchChoices
  InterruptPeriod = 2
  MaxGroups = 3
  MaxBinds = 2
  MaxFaults = 1
  MaxTaken = 20
INVARIANTS
  NoPhantomRow
CHECK_DEADLOCK FALSE
