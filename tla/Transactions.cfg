SPECIFICATION Spec
CONSTANTS
  Rows = {"row1", "row2"}
  OldRow = "old"
  UserNames = {"a"}
  MaxDepth = 1
  MaxFaults = 2
  MaxOthers = 1
INVARIANTS
  TypeOK
  AllOrNothing
  FoundStaysTrue
  FailedCallIsNotDurable
PROPERTIES
  RefinesStore
