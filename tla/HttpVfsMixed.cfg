SPECIFICATION Spec
CONSTANTS
  Pages = 4
  Capacity = 3
  PrefetchChoices = {0, 1, 2}
  MaxFaults = 2
INVARIANTS
  ReadsTheFile
