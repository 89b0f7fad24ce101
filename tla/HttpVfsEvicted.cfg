SPECIFICATION Spec
CONSTANTS
  Pages = 4
  Capacity = 2
  PrefetchChoices = {0, 1, 2}
  MaxFaults = 0
INVARIANTS
  PageOutStays
