SPECIFICATION Spec
CONSTANTS
  Pages = 4
  Capacity = 3
  PrefetchChoices = {0, 1, 2, 3}
  MaxFaults = 2
INVARIANTS
  TypeOK
  CacheIsTheFile
  ShortPrefetchIsSafe
  SteadyServerIsRead
  FallbackAsConfigured
  SizeIsKnown
