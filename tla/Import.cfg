SPECIFICATION Spec
CONSTANTS
  Tokens = {"a", ";", "CR", "LF", "NA"}
  Dialects <- SmallDialects
  Skips = {0, 1}
  ColumnCounts = {1, 2}
  Leftovers <- NothingOrText
  MaxFile = 6
INVARIANTS
  RowsSpellTheirLines
  LinesFollow
  SuccessIsComplete
CHECK_DEADLOCK FALSE
