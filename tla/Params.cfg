SPECIFICATION Spec
CONSTANTS
  Tokens <- TokenChoices
  NumberOf <- Numerals
  ParamNames = {"a", "b"}
  MaxTokens = 3
  MaxParams = 3
  Lengths = {0, 2}
INVARIANTS
  EachPlaceholderGetsItsValue
  AcceptedIffComplete
  RunsOnce
CHECK_DEADLOCK FALSE
