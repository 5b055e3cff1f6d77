SPECIFICATION GSpec
CONSTANTS
  PageSize = 2
  Chunk = 3
  Initial = 6
  MaxSteps = 4
  RequestsFail = FALSE
PROPERTIES
  CardsKept
CHECK_DEADLOCK FALSE
