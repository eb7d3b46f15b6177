CONSTANTS
  MaxTurns = 2
  MaxTokens = 2
  Breaks = {"within"}
  MaxClears = 0
  MaxLoads = 1
  MaxReloads = 0
SPECIFICATION Spec
INVARIANTS
  ReplyIsWhole
CHECK_DEADLOCK FALSE
