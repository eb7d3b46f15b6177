CONSTANTS
  MaxTurns = 2
  MaxTokens = 1
  Breaks = {}
  MaxClears = 1
  MaxLoads = 1
  MaxReloads = 0
SPECIFICATION Spec
INVARIANTS
  StaysCleared
CHECK_DEADLOCK FALSE
