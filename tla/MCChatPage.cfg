CONSTANTS
  MaxTurns = 3
  MaxTokens = 2
  Breaks = {"between"}
  MaxClears = 1
  MaxLoads = 2
  MaxReloads = 1
SPECIFICATION Spec
INVARIANTS
  TypeOK
  OneAtATime
  TimersAreCurrent
  ReplyFollowsQuestion
  ReplyIsWhole
PROPERTIES
  SendEnds
  ImplementsConversation
CHECK_DEADLOCK FALSE
