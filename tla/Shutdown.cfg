CONSTANTS
  p1 = p1
  p2 = p2
  PortList <- MCOnePort
  NoPort = NoPort
  MaxCalls = 0
  MaxMoves = 1
  MaxConfigs = 0
  MaxFailures = 1
  LateAnswers = FALSE
  FollowOverlap = FALSE
  AppFrees = TRUE
  Punctual = TRUE
  PromptStore = TRUE
SPECIFICATION Spec
INVARIANT FreedClean
PROPERTY FreeReturns
CHECK_DEADLOCK FALSE
