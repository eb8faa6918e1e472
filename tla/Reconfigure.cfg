CONSTANTS
  p1 = p1
  p2 = p2
  PortList <- MCPortList
  NoPort = NoPort
  MaxCalls = 0
  MaxMoves = 0
  MaxConfigs = 1
  MaxFailures = 0
  LateAnswers = FALSE
  FollowOverlap = TRUE
  AppFrees = FALSE
  Punctual = TRUE
  PromptStore = TRUE
SPECIFICATION SafeSpec
INVARIANT Alert
CHECK_DEADLOCK FALSE
