CONSTANTS
  p1 = p1
  p2 = p2
  PortList <- MCOnePort
  NoPort = NoPort
  MaxCalls = 0
  MaxMoves = 0
  MaxConfigs = 1
  MaxFailures = 1
  LateAnswers = TRUE
  FollowOverlap = TRUE
  AppFrees = TRUE
  Punctual = TRUE
  PromptStore = FALSE
SPECIFICATION SafeSpec
INVARIANTS
  TypeOK
  AbandonEnds
CHECK_DEADLOCK FALSE
