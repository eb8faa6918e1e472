CONSTANTS
  p1 = p1
  p2 = p2
  PortList <- MCPortList
  NoPort = NoPort
  MaxCalls = 1
  MaxMoves = 1
  MaxConfigs = 0
  MaxFailures = 1
  LateAnswers = TRUE
  FollowOverlap = FALSE
  AppFrees = FALSE
  Punctual = TRUE
  PromptStore = TRUE
SPECIFICATION Spec
INVARIANTS
  NoFault
  ReadsOpenPort
  TestingEnds
  Alert
  EventsAlternate
PROPERTIES
  DeviceFound
  DeviceLossReported
CHECK_DEADLOCK FALSE
