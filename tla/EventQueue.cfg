CONSTANTS
  w1 = w1
  w2 = w2
  canceler = canceler
  connected = connected
  disconnected = disconnected
  Workers <- MCWorkers
  Canceler <- canceler
  Event <- MCEvent
  Disconnected <- disconnected
  NoEvent = NoEvent
  Nobody = Nobody
  Poller = Poller
  MaxEvents = 2
SPECIFICATION Spec
INVARIANTS
  TypeOK
  PopFindsEvent
  NoLostWakeup
  NothingLost
PROPERTIES
  ImplementsChannel
  CancelEndsPolling
  AllDelivered
\* The instance ends when it is freed.
CHECK_DEADLOCK FALSE
