CONSTANTS
  w1 = w1
  w2 = w2
  canceler = canceler
  connected = connected
  disconnected = disconnected
  Workers <- MCWorkers
  Canceler <- canceler
  Event <- MCEvent
  Disconnected <- disconnected
  NoEvent = NoEvent
  Nobody = Nobody
  Poller = Poller
  MaxEvents = 1
SPECIFICATION SafeSpec
INVARIANT FreedUnused
CHECK_DEADLOCK FALSE
