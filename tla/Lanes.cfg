SPECIFICATION LanesSpec
CONSTANTS
  a = a
  b = b
  Addresses = {a, b}
  NoPort = 0
  Flows <- MCFlows
  Packets <- MCPackets
  Window = 2
  HistorySpan = 2
  Idle = 1
  Active = 2
  MaxFlows = 3
  MaxLate = 1
  MaxTime = 3
  MaxEvents = 4
  MaxFrames = 4
  Resets = 1
INVARIANTS
  EventsOnce
  WindowTimes
  GraphAccounts
  WindowExact
  CaptureExact
CHECK_DEADLOCK FALSE
