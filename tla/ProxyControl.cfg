SPECIFICATION CooperativeSpec
CONSTANTS
  MaxRuns = 3
  Conns = {c1, c2}
  Ports = {p1, p2}
  BadPorts = {p2}
  NoPort = NoPort
INVARIANTS
  NoSessionCut
  NoUnaskedShutdown
  ControlInv
PROPERTIES
  StopReachesLatest
  ServiceSpec
  SignalledRunExits
  QueuedClientAnswered
CHECK_DEADLOCK FALSE
