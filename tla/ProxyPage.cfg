SPECIFICATION PageSpec
CONSTANTS
  MaxRuns = 2
  Conns = {c1}
  Ports = {p1}
  BadPorts = {}
  NoPort = NoPort
INVARIANTS
  WrongLabelHasCause
CHECK_DEADLOCK FALSE
