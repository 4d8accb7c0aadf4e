SPECIFICATION FairSpec
CONSTANTS
  MaxRuns = 1
  Conns = {c1}
  Ports = {p1}
  BadPorts = {}
  NoPort = NoPort
PROPERTY
  StopStops
CHECK_DEADLOCK FALSE
