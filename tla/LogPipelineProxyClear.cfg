SPECIFICATION Spec
CONSTANTS
  EventEntries = {}
  ProxyEntries = {p1}
  RunEntries = {}
  MaxLogs = 2
  ChanCap = 1
  ClearButtons = {"proxy"}
  MaxClears = 1
INVARIANT
  QuietShowsStorage
CHECK_DEADLOCK FALSE
