SPECIFICATION FairSpec
CONSTANTS
  EventEntries = {e1}
  ProxyEntries = {p1, p2, p3}
  RunEntries = {p3}
  MaxLogs = 2
  ChanCap = 1
  ClearButtons = {"event", "proxy"}
  MaxClears = 1
INVARIANTS
  StorageIsTail
  ViewConverges
PROPERTIES
  ViewsKeepOrder
  EveryEntryLands
  FreshIsShown
CHECK_DEADLOCK FALSE
