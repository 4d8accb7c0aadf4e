SPECIFICATION ShellSpec
CONSTANTS
  TITLE_BAR_HEIGHT = 0
  Height = 2
  Screen = {0, 1, 2}
  Reach = 1
  MaxQueue = 2
  EventLog = EventLog
  OtherTabs = {t1, t2, t3}
SYMMETRY MCTabsAlike
INVARIANTS
  ActiveIsShown
  NoDoubleTab
  GrabFollows
  NoStrayDrag
PROPERTIES
  OthersKeepPlace
CHECK_DEADLOCK FALSE
