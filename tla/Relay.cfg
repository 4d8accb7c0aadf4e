SPECIFICATION RelayFairSpec
CONSTANTS
  UpBuf = 1
  UpMax = 1
  DownBuf = 1
  DownMax = 1
INVARIANTS
  OkMeansBoth
PROPERTIES
  TwoTransfers
  FlowsAlone
  RelayEnds
CHECK_DEADLOCK FALSE
