SPECIFICATION FairTransfer
CONSTANTS
  BufSize = 2
  MaxBytes = 4
INVARIANTS
  Verbatim
  OkMeansAll
  NoUnflushedWait
  CopyInv
  OneFillCaptured
PROPERTIES
  PipeSpec
  SentIsFlushed
  ClosedSourceEnds
CHECK_DEADLOCK FALSE
