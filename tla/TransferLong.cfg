SPECIFICATION TransferSpec
CONSTANTS
  BufSize = 2
  MaxBytes = 3
INVARIANT
  LongStreamsEnd
CHECK_DEADLOCK FALSE
