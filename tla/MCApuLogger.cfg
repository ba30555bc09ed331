SPECIFICATION RecordingSpec
CONSTANTS
  Addrs = {2, 20}
  Data = {7}
  MaxEntries = 4
  MaxTime = 1
INVARIANT WritesFiledUnderFrame
CHECK_DEADLOCK FALSE
