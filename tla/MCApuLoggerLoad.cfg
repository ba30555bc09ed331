SPECIFICATION Spec
CONSTANTS
  Addrs = {2}
  Data = {7}
  MaxEntries = 2
  MaxTime = 0
PROPERTY LoadRestoresFrame
CHECK_DEADLOCK FALSE
