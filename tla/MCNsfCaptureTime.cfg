SPECIFICATION Spec
CONSTANTS
  Addrs = {2}
  Data = {7}
  PlayPeriod = 9
  Divisor = 2
  Duration = 7
  MaxCost = 2
  MaxSlide = 2
  MaxBuffers = 4
  MaxWrites = 1
PROPERTY TimeIsRelativeToFrame
CHECK_DEADLOCK FALSE
