CONSTANTS
  p1 = p1
  p2 = p2
  ReaderCapacity = 2
  WorkerCount = 2
  Publishers = {p1}
  MaxCalls = 1
SPECIFICATION RSpec
PROPERTIES
  CallsReturn
  StopEnds
CHECK_DEADLOCK FALSE
