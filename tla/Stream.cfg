SPECIFICATION Spec
SYMMETRY Symmetry
CONSTANTS
  Buffers = {b1, b2}
  NULL = NULL
  FrameSize = 2
  RegionSize = 3
  Requests = {0, 1, 2}
  LogInterval = 1
  MaxClock = 2
  MaxCycles = 3
INVARIANTS
  ReportsAreLosses
  
  BuffersReturned
  LogsAreAccounted
PROPERTIES
  DrainedMeansPlayed
  KeepsPromise
CHECK_DEADLOCK FALSE
