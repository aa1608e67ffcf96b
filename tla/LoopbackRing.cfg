SPECIFICATION Spec
CONSTANTS
  Capacity = 4
  Wrap = 8
  Frame = 2
  Chunks = {2, 6}
  Cycles = {2, 3, 4}
  MaxBytes = 18
INVARIANTS
  CellsNotShared
  BytesAccounted
  ChannelsStayInPlace
PROPERTIES
  RingIsAFifo
