CONSTANTS
  NPorts = 3
  InPorts <- FirstTwo
  HoldPorts <- FirstPort
  DmabufPorts <- FirstPort
  UnmappedPorts <- FirstPort
  Threads = {t1, t2}
  Buffers = {b1, b2}
  BlockA = A
  BlockB = B
  NULL = NULL
  MaxValue = 3
SYMMETRY CycleSymmetry
SPECIFICATION Spec
INVARIANTS
 DeliveredIsWhole
 HoldPresentsLatest
 PoolConserved
 SourceNotStarved
 StagedCycleTakesAll
PROPERTIES
 SeqCountsFresh
 PushesAreAMailbox
