CONSTANTS
  NPorts = 2
  InPorts <- FirstPort
  UnmappedPorts <- FirstPort
  Threads = {t1, t2}
  Buffers = {b1}
  ArrayA = A
  ArrayB = B
  NULL = NULL
  Sequence0 = 1
  Sizes <- EventSizes
  Capacities <- BufferSizes
  GraphSequences <- OneSequence
  MaxEvents = 3
SPECIFICATION FairSpec
INVARIANTS
  PayloadsOwnedOnce
  IncomingAlive
  AcceptedFits
  EventPoolConserved
PROPERTIES
  PublishesAccepted
  EventsAreAQueue
  EventDelivered
  CycleCompletes
