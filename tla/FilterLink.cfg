CONSTANTS
  Ports = {p1, p2}
  FedPorts = {p1}
  NULL = NULL
  MaxOffers = 3
SPECIFICATION Spec
INVARIANTS
  NoPartialLink
  DestroyedIsQuiet
PROPERTIES
  ReportedOncePerSource
  LossIsReported
  CallsReturn
CHECK_DEADLOCK FALSE
