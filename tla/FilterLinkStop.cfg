CONSTANTS
  Ports = {p1, p2}
  FedPorts = {}
  NULL = NULL
  MaxOffers = 3
SPECIFICATION Spec
INVARIANT StopReleasesLinks
CHECK_DEADLOCK FALSE
