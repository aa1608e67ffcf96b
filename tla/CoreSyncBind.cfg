SPECIFICATION Spec
CONSTANTS
  Nodes = {n1, n2}
  Offers <- Sources
  OutLen = 2
  MaxRates = 2
  NULL = NULL
  MaxSyncs = 4
  MaxErrors = 1
INVARIANT BindPopulates
CHECK_DEADLOCK FALSE
