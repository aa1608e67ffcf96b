SPECIFICATION Spec
CONSTANTS
  o1 = o1
  o2 = o2
  d1 = d1
  d2 = d2
  NULL = NULL
  OwnPorts <- StereoOwn
  DevicePorts <- StereoDevice
  OtherPorts = {}
  InitialCapacity = 3
INVARIANT NoneLeftBehind
CHECK_DEADLOCK FALSE
