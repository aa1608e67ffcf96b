SPECIFICATION Spec
CONSTANTS
  o1 = o1
  o2 = o2
  d1 = d1
  d2 = d2
  NULL = NULL
  OwnPorts <- StereoOwn
  DevicePorts <- StereoDevice
  OtherPorts = {x, y}
  InitialCapacity = 8
INVARIANT PairedByPosition
CHECK_DEADLOCK FALSE
