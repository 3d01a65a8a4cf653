SPECIFICATION Spec
CONSTANTS
  Scenarios <- MCScenarios
  Sz <- MCSz
  WbAlign = 4
  KeyAlign = 2
  VersionMax = 3
PROPERTIES
    BufferShared
    KernelEarned
CHECK_DEADLOCK FALSE
