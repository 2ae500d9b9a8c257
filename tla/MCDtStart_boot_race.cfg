SPECIFICATION Spec
CONSTANTS
  WSize = 2
  Sources <- MCPlainSource
  NAddr = 2
  Readers = {}
  MaxRetries = 2
  AppBytes = 6
  PageLen = 2
  GtabLen = 2
  Faults = {}
INVARIANTS
  BootBeforeApp
CHECK_DEADLOCK FALSE
