SPECIFICATION FairSpec
CONSTANTS
  WSize = 3
  Sources <- MCSources
  NAddr = 2
  Readers = {1, 2}
  MaxRetries = 2
  AppBytes = 8
  PageLen = 2
  GtabLen = 2
  Faults = {"map", "remap", "setup"}
INVARIANTS
  MappedAlike
  TablesShared
  
  PointersTravel
  DefaultAgrees

  
CHECK_DEADLOCK FALSE
