CONSTANTS
  NRanks = 4
  NMaxThread = 2
  MaxCalls = 2
  ApiCalls = {"CREATE", "DETACH", "CANCEL", "JOIN"}
  DetachAttrs = {FALSE}
  Faults = {"decode", "encode"}
SPECIFICATION FairSpec
INVARIANTS
  IdleMeansIdle
  ShutdownOnce
PROPERTIES
  CallsReturn
  EveryRankExits
CHECK_DEADLOCK FALSE
