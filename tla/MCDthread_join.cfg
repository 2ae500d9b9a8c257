CONSTANTS
  NRanks = 2
  NMaxThread = 3
  MaxCalls = 4
  ApiCalls = {"CREATE", "JOIN"}
  DetachAttrs = {FALSE}
  Faults = {"decode"}
SPECIFICATION Spec
INVARIANTS
  TypeOK
  JoinOnce
  JoinValue
PROPERTIES
  FreeOnlyDead NoHandleRevived
CHECK_DEADLOCK FALSE
