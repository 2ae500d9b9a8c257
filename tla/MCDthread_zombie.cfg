CONSTANTS
  NRanks = 2
  NMaxThread = 2
  MaxCalls = 2
  ApiCalls = {"CREATE", "DETACH"}
  DetachAttrs = {FALSE}
  Faults = {}
SPECIFICATION Spec
INVARIANTS
  DetachedIsReleased
CHECK_DEADLOCK FALSE
