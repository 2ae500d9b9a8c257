CONSTANTS
  NRanks = 2
  NMaxThread = 2
  MaxCalls = 4
  ApiCalls = {"CREATE", "DETACH", "CANCEL", "JOIN"}
  DetachAttrs = {FALSE}
  Faults = {"pthread_create", "req_alloc"}
SPECIFICATION Spec
INVARIANTS
  JoinWaitHasFuture
  LtabGtabAgree
  
  UnhookedBeforeTerminated
  ThreadInv
  OneAnswerPerCall
  CountersAgree
PROPERTIES
  ThreadLives
CHECK_DEADLOCK FALSE
