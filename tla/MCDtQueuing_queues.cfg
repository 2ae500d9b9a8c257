SPECIFICATION Spec
CONSTANTS
    a0 = a0
    a1 = a1
    AllApps = {a0, a1}
    NoApp = NoApp
    InitSlots = 1
    Roles <- MCRoles
INVARIANTS
    SleepsOnlyIdle
    KidsTold
    BufferStable
    BlockedHasRequest
    MqeConserved
    DrainedMeansSent
PROPERTIES
    CompactKeepsRest
CHECK_DEADLOCK FALSE
