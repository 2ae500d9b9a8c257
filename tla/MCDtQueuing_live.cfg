SPECIFICATION FairSpec
CONSTANTS
    a0 = a0
    a1 = a1
    AllApps = {a0, a1}
    NoApp = NoApp
    InitSlots = 1
    Roles <- MCLiveRoles
PROPERTIES
    DrainEnds
    RequestTaken
CHECK_DEADLOCK FALSE
