CONSTANTS
    Instances = {i1, i2}
    Clients = {c1}
    MaxEvents = 3
    History = 1
    ChannelCap = 1
    ReplayLimit = 1
    MaxUser = 1
    RecheckEvery = 2
    MaxAway = 2
    MaxFaults = 1
SPECIFICATION Spec
INVARIANTS
    Safety
    OnlyKnownGaps
PROPERTIES
    ExpiredCursorsAreTold
CHECK_DEADLOCK FALSE
