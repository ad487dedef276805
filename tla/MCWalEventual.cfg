SPECIFICATION Spec
CONSTANTS
    Clients = {c1, c2}
    Keys = {k1, k2}
    Durability = "eventual"
    MaxQueuedRequests = 2
    Acks = TRUE
    Sizes = {"fits", "huge"}
    Faults = {"write", "torn", "sync", "oom"}
    Ties = TRUE
    MaxCalls = 3
    MaxRestarts = 1
SYMMETRY Symmetry
INVARIANTS
    ReplayAgreement
    RecoveredIsPrefix
    PendingHasFact
    ShutdownDrains
CHECK_DEADLOCK FALSE
