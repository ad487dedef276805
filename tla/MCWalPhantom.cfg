SPECIFICATION Spec
CONSTANTS
    Clients = {c1, c2}
    Keys = {k1, k2}
    Durability = "strict"
    MaxQueuedRequests = 2
    Acks = TRUE
    Sizes = {"fits"}
    Faults = {"write"}
    Ties = FALSE
    MaxCalls = 3
    MaxRestarts = 0
SYMMETRY Symmetry
INVARIANTS
    PendingHasFact
CHECK_DEADLOCK FALSE
