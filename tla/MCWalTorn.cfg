SPECIFICATION Spec
CONSTANTS
    Clients = {c1, c2}
    Keys = {k1, k2}
    Durability = "strict"
    MaxQueuedRequests = 2
    Acks = TRUE
    Sizes = {"fits"}
    Faults = {"torn"}
    Ties = FALSE
    MaxCalls = 3
    MaxRestarts = 1
SYMMETRY Symmetry
INVARIANTS
    DurablePromises
CHECK_DEADLOCK FALSE
