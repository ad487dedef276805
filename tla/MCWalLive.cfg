SPECIFICATION FairSpec
CONSTANTS
    Clients = {c1, c2}
    Keys = {k1, k2}
    Durability = "strict"
    MaxQueuedRequests = 1
    Acks = TRUE
    Sizes = {"fits", "huge"}
    Faults = {"write", "sync"}
    Ties = FALSE
    MaxCalls = 3
    MaxRestarts = 1
PROPERTIES
    CallsReturn
    QueuedBecomesDurable
CHECK_DEADLOCK FALSE
