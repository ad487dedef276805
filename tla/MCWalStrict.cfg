SPECIFICATION Spec
CONSTANTS
    Clients = {c1, c2}
    Keys = {k1, k2}
    Durability = "strict"
    MaxQueuedRequests = 2
    Acks = FALSE
    Sizes = {"fits", "wide"}
    Faults = {"write", "torn", "sync", "oom"}
    Ties = FALSE
    MaxCalls = 3
    MaxRestarts = 1
SYMMETRY Symmetry
INVARIANTS
    TypeOK
    ReplayAgreement
    RecoveredIsPrefix
    DurablePromises
    PromisesSynced
    DurableFactsStayLive
    FailedGroupLeavesNoFact
    PendingIdsIncrease
    WaitersAreHeld
PROPERTIES
    ImplementsDurableLog
CHECK_DEADLOCK FALSE
