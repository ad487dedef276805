SPECIFICATION FairSpec
CONSTANTS
    a = a
    b = b
    r1 = r1
    r2 = r2
    Keys = {a, b}
    Rules = {r1, r2}
    EntityOf <- MCEntityOf
    Watchers <- MCWatchers
    Priority <- MCPriority
    Capacity = 2
    MaxDepth = 3
    ValueKinds = {"scalar", "compound"}
    Faults = {"trap", "flush", "persist", "oom", "cache"}
    MaxSets = 1
    MaxIngest = 2
    MaxRestarts = 1
INVARIANTS
    TypeOK
    CacheCoherent
    RunsLeaveNothing
    NoLostWakeup
PROPERTIES
    WorkDrains
CHECK_DEADLOCK FALSE
