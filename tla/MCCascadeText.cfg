SPECIFICATION Spec
CONSTANTS
    a = a
    b = b
    r1 = r1
    r2 = r2
    Keys = {a, b}
    Rules = {r1, r2}
    EntityOf <- MCEntityOf
    Watchers <- MCWatchers
    Priority <- MCPriority
    Capacity = 2
    MaxDepth = 3
    ValueKinds = {"string"}
    Faults = {}
    MaxSets = 1
    MaxIngest = 1
    MaxRestarts = 0
INVARIANTS
    CacheCoherent
CHECK_DEADLOCK FALSE
