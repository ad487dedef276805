SPECIFICATION Spec
CONSTANTS
    n1 = n1
    n2 = n2
    Namespaces = {n1}
    ModuleNames = {"app", "app2"}
    Keys = {"k"}
    Values = {"v"}
    Modules <- Reordered
    MaxCalls = 0
    MaxDeploys = 2
    MaxPayloads = 1
    MaxRestarts = 0
INVARIANTS
    FactsKeepMeaning
CHECK_DEADLOCK FALSE
