SPECIFICATION FairSpec
CONSTANTS
    n1 = n1
    n2 = n2
    Namespaces = {n1, n2}
    ModuleNames = {"app", "app2"}
    Keys = {"k"}
    Values = {"v"}
    Modules <- Appending
    MaxCalls = 3
    MaxDeploys = 3
    MaxPayloads = 2
    MaxRestarts = 1
INVARIANTS
    TypeOK
    AnswersHold
    NoAbandonedTransaction
    FactsKeepMeaning
PROPERTIES
    EntriesServed
    OwnWorkServed
CHECK_DEADLOCK FALSE
