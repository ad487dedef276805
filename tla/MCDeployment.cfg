SPECIFICATION FairSpec
CONSTANTS
    Deployers = {d1}
    HttpClients = {h1}
    WsClients = {w1}
    Routes = {r1, r2}
    Executors = "many"
    Prompt = TRUE
    Faults = {"load", "setup", "step"}
    MaxDeploys = 3
    MaxPayloads = 2
INVARIANTS
    TypeOK
    OneRunning
    Accounted
    RecordMatches
    CurrentReachable
    RoutesOwned
PROPERTIES
    DeploysReturn
    MailTaken
CHECK_DEADLOCK FALSE
