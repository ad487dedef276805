SPECIFICATION Spec
CONSTANTS
    Deployers = {d1, d2}
    HttpClients = {h1}
    WsClients = {w1}
    Routes = {r1, r2}
    Executors = "one"
    Prompt = TRUE
    Faults = {}
    MaxDeploys = 3
    MaxPayloads = 2
INVARIANTS
    Accounted
CHECK_DEADLOCK FALSE
