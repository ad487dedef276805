----------------------------- MODULE Deployment -----------------------------
(***************************************************************************)
(* The deployment host of slung for one namespace: the deployment server   *)
(* (bin/deployment.zig) with its record of what was deployed, the          *)
(* supervisor that replaces module sessions (bin/supervisor.zig), the life *)
(* of a session (engine/events.zig start to stop), and the gateways that   *)
(* route payloads into its single-slot sources (engine/connectors).        *)
(* Namespaces share nothing: every table is keyed by namespace.            *)
(*                                                                         *)
(* Deployments, sessions and clients are coroutines.  With one executor    *)
(* thread an actor is only interrupted where it waits: stop() sleeps, but  *)
(* loading a module joins a thread and holds the executor.  With several   *)
(* executors the steps of a deployment interleave with everything.  What a *)
(* session does with a payload is in module Cascade.                       *)
(*                                                                         *)
(* Not modelled: failing allocations of the host's own tables.  Such a     *)
(* failure of retired_sessions.append (supervisor.zig:194) loses a stopped *)
(* session, and one in closeConnectors (events.zig:467-500) leaves that    *)
(* route in the table.                                                     *)
(***************************************************************************)
EXTENDS Naturals, FiniteSets

CONSTANTS
    Deployers,     \* concurrent deployment requests
    HttpClients,   \* one payload per request
    WsClients,     \* a connection keeps the source it found
    Routes,        \* source routes of the namespace
    Executors,     \* "one" or "many" threads run the coroutines
    Prompt,        \* TRUE: a spawned session starts before the next deployment
                   \* looks for a session to stop
    Faults,        \* the faults the environment may inject
    MaxDeploys,    \* bound: deployment requests
    MaxPayloads    \* bound: payloads sent

ASSUME DeploymentAssumption ==
    /\ HttpClients \intersect WsClients = {}
    /\ Executors \in {"one", "many"}
    /\ Prompt \in BOOLEAN
    /\ Faults \subseteq {"load", "setup", "step"}
    /\ MaxDeploys \in Nat /\ MaxPayloads \in Nat

VARIABLES
    stored,      \* deployments: the module on record
    current,     \* sessions: the session of the namespace
    retired,     \* retired_sessions
    state,       \* of every session's coroutine
    stop_requested,
    sources,     \* routes each module declares
    listening,   \* http_sources and ws_sources of each session
    table,       \* the gateways' route tables: the session a route leads to
    mailbox,     \* Source.data of every session and route
    deployer,    \* control state of every deployment request
    client,      \* control state of every client
    deploys,     \* history: deployment requests so far
    payloads,    \* history: payloads sent so far
    ingested     \* history: payloads handed to ingestSourceData

sessionVars == <<state, stop_requested, sources, listening>>
routeVars   == <<table, mailbox>>
hostVars    == <<stored, current, retired>>
vars == <<hostVars, sessionVars, routeVars, deployer, client, deploys, payloads,
          ingested>>

-----------------------------------------------------------------------------
(* A deployment, its module and its session share a number.                *)
Sessions == 1..MaxDeploys
None == 0
Empty == 0
Clients == HttpClients \union WsClients

Resting == [pc |-> "idle", id |-> None, old |-> None]
Unbound == [pc |-> "idle", route |-> None, session |-> None]

(* Nobody holds the only executor.                                         *)
Free == Executors = "one" => \A d \in Deployers : deployer[d].pc \notin {"deploy", "load"}

Running == {s \in Sessions : state[s] = "running"}

Init ==
    /\ stored = None /\ current = None /\ retired = {}
    /\ state = [s \in Sessions |-> "none"]
    /\ stop_requested = [s \in Sessions |-> FALSE]
    /\ sources = [s \in Sessions |-> {}]
    /\ listening = [s \in Sessions |-> {}]
    /\ table = [r \in Routes |-> None]
    /\ mailbox = [x \in Sessions \X Routes |-> Empty]
    /\ deployer = [d \in Deployers |-> Resting]
    /\ client = [c \in Clients |-> Unbound]
    /\ deploys = 0 /\ payloads = 0 /\ ingested = {}

-----------------------------------------------------------------------------
(* handleDeploy: the record of the namespace is replaced before anything   *)
(* else happens.                                                           *)
Put(d) ==
    /\ Free
    /\ deployer[d].pc = "idle" /\ deploys < MaxDeploys
    /\ deploys' = deploys + 1
    /\ stored' = deploys'
    /\ deployer' = [deployer EXCEPT ![d] = [pc |-> "deploy", id |-> deploys', old |-> None]]
    /\ UNCHANGED <<current, retired, sessionVars, routeVars, client, payloads, ingested>>

(* Variant: the old session is not told to stop.                           *)
Remove_NoFlag(d) ==
    /\ deployer[d].pc = "deploy"
    /\ Prompt => \A s \in Sessions : state[s] # "spawned"
    /\ current' = None
    /\ deployer' = [deployer EXCEPT ![d].pc = IF current = None THEN "load" ELSE "stop",
                                    ![d].old = current]
    /\ UNCHANGED <<stored, retired, sessionVars, routeVars, client, deploys, payloads,
                   ingested>>

(* onDeploy takes the session of the namespace out of the map and asks it  *)
(* to stop, or finds none.                                                 *)
Remove(d) ==
    /\ deployer[d].pc = "deploy"
    /\ Prompt => \A s \in Sessions : state[s] # "spawned"
    /\ current' = None
    /\ IF current = None
       THEN /\ deployer' = [deployer EXCEPT ![d].pc = "load"]
            /\ UNCHANGED stop_requested
       ELSE /\ deployer' = [deployer EXCEPT ![d].pc = "stop", ![d].old = current]
            /\ stop_requested' = [stop_requested EXCEPT ![current] = TRUE]
    /\ UNCHANGED <<stored, retired, state, sources, listening, routeVars, client,
                   deploys, payloads, ingested>>

(* Variant: only the session's own list is cleared.                        *)
CloseConnectors_KeepsRoutes(s) ==
    /\ listening' = [listening EXCEPT ![s] = {}]
    /\ UNCHANGED table

(* closeConnectors: a route is removed by its name, whoever it leads to.   *)
CloseConnectors(s) ==
    /\ table' = [r \in Routes |-> IF r \in listening[s] THEN None ELSE table[r]]
    /\ listening' = [listening EXCEPT ![s] = {}]

(* Variant: stop() sets the flag and leaves the rest to the run loop.      *)
Stopped_NoWait(d) ==
    /\ Free
    /\ deployer[d].pc = "stop"
    /\ retired' = retired \union {deployer[d].old}
    /\ deployer' = [deployer EXCEPT ![d].pc = "load", ![d].old = None]
    /\ UNCHANGED <<stored, current, sessionVars, routeVars, client, deploys, payloads,
                   ingested>>

(* Variant: the stopped session is dropped.                                *)
Stopped_Forgets(d) ==
    LET s == deployer[d].old IN
    /\ Free
    /\ deployer[d].pc = "stop"
    /\ state[s] # "running"
    /\ CloseConnectors(s)
    /\ deployer' = [deployer EXCEPT ![d].pc = "load", ![d].old = None]
    /\ UNCHANGED <<hostVars, state, stop_requested, sources, mailbox, client, deploys,
                   payloads, ingested>>

(* stop() polls until the session is not in runForever, and closes what it *)
(* may have left open; the session is kept for the host's deinit.          *)
Stopped(d) ==
    LET s == deployer[d].old IN
    /\ Free
    /\ deployer[d].pc = "stop"
    /\ state[s] # "running"
    /\ CloseConnectors(s)
    /\ retired' = retired \union {s}
    /\ deployer' = [deployer EXCEPT ![d].pc = "load", ![d].old = None]
    /\ UNCHANGED <<stored, current, state, stop_requested, sources, mailbox, client,
                   deploys, payloads, ingested>>

(* The module is loaded, entered in the map and its run loop spawned.      *)
Load(d) ==
    LET s == deployer[d].id IN
    /\ deployer[d].pc = "load"
    /\ \E R \in SUBSET Routes : sources' = [sources EXCEPT ![s] = R]
    /\ current' = s
    /\ state' = [state EXCEPT ![s] = "spawned"]
    /\ deployer' = [deployer EXCEPT ![d] = Resting]
    /\ UNCHANGED <<stored, retired, stop_requested, listening, routeVars, client,
                   deploys, payloads, ingested>>

(* Variant: the session that was removed is entered again.                 *)
LoadFails_KeepsOld(d) ==
    /\ "load" \in Faults
    /\ deployer[d].pc = "load"
    /\ current' = IF retired = {} THEN None ELSE CHOOSE s \in retired : TRUE
    /\ deployer' = [deployer EXCEPT ![d] = Resting]
    /\ UNCHANGED <<stored, retired, sessionVars, routeVars, client, deploys, payloads,
                   ingested>>

(* ModuleSession.init fails: the error goes to the client, and the         *)
(* namespace has no session any more.                                      *)
LoadFails(d) ==
    /\ "load" \in Faults
    /\ deployer[d].pc = "load"
    /\ deployer' = [deployer EXCEPT ![d] = Resting]
    /\ UNCHANGED <<hostVars, sessionVars, routeVars, client, deploys, payloads, ingested>>

-----------------------------------------------------------------------------
(* runForever: the stop flag is cleared, then every source is registered   *)
(* with its gateway, replacing what the route led to.                      *)
Start(s) ==
    /\ Free
    /\ state[s] = "spawned"
    /\ state' = [state EXCEPT ![s] = "running"]
    /\ stop_requested' = [stop_requested EXCEPT ![s] = FALSE]
    /\ listening' = [listening EXCEPT ![s] = sources[s]]
    /\ table' = [r \in Routes |-> IF r \in sources[s] THEN s ELSE table[r]]
    /\ UNCHANGED <<hostVars, sources, mailbox, deployer, client, deploys, payloads,
                   ingested>>

(* setupConnectors fails at one of its sources, possibly one that has no   *)
(* route and comes after all that have: runForever returns, and the routes *)
(* registered so far stay.                                                 *)
SetupFails(s) ==
    /\ "setup" \in Faults
    /\ Free
    /\ state[s] = "spawned"
    /\ \E R \in SUBSET sources[s] :
           /\ listening' = [listening EXCEPT ![s] = R]
           /\ table' = [r \in Routes |-> IF r \in R THEN s ELSE table[r]]
    /\ state' = [state EXCEPT ![s] = "ended"]
    /\ stop_requested' = [stop_requested EXCEPT ![s] = FALSE]
    /\ UNCHANGED <<hostVars, sources, mailbox, deployer, client, deploys, payloads,
                   ingested>>

(* pollSources takes the payload of every source it has.                   *)
Mail(s) == {r \in listening[s] : mailbox[<<s, r>>] # Empty}
Ingest(s, R) ==
    /\ ingested' = ingested \union {mailbox[<<s, r>>] : r \in R}
    /\ mailbox' = [x \in Sessions \X Routes |->
                      IF x[1] = s /\ x[2] \in R THEN Empty ELSE mailbox[x]]

(* Variant: only one source is polled.                                     *)
Step_FirstOnly(s) ==
    /\ Free
    /\ state[s] = "running" /\ ~stop_requested[s]
    /\ Mail(s) # {}
    /\ Ingest(s, Mail(s) \intersect {CHOOSE r \in Routes : TRUE})
    /\ UNCHANGED <<hostVars, sessionVars, table, deployer, client, deploys, payloads>>

Step(s) ==
    /\ Free
    /\ state[s] = "running" /\ ~stop_requested[s]
    /\ Mail(s) # {}
    /\ Ingest(s, Mail(s))
    /\ UNCHANGED <<hostVars, sessionVars, table, deployer, client, deploys, payloads>>

(* step returns an error in the middle: the loop ends with it.             *)
StepFails(s) ==
    /\ "step" \in Faults
    /\ Free
    /\ state[s] = "running" /\ ~stop_requested[s]
    /\ \E R \in SUBSET Mail(s) : Ingest(s, R)
    /\ CloseConnectors(s)
    /\ state' = [state EXCEPT ![s] = "ended"]
    /\ UNCHANGED <<hostVars, stop_requested, sources, deployer, client, deploys, payloads>>

Exit(s) ==
    /\ Free
    /\ state[s] = "running" /\ stop_requested[s]
    /\ CloseConnectors(s)
    /\ state' = [state EXCEPT ![s] = "ended"]
    /\ UNCHANGED <<hostVars, stop_requested, sources, mailbox, deployer, client, deploys,
                   payloads, ingested>>

-----------------------------------------------------------------------------
(* Variant: a route that is not registered is not refused.                 *)
Lookup_Unchecked(c) ==
    /\ client[c].pc = "idle" /\ payloads < MaxPayloads
    /\ \E r \in Routes :
           client' = [client EXCEPT ![c] = [pc |-> "bound", route |-> r,
                                            session |-> table[r]]]
    /\ UNCHANGED <<hostVars, sessionVars, routeVars, deployer, deploys, payloads, ingested>>

(* A gateway finds the source of a route and keeps a reference to it.      *)
Lookup(c) ==
    /\ Free
    /\ client[c].pc = "idle" /\ payloads < MaxPayloads
    /\ \E r \in Routes :
           /\ table[r] # None
           /\ client' = [client EXCEPT ![c] = [pc |-> "bound", route |-> r,
                                               session |-> table[r]]]
    /\ UNCHANGED <<hostVars, sessionVars, routeVars, deployer, deploys, payloads, ingested>>

(* Source.write: the payload replaces whatever the slot holds.  An HTTP    *)
(* request is then answered "received"; a WebSocket stays connected.       *)
Write(c) ==
    /\ Free
    /\ client[c].pc = "bound" /\ payloads < MaxPayloads
    /\ payloads' = payloads + 1
    /\ mailbox' = [mailbox EXCEPT ![<<client[c].session, client[c].route>>] = payloads']
    /\ client' = [client EXCEPT ![c] = IF c \in HttpClients THEN Unbound ELSE @]
    /\ UNCHANGED <<hostVars, sessionVars, table, deployer, deploys, ingested>>

Disconnect(c) ==
    /\ Free
    /\ c \in WsClients /\ client[c].pc = "bound"
    /\ client' = [client EXCEPT ![c] = Unbound]
    /\ UNCHANGED <<hostVars, sessionVars, routeVars, deployer, deploys, payloads, ingested>>

-----------------------------------------------------------------------------
DeployStep(d) == Remove(d) \/ Stopped(d) \/ Load(d)
SessionStep(s) == Start(s) \/ Step(s) \/ Exit(s)

Next ==
    \/ \E d \in Deployers : Put(d) \/ DeployStep(d) \/ LoadFails(d)
    \/ \E s \in Sessions : SessionStep(s) \/ SetupFails(s) \/ StepFails(s)
    \/ \E c \in Clients : Lookup(c) \/ Write(c) \/ Disconnect(c)

Spec == Init /\ [][Next]_vars

(* Fairness.  A deployment request and a session's loop are coroutines     *)
(* that keep being scheduled; a step of a session ends (module Cascade).   *)
FairSpec ==
    /\ Spec
    /\ \A d \in Deployers : WF_vars(DeployStep(d))
    /\ \A s \in Sessions : WF_vars(SessionStep(s))

-----------------------------------------------------------------------------
(* Type invariant.                                                         *)
TypeOK ==
    /\ stored \in Sessions \union {None} /\ current \in Sessions \union {None}
    /\ retired \subseteq Sessions
    /\ state \in [Sessions -> {"none", "spawned", "running", "ended"}]
    /\ stop_requested \in [Sessions -> BOOLEAN]
    /\ sources \in [Sessions -> SUBSET Routes]
    /\ listening \in [Sessions -> SUBSET Routes]
    /\ table \in [Routes -> Sessions \union {None}]
    /\ mailbox \in [Sessions \X Routes -> 0..MaxPayloads]
    /\ deployer \in [Deployers -> [pc : {"idle", "deploy", "stop", "load"},
                                   id : Sessions \union {None},
                                   old : Sessions \union {None}]]
    /\ client \in [Clients -> {Unbound} \union
                              [pc : {"bound"}, route : Routes, session : Sessions]]
    /\ deploys \in 0..MaxDeploys /\ payloads \in 0..MaxPayloads
    /\ ingested \subseteq 1..MaxPayloads

(***************************************************************************)
(* A redeployment "Stops the previous session's connectors", "Removes the  *)
(* previous module's source routes" and "Replaces the active module        *)
(* session" (docs/CLI.md:267-269): at no time do two sessions of the       *)
(* namespace run, nor is a running session one that the host has already   *)
(* retired.  (supervisor.zig onDeploy, events.zig stop and runForever)     *)
(***************************************************************************)
OneRunning ==
    /\ Cardinality(Running) <= 1
    /\ Running \intersect retired = {}

(***************************************************************************)
(* Every session that was made can still be reached by the host: it is the *)
(* current one, or retired, or in the hands of the deployment that is      *)
(* stopping it.  A redeployment "Replaces the active module session"       *)
(* (docs/CLI.md:269), so it knows the session to stop, and                 *)
(* DeploymentHost.deinit releases each of them once.                       *)
(* (supervisor.zig deinit 158-176, onDeploy 191-211)                       *)
(***************************************************************************)
Accounted ==
    \A s \in Sessions : state[s] # "none" =>
        LET holders == (IF current = s THEN {"sessions"} ELSE {})
                       \union (IF s \in retired THEN {"retired"} ELSE {})
                       \union {d \in Deployers : deployer[d].old = s}
        IN  Cardinality(holders) = 1

(***************************************************************************)
(* The record and the session agree once no deployment is under way: the   *)
(* namespace runs the module last deployed, or none, never an older one.   *)
(* (deployment.zig put before on_deploy, supervisor.zig onDeploy)          *)
(***************************************************************************)
RecordMatches ==
    (\A d \in Deployers : deployer[d].pc = "idle") => current \in {None, stored}

(***************************************************************************)
(* "registers its discovered source routes against the existing HTTP and   *)
(* WebSocket gateways" (docs/CLI.md): while the session of the namespace   *)
(* runs and is not being stopped, each of its routes leads to it.  A late  *)
(* closeConnectors of another session has not removed them.                *)
(***************************************************************************)
CurrentReachable ==
    \A s \in Running : s = current => \A r \in sources[s] : table[r] = s

(***************************************************************************)
(* Redeploying "Removes the previous module's source routes"               *)
(* (docs/CLI.md:268): a route leads to a running session or to one whose   *)
(* connectors the host will still close, the current one or one being      *)
(* stopped, never to a session that was retired.  That covers a session    *)
(* whose setup failed half way and left routes behind.                     *)
(* (events.zig setupConnectors, closeConnectors, stop)                     *)
(***************************************************************************)
RoutesOwned ==
    \A r \in Routes : table[r] # None =>
        \/ table[r] \in Running \ retired
        \/ table[r] = current
        \/ \E d \in Deployers : deployer[d].old = table[r]

(***************************************************************************)
(* A deployment request is always answered: stop() does not wait for ever  *)
(* for the session it replaces.  (events.zig stop 342-348)                 *)
(***************************************************************************)
DeploysReturn == \A d \in Deployers : deployer[d].pc # "idle" ~> deployer[d].pc = "idle"

(***************************************************************************)
(* A payload in the slot of a source the session listens on is ingested,   *)
(* or overwritten by a later one, or the session ends.                     *)
(* (events.zig pollSources, shared.zig Source.write)                       *)
(***************************************************************************)
MailTaken ==
    \A s \in Sessions, r \in Routes, p \in 1..MaxPayloads :
        (mailbox[<<s, r>>] = p /\ r \in listening[s])
          ~> (mailbox[<<s, r>>] # p \/ s \notin Running)
=============================================================================
