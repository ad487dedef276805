-------------------------- MODULE DeploymentProofs --------------------------
(***************************************************************************)
(* Theorems about the deployment host, for every set of routes and         *)
(* clients, both kinds of executor, every set of faults and every bound.   *)
(* The type invariant holds for any number of concurrent deployment        *)
(* requests.  The safety invariants hold where requests do not overlap and *)
(* a spawned session starts before the next request looks for a session to *)
(* stop (Serial); MCDeploymentRace shows that they need this.              *)
(***************************************************************************)
EXTENDS Deployment, FiniteSetTheorems, TLAPS

(* A deployment request that is under way has a session number, and one    *)
(* that is stopping a session has that session.                            *)
RequestsOK ==
    \A d \in Deployers :
        /\ deployer[d].pc # "idle" => deployer[d].id \in Sessions
        /\ deployer[d].pc = "stop" => deployer[d].old \in Sessions

(* Requests do not overlap, and sessions start promptly.                   *)
Serial == Prompt /\ \A d, e \in Deployers : d = e

-----------------------------------------------------------------------------
(* The inductive invariant of a serial host, in four parts.                *)

(* What a request knows: it is the latest one, it holds a session only     *)
(* while it stops it, and the map is empty from then until the new module  *)
(* is loaded.                                                              *)
RequestsSerial ==
    /\ stored = deploys
    /\ \A d \in Deployers :
         /\ deployer[d].pc # "idle" => deployer[d].id = deploys
         /\ deployer[d].old # None <=> deployer[d].pc = "stop"
         /\ deployer[d].pc \in {"stop", "load"} => current = None
    /\ (\A d \in Deployers : deployer[d].pc = "idle") => current \in {None, deploys}

(* Only loaded sessions exist, and the latest request's is not yet loaded. *)
SessionsMade ==
    /\ \A s \in Sessions : state[s] # "none" =>
         /\ s <= deploys
         /\ \A d \in Deployers : deployer[d].pc # "idle" => s # deploys
    /\ current # None => state[current] # "none"
    /\ \A d \in Deployers : deployer[d].old # None =>
         state[deployer[d].old] \in {"running", "ended"}
    /\ \A s \in retired : state[s] = "ended"

(* Each session has one owner.                                             *)
SessionsOwned ==
    /\ \A s \in Sessions : state[s] # "none" =>
         s = current \/ s \in retired \/ \E d \in Deployers : deployer[d].old = s
    /\ current \notin retired
    /\ \A d \in Deployers : deployer[d].old \notin retired
    /\ \A s \in Sessions : state[s] = "spawned" => s = current

(* A route leads to a session that lists it; retired and unstarted         *)
(* sessions list none, and a running one lists and holds all of its own.   *)
RoutesListed ==
    /\ \A s \in Sessions : listening[s] # {} =>
         s \notin retired /\ state[s] \in {"running", "ended"}
    /\ \A r \in Routes : table[r] # None => r \in listening[table[r]]
    /\ \A s \in Running : /\ listening[s] = sources[s]
                          /\ \A r \in sources[s] : table[r] = s

SerialInv == RequestsSerial /\ SessionsMade /\ SessionsOwned /\ RoutesListed

-----------------------------------------------------------------------------
(* The pieces of the state are typed at the start.                         *)
LEMMA InitTypeOK == Init => TypeOK /\ RequestsOK
<1> SUFFICES ASSUME Init PROVE TypeOK /\ RequestsOK
  OBVIOUS
<1> USE DeploymentAssumption DEF Init
<1>1. deployer \in [Deployers -> [pc : {"idle", "deploy", "stop", "load"},
                                  id : Sessions \union {None},
                                  old : Sessions \union {None}]]
  BY DEF Resting, None
<1>2. client \in [Clients -> {Unbound} \union
                             [pc : {"bound"}, route : Routes, session : Sessions]]
  OBVIOUS
<1>3. mailbox \in [Sessions \X Routes -> 0..MaxPayloads]
  BY DEF Empty
<1>4. RequestsOK
  BY DEF RequestsOK, Resting
<1> QED BY <1>1, <1>2, <1>3, <1>4 DEF TypeOK, None

(* A step of a deployment request keeps the types.                         *)
LEMMA DeployerTypeOK ==
    ASSUME TypeOK, RequestsOK, NEW d \in Deployers,
           Put(d) \/ DeployStep(d) \/ LoadFails(d)
    PROVE  TypeOK' /\ RequestsOK'
<1> USE DeploymentAssumption DEF TypeOK, RequestsOK, Resting
<1>1. CASE Put(d)
  <2>1. deploys' \in Sessions /\ deploys' \in 0..MaxDeploys
    BY <1>1 DEF Put, Sessions
  <2> QED BY <1>1, <2>1 DEF Put, sessionVars, routeVars
<1>2. CASE Remove(d)
  <2>1. /\ stored' \in Sessions \union {None} /\ current' \in Sessions \union {None}
        /\ stop_requested' \in [Sessions -> BOOLEAN]
    BY <1>2 DEF Remove
  <2>2. deployer' \in [Deployers -> [pc : {"idle", "deploy", "stop", "load"},
                                     id : Sessions \union {None},
                                     old : Sessions \union {None}]]
    BY <1>2 DEF Remove
  <2>3. RequestsOK'
    BY <1>2 DEF Remove
  <2> QED BY <1>2, <2>1, <2>2, <2>3 DEF Remove, routeVars
<1>3. CASE Stopped(d)
  <2>1. retired' \subseteq Sessions
    BY <1>3 DEF Stopped
  <2>2. table' \in [Routes -> Sessions \union {None}] /\ listening' \in [Sessions -> SUBSET Routes]
    BY <1>3 DEF Stopped, CloseConnectors
  <2>3. deployer' \in [Deployers -> [pc : {"idle", "deploy", "stop", "load"},
                                     id : Sessions \union {None},
                                     old : Sessions \union {None}]]
    <3>1. deployer' = [deployer EXCEPT ![d].pc = "load", ![d].old = None]
      BY <1>3 DEF Stopped
    <3>2. deployer \in [Deployers -> [pc : {"idle", "deploy", "stop", "load"},
                                      id : Sessions \union {None},
                                      old : Sessions \union {None}]]
      OBVIOUS
    <3> HIDE DEF TypeOK, RequestsOK
    <3> QED BY ONLY <3>1, <3>2
  <2>4. RequestsOK'
    BY <1>3 DEF Stopped
  <2> QED BY <1>3, <2>1, <2>2, <2>3, <2>4 DEF Stopped
<1>4. CASE Load(d)
  BY <1>4 DEF Load, routeVars
<1>5. CASE LoadFails(d)
  BY <1>5 DEF LoadFails, hostVars, sessionVars, routeVars
<1> QED BY <1>1, <1>2, <1>3, <1>4, <1>5 DEF DeployStep

(* Taking payloads out of slots keeps the slots and the history typed.     *)
LEMMA IngestTypeOK ==
    ASSUME TypeOK, NEW s \in Sessions, NEW R \in SUBSET Mail(s), Ingest(s, R)
    PROVE  /\ mailbox' \in [Sessions \X Routes -> 0..MaxPayloads]
           /\ ingested' \subseteq 1..MaxPayloads
<1> USE DeploymentAssumption
<1>1. ASSUME NEW r \in R PROVE r \in Routes /\ mailbox[<<s, r>>] \in 1..MaxPayloads
  <2>1. r \in Routes /\ mailbox[<<s, r>>] # 0
    BY DEF TypeOK, Mail, Empty
  <2>2. mailbox[<<s, r>>] \in 0..MaxPayloads
    BY <2>1 DEF TypeOK
  <2> QED BY <2>1, <2>2
<1>2. ingested' \subseteq 1..MaxPayloads
  <2>1. ingested' = ingested \union {mailbox[<<s, r>>] : r \in R}
    BY DEF Ingest
  <2>2. {mailbox[<<s, r>>] : r \in R} \subseteq 1..MaxPayloads
    BY <1>1
  <2> QED BY <2>1, <2>2 DEF TypeOK
<1>3. mailbox' \in [Sessions \X Routes -> 0..MaxPayloads]
  <2>1. mailbox' = [x \in Sessions \X Routes |->
                      IF x[1] = s /\ x[2] \in R THEN Empty ELSE mailbox[x]]
    BY DEF Ingest
  <2>2. Empty \in 0..MaxPayloads /\ mailbox \in [Sessions \X Routes -> 0..MaxPayloads]
    BY DEF TypeOK, Empty
  <2>3. ASSUME NEW x \in Sessions \X Routes PROVE mailbox'[x] \in 0..MaxPayloads
    BY <2>1, <2>2
  <2> QED BY <2>1, <2>3
<1> QED BY <1>2, <1>3

(* A step of a session keeps the types.                                    *)
LEMMA SessionTypeOK ==
    ASSUME TypeOK, RequestsOK, NEW s \in Sessions,
           SessionStep(s) \/ SetupFails(s) \/ StepFails(s)
    PROVE  TypeOK' /\ RequestsOK'
<1>1. CASE Start(s)
  BY <1>1 DEF TypeOK, RequestsOK, Start, hostVars
<1>2. CASE SetupFails(s)
  BY <1>2 DEF TypeOK, RequestsOK, SetupFails, hostVars
<1>3. CASE Step(s)
  <2>1. /\ mailbox' \in [Sessions \X Routes -> 0..MaxPayloads]
        /\ ingested' \subseteq 1..MaxPayloads
    BY <1>3, IngestTypeOK DEF Step
  <2> QED BY <1>3, <2>1 DEF TypeOK, RequestsOK, Step, hostVars, sessionVars
<1>4. CASE StepFails(s)
  <2>1. /\ mailbox' \in [Sessions \X Routes -> 0..MaxPayloads]
        /\ ingested' \subseteq 1..MaxPayloads
    BY <1>4, IngestTypeOK DEF StepFails
  <2> QED BY <1>4, <2>1 DEF TypeOK, RequestsOK, StepFails, CloseConnectors, hostVars, None
<1>5. CASE Exit(s)
  BY <1>5 DEF TypeOK, RequestsOK, Exit, CloseConnectors, hostVars, None
<1> QED BY <1>1, <1>2, <1>3, <1>4, <1>5 DEF SessionStep

(* A step of a client keeps the types.                                     *)
LEMMA ClientTypeOK ==
    ASSUME TypeOK, RequestsOK, NEW c \in Clients, Lookup(c) \/ Write(c) \/ Disconnect(c)
    PROVE  TypeOK' /\ RequestsOK'
<1> USE DeploymentAssumption DEF TypeOK, RequestsOK
<1>1. CASE Lookup(c)
  BY <1>1 DEF Lookup, hostVars, sessionVars, routeVars, None
<1>2. CASE Write(c)
  <2>1. client[c].session \in Sessions /\ client[c].route \in Routes
    BY <1>2 DEF Write, Unbound
  <2>2. payloads' \in 0..MaxPayloads
    BY <1>2 DEF Write
  <2>3. mailbox' \in [Sessions \X Routes -> 0..MaxPayloads]
    BY <1>2, <2>1, <2>2 DEF Write
  <2> QED BY <1>2, <2>2, <2>3 DEF Write, hostVars, sessionVars
<1>3. CASE Disconnect(c)
  BY <1>3 DEF Disconnect, hostVars, sessionVars, routeVars
<1> QED BY <1>1, <1>2, <1>3

LEMMA TypeStep == TypeOK /\ RequestsOK /\ [Next]_vars => TypeOK' /\ RequestsOK'
<1>1. CASE Next
  BY <1>1, DeployerTypeOK, SessionTypeOK, ClientTypeOK DEF Next
<1>2. CASE UNCHANGED vars
  BY <1>2 DEF vars, hostVars, sessionVars, routeVars, TypeOK, RequestsOK
<1> QED BY <1>1, <1>2

(* Whatever requests, sessions, clients and faults do, and however many    *)
(* requests overlap, the host's state keeps its types, and a request that  *)
(* is under way knows its session and the one it stops.                    *)
THEOREM DeploymentTypeOK == Spec => [](TypeOK /\ RequestsOK)
<1>1. Init => TypeOK /\ RequestsOK
  BY InitTypeOK
<1>2. TypeOK /\ RequestsOK /\ [Next]_vars => (TypeOK /\ RequestsOK)'
  BY TypeStep
<1> QED BY <1>1, <1>2, PTL DEF Spec

-----------------------------------------------------------------------------
(* The serial host.                                                        *)

LEMMA InitSerial == Init => SerialInv
BY DEF Init, SerialInv, RequestsSerial, SessionsMade, SessionsOwned, RoutesListed, Running,
       Resting, Sessions, None

(* A running session is the current one or the one being stopped, so there *)
(* is at most one.                                                         *)
LEMMA RunningIsHeld ==
    ASSUME Serial, TypeOK, SerialInv
    PROVE  /\ \A s \in Running : s = current \/ \E d \in Deployers : deployer[d].old = s
           /\ \A s, t \in Running : s = t
<1>1. \A s \in Running : s = current \/ \E d \in Deployers : deployer[d].old = s
  BY DEF SerialInv, SessionsMade, SessionsOwned, Running
<1>2. \A d \in Deployers : deployer[d].old \in Sessions => current = None
  BY DEF SerialInv, RequestsSerial, Sessions, None
<1>3. \A s \in Running : s \in Sessions /\ s # None
  BY DEF Running, Sessions, None
<1> QED BY <1>1, <1>2, <1>3 DEF Serial

LEMMA PutSerial ==
    ASSUME Serial, TypeOK, SerialInv, NEW d \in Deployers, Put(d)
    PROVE  SerialInv'
<1> USE DEF SerialInv, Put, sessionVars, routeVars
<1>0. deploys \in Nat /\ deploys' = deploys + 1 /\ \A s \in Sessions : s \in Nat
  BY DeploymentAssumption DEF TypeOK, Sessions
<1>1. RequestsSerial'
  BY <1>0 DEF RequestsSerial, TypeOK, Serial
<1>2. SessionsMade'
  BY <1>0 DEF SessionsMade, TypeOK, RequestsSerial
<1>3. SessionsOwned'
  BY DEF SessionsOwned, TypeOK, RequestsSerial
<1>4. RoutesListed'
  BY DEF RoutesListed, Running
<1> QED BY <1>1, <1>2, <1>3, <1>4

LEMMA RemoveSerial ==
    ASSUME Serial, TypeOK, SerialInv, NEW d \in Deployers, Remove(d)
    PROVE  SerialInv'
<1> USE DEF SerialInv, Remove, routeVars
<1>1. RequestsSerial'
  BY DEF RequestsSerial, TypeOK, Serial
<1>2. SessionsMade'
  BY DEF SessionsMade, TypeOK, RequestsSerial, Serial
<1>3. SessionsOwned'
  BY DEF SessionsOwned, TypeOK, RequestsSerial, Serial
<1>4. RoutesListed'
  BY DEF RoutesListed, Running
<1> QED BY <1>1, <1>2, <1>3, <1>4

LEMMA StoppedSerial ==
    ASSUME Serial, TypeOK, SerialInv, NEW d \in Deployers, Stopped(d)
    PROVE  SerialInv'
<1> USE DEF SerialInv, Stopped, CloseConnectors
<1>1. RequestsSerial'
  BY DEF RequestsSerial, TypeOK, Serial
<1>2. SessionsMade'
  BY DEF SessionsMade, TypeOK, RequestsSerial, Serial
<1>3. SessionsOwned'
  BY DEF SessionsOwned, TypeOK, RequestsSerial, Serial
<1>4. RoutesListed'
  BY RunningIsHeld DEF RoutesListed, Running, TypeOK, RequestsSerial, Serial
<1> QED BY <1>1, <1>2, <1>3, <1>4

LEMMA LoadSerial ==
    ASSUME Serial, TypeOK, RequestsOK, SerialInv, NEW d \in Deployers,
           Load(d) \/ LoadFails(d)
    PROVE  SerialInv'
<1>1. CASE Load(d)
  <2> USE <1>1 DEF SerialInv, Load, routeVars
  <2>1. RequestsSerial'
    BY DEF RequestsSerial, TypeOK, Serial, Resting
  <2>2. SessionsMade'
    BY DEF SessionsMade, TypeOK, RequestsSerial, RequestsOK, Serial, Resting
  <2>3. SessionsOwned'
    <3>1. /\ deployer[d].id \in Sessions /\ state[deployer[d].id] = "none"
          /\ current = None /\ deployer[d].old = None
      BY DEF SessionsMade, RequestsSerial, RequestsOK
    <3>2. None \notin Sessions
      BY DEF Sessions, None
    <3>3. None \notin retired /\ deployer[d].id \notin retired
      BY <3>1, <3>2 DEF SessionsMade, TypeOK
    <3>4. \A e \in Deployers : deployer'[e] = Resting
      BY DEF Serial, TypeOK
    <3>5. \A s \in Sessions : state'[s] # "none" => s = deployer[d].id \/ s \in retired
      BY <3>1, <3>2 DEF SessionsOwned, TypeOK, Serial
    <3>6. \A s \in Sessions : state[s] # "spawned"
      BY <3>1, <3>2 DEF SessionsOwned
    <3> QED BY <3>1, <3>3, <3>4, <3>5, <3>6 DEF SessionsOwned, TypeOK, Resting
  <2>4. RoutesListed'
    BY RunningIsHeld DEF RoutesListed, Running, TypeOK, SessionsMade, RequestsSerial,
                         RequestsOK, Serial
  <2> QED BY <2>1, <2>2, <2>3, <2>4
<1>2. CASE LoadFails(d)
  BY <1>2 DEF SerialInv, LoadFails, hostVars, sessionVars, routeVars, RequestsSerial,
              SessionsMade, SessionsOwned, RoutesListed, Running, Resting, Serial, TypeOK
<1> QED BY <1>1, <1>2

LEMMA SessionSerial ==
    ASSUME Serial, TypeOK, SerialInv, NEW s \in Sessions,
           SessionStep(s) \/ SetupFails(s) \/ StepFails(s)
    PROVE  SerialInv'
<1> USE DEF SerialInv
<1>0. s # None /\ None \notin Sessions
  BY DEF Sessions, None
<1>1. ASSUME NEW R \in SUBSET sources[s], NEW x \in {"running", "ended"},
             x = "running" => R = sources[s],
             state[s] = "spawned", state' = [state EXCEPT ![s] = x],
             listening' = [listening EXCEPT ![s] = R],
             table' = [r \in Routes |-> IF r \in R THEN s ELSE table[r]],
             UNCHANGED <<hostVars, sources, deployer, deploys>>
      PROVE  SerialInv'
  <2> USE <1>1 DEF hostVars
  <2>1. RequestsSerial'
    BY DEF RequestsSerial
  <2>2. SessionsMade'
    BY DEF SessionsMade, SessionsOwned, TypeOK
  <2>3. SessionsOwned'
    BY DEF SessionsOwned, TypeOK
  <2>4. RoutesListed'
    <3>1. s = current /\ s \notin retired /\ listening[s] = {} /\ s \notin Running
      BY DEF SessionsOwned, RoutesListed, Running
    <3>2. Running = {}
      BY <1>0, <3>1, RunningIsHeld DEF RequestsSerial, Running
    <3>3. Running' \subseteq {s} /\ (s \in Running' => x = "running")
      BY <3>2 DEF Running, TypeOK
    <3>4. \A t \in Sessions : listening'[t] # {} =>
            t \notin retired' /\ state'[t] \in {"running", "ended"}
      BY <3>1 DEF RoutesListed, TypeOK
    <3>5. \A r \in Routes : table'[r] # None => r \in listening'[table'[r]]
      BY <3>1 DEF RoutesListed, TypeOK
    <3>6. \A t \in Running' : /\ listening'[t] = sources'[t]
                              /\ \A r \in sources'[t] : table'[r] = t
      BY <3>3 DEF TypeOK
    <3> QED BY <3>4, <3>5, <3>6 DEF RoutesListed
  <2> QED BY <2>1, <2>2, <2>3, <2>4
<1>2. CASE Step(s)
  BY <1>2 DEF Step, hostVars, sessionVars, RequestsSerial, SessionsMade, SessionsOwned,
              RoutesListed, Running
<1>3. ASSUME state[s] = "running", state' = [state EXCEPT ![s] = "ended"],
             CloseConnectors(s), UNCHANGED <<hostVars, sources, deployer, deploys>>
      PROVE  SerialInv'
  <2> USE <1>3 DEF CloseConnectors, hostVars
  <2>1. RequestsSerial'
    BY DEF RequestsSerial
  <2>2. SessionsMade'
    BY DEF SessionsMade, TypeOK
  <2>3. SessionsOwned'
    BY DEF SessionsOwned, TypeOK
  <2>4. RoutesListed'
    <3>1. s \in Running
      BY DEF Running
    <3>2. Running' = {}
      BY <3>1, RunningIsHeld DEF Running, TypeOK
    <3>3. \A t \in Sessions : listening'[t] # {} =>
            t \notin retired' /\ state'[t] \in {"running", "ended"}
      BY DEF RoutesListed, TypeOK
    <3>4. \A r \in Routes : table'[r] # None => r \in listening'[table'[r]]
      BY <1>0 DEF RoutesListed, TypeOK
    <3> QED BY <3>2, <3>3, <3>4 DEF RoutesListed
  <2> QED BY <2>1, <2>2, <2>3, <2>4
<1>4. CASE Start(s)
  BY <1>4, <1>1 DEF Start
<1>5. CASE SetupFails(s)
  BY <1>5, <1>1 DEF SetupFails
<1>6. CASE StepFails(s)
  BY <1>6, <1>3 DEF StepFails
<1>7. CASE Exit(s)
  BY <1>7, <1>3 DEF Exit
<1> QED BY <1>2, <1>4, <1>5, <1>6, <1>7 DEF SessionStep

LEMMA SerialStep ==
    Serial /\ TypeOK /\ RequestsOK /\ SerialInv /\ [Next]_vars => SerialInv'
<1> SUFFICES ASSUME Serial, TypeOK, RequestsOK, SerialInv, [Next]_vars PROVE SerialInv'
  OBVIOUS
<1>1. CASE \E d \in Deployers : Put(d) \/ DeployStep(d) \/ LoadFails(d)
  BY <1>1, PutSerial, RemoveSerial, StoppedSerial, LoadSerial DEF DeployStep
<1>2. CASE \E s \in Sessions : SessionStep(s) \/ SetupFails(s) \/ StepFails(s)
  BY <1>2, SessionSerial
<1>3. CASE \E c \in Clients : Lookup(c) \/ Write(c) \/ Disconnect(c)
  <2>1. UNCHANGED <<hostVars, sessionVars, table, deployer, deploys>>
    BY <1>3 DEF Lookup, Write, Disconnect, routeVars
  <2> QED BY <2>1 DEF hostVars, sessionVars, SerialInv, RequestsSerial, SessionsMade,
                      SessionsOwned, RoutesListed, Running
<1>4. CASE UNCHANGED vars
  BY <1>4 DEF vars, hostVars, sessionVars, routeVars, SerialInv, RequestsSerial,
              SessionsMade, SessionsOwned, RoutesListed, Running
<1> QED BY <1>1, <1>2, <1>3, <1>4 DEF Next

(* The reachable states of a serial host satisfy the inductive invariant.  *)
LEMMA SerialInvariant == Serial => (Spec => [](TypeOK /\ RequestsOK /\ SerialInv))
<1> SUFFICES ASSUME Serial PROVE Spec => [](TypeOK /\ RequestsOK /\ SerialInv)
  OBVIOUS
<1>1. Init => TypeOK /\ RequestsOK /\ SerialInv
  BY InitTypeOK, InitSerial
<1>2. TypeOK /\ RequestsOK /\ SerialInv /\ [Next]_vars
        => (TypeOK /\ RequestsOK /\ SerialInv)'
  BY TypeStep, SerialStep
<1> QED BY <1>1, <1>2, PTL DEF Spec

(* A set without two different elements has at most one.                   *)
LEMMA AtMostOne ==
    ASSUME NEW S, \A x, y \in S : x = y
    PROVE  Cardinality(S) <= 1
<1>1. CASE S = {}
  BY <1>1, FS_EmptySet
<1>2. CASE S # {}
  <2>1. PICK x \in S : S = {x}
    BY <1>2
  <2> QED BY <2>1, FS_Singleton
<1> QED BY <1>1, <1>2

(* A redeployment replaces the session: at no time do two sessions of the  *)
(* namespace run, nor does one that the host has retired                   *)
(* (supervisor.zig onDeploy, events.zig stop and runForever).              *)
THEOREM SerialOneRunning == Serial => (Spec => []OneRunning)
<1> SUFFICES ASSUME Serial PROVE Spec => []OneRunning
  OBVIOUS
<1>1. TypeOK /\ RequestsOK /\ SerialInv => OneRunning
  <2> SUFFICES ASSUME TypeOK, SerialInv PROVE OneRunning
    OBVIOUS
  <2>1. Cardinality(Running) <= 1
    BY RunningIsHeld, AtMostOne
  <2>2. Running \intersect retired = {}
    BY DEF Running, SerialInv, SessionsMade
  <2> QED BY <2>1, <2>2 DEF OneRunning
<1> QED BY <1>1, SerialInvariant, PTL

(* Every session that was made has exactly one owner, from whom the host's *)
(* deinit releases it (supervisor.zig deinit, onDeploy).                   *)
THEOREM SerialAccounted == Serial => (Spec => []Accounted)
<1> SUFFICES ASSUME Serial PROVE Spec => []Accounted
  OBVIOUS
<1>1. TypeOK /\ RequestsOK /\ SerialInv => Accounted
  <2> SUFFICES ASSUME TypeOK, SerialInv, NEW s \in Sessions, state[s] # "none"
               PROVE  Cardinality((IF current = s THEN {"sessions"} ELSE {})
                        \union (IF s \in retired THEN {"retired"} ELSE {})
                        \union {d \in Deployers : deployer[d].old = s}) = 1
    BY DEF Accounted
  <2> DEFINE stopping == {d \in Deployers : deployer[d].old = s}
  <2>1. s # None
    BY DEF Sessions, None
  <2>2. stopping # {} => current # s /\ s \notin retired
    BY <2>1 DEF SerialInv, SessionsOwned, RequestsSerial
  <2>3. current = s => s \notin retired
    BY DEF SerialInv, SessionsOwned
  <2>4. current = s \/ s \in retired \/ stopping # {}
    BY DEF SerialInv, SessionsOwned
  <2>5. stopping # {} => \E d : stopping = {d}
    <3>1. \A d, e \in stopping : d = e
      BY DEF Serial
    <3> HIDE DEF stopping
    <3> QED BY <3>1
  <2> HIDE DEF stopping
  <2>6. PICK x : (IF current = s THEN {"sessions"} ELSE {})
                   \union (IF s \in retired THEN {"retired"} ELSE {})
                   \union stopping = {x}
    <3>1. CASE stopping # {}
      BY <3>1, <2>2, <2>5
    <3>2. CASE stopping = {} /\ current = s
      BY <3>2, <2>3
    <3>3. CASE stopping = {} /\ current # s
      BY <3>3, <2>4
    <3> QED BY <3>1, <3>2, <3>3
  <2> QED BY <2>6, FS_Singleton DEF stopping
<1> QED BY <1>1, SerialInvariant, PTL

(* Between deployments the namespace runs the module on record, or none,   *)
(* never an older one (deployment.zig put, supervisor.zig onDeploy).       *)
THEOREM SerialRecordMatches == Serial => (Spec => []RecordMatches)
<1> SUFFICES ASSUME Serial PROVE Spec => []RecordMatches
  OBVIOUS
<1>1. TypeOK /\ RequestsOK /\ SerialInv => RecordMatches
  BY DEF RecordMatches, SerialInv, RequestsSerial
<1> QED BY <1>1, SerialInvariant, PTL

LEMMA SerialRoutes == Serial => (Spec => [](CurrentReachable /\ RoutesOwned))
<1> SUFFICES ASSUME Serial PROVE Spec => [](CurrentReachable /\ RoutesOwned)
  OBVIOUS
<1>1. TypeOK /\ RequestsOK /\ SerialInv => CurrentReachable /\ RoutesOwned
  <2> SUFFICES ASSUME TypeOK, SerialInv PROVE CurrentReachable /\ RoutesOwned
    OBVIOUS
  <2>1. CurrentReachable
    BY DEF CurrentReachable, SerialInv, RoutesListed
  <2>2. ASSUME NEW r \in Routes, table[r] # None
        PROVE  table[r] = current \/ \E d \in Deployers : deployer[d].old = table[r]
    <3>1. table[r] \in Sessions /\ r \in listening[table[r]]
      BY <2>2 DEF TypeOK, SerialInv, RoutesListed
    <3>2. table[r] \notin retired /\ state[table[r]] # "none"
      BY <3>1 DEF SerialInv, RoutesListed
    <3> QED BY <3>1, <3>2 DEF SerialInv, SessionsOwned
  <2> QED BY <2>1, <2>2 DEF RoutesOwned
<1> QED BY <1>1, SerialInvariant, PTL

(* The routes of the running session lead to it, whatever setups and steps *)
(* failed before it (events.zig setupConnectors).                          *)
THEOREM SerialCurrentReachable == Serial => (Spec => []CurrentReachable)
BY SerialRoutes, PTL

(* A route leads to no session that was retired (events.zig                *)
(* closeConnectors, stop).                                                 *)
THEOREM SerialRoutesOwned == Serial => (Spec => []RoutesOwned)
BY SerialRoutes, PTL
=============================================================================
