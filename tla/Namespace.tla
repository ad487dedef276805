----------------------------- MODULE Namespace -----------------------------
(***************************************************************************)
(* Several namespaces on one host, across redeployments: each has the      *)
(* session of its current module, and all share the storage, that is the   *)
(* facts, the pending work (src/storage.zig, src/wal.zig) and the module   *)
(* store (module ModuleStore).  A session's graph (module Graph) is built  *)
(* anew for every module that is loaded; what is stored is not.            *)
(*                                                                         *)
(* Left to the other modules: the life of a session and its routes         *)
(* (Deployment), what a rule's writes do (Cascade: the rules here read     *)
(* facts and use the module store, and set no facts), and how storage      *)
(* keeps what it accepted (Wal, strict durability).  The text of a         *)
(* namespace, module, source or component name is its identity.            *)
(***************************************************************************)
EXTENDS Graph, ModuleStore

CONSTANTS
    Modules,       \* the modules that may be deployed to each namespace, as descriptors
    MaxDeploys,    \* bound: deployments
    MaxPayloads,   \* bound: source payloads
    MaxRestarts    \* bound: restarts of the process

ASSUME NamespaceAssumption ==
    /\ MaxDeploys \in Nat /\ MaxPayloads \in Nat /\ MaxRestarts \in Nat
    /\ \A n \in Namespaces : \A m \in Modules[n] : m.name \in ModuleNames /\ IsDescriptor(m)

VARIABLES
    module,     \* the module of every namespace's session
    session,    \* "none", "running", or "ended" by an error
    graph,      \* forward and reverse index of the session
    facts,      \* storage: the component whose mapper wrote each key's fact
    pending,    \* storage: pending_dirty of all namespaces, oldest first
    next_id,    \* storage: next pending id
    run,        \* the inference run of every session
    deploys, payloads, restarts    \* history, for the bounds

sessionVars == <<module, session, graph>>
workVars    == <<facts, pending, next_id>>
boundVars   == <<deploys, payloads, restarts>>
vars == <<sessionVars, workVars, run, boundVars, storeVars>>

-----------------------------------------------------------------------------
Loaded == [m \in UNION {Modules[n] : n \in Namespaces} |-> Graphs(m)]
NoModule == [name |-> "", sources |-> <<>>, rules |-> <<>>]
Idle == [pc |-> "idle"]

Sources(m) == {m.sources[i].name : i \in DOMAIN m.sources}

(* The place of the namespace's oldest entry, 0 if it has none.            *)
Oldest(n) == SelectInSeq(pending, LAMBDA e : e.namespace = n)

Init ==
    /\ module = [n \in Namespaces |-> NoModule]
    /\ session = [n \in Namespaces |-> "none"]
    /\ graph = [n \in Namespaces |-> NoGraph]
    /\ facts = [n \in Namespaces |-> <<>>]
    /\ pending = <<>> /\ next_id = 1
    /\ run = [n \in Namespaces |-> Idle]
    /\ deploys = 0 /\ payloads = 0 /\ restarts = 0
    /\ StoreInit

-----------------------------------------------------------------------------
(* onDeploy and ModuleSession.init: the old session has left its loop, the *)
(* new one reads its module's descriptors into a new graph.                *)
Deploy(n, m) ==
    /\ run[n] = Idle /\ deploys < MaxDeploys
    /\ module' = [module EXCEPT ![n] = m]
    /\ session' = [session EXCEPT ![n] = "running"]
    /\ \E g \in Loaded[m] : graph' = [graph EXCEPT ![n] = g]
    /\ deploys' = deploys + 1
    /\ UNCHANGED <<workVars, run, payloads, restarts, storeVars>>

(* ingestSourceData: every mapper of the source that accepts the payload   *)
(* and whose fact could be persisted leaves the fact and a pending entry.  *)
Ingest(n, source) ==
    /\ session[n] = "running" /\ run[n] = Idle /\ payloads < MaxPayloads
    /\ payloads' = payloads + 1
    /\ \E keys \in SUBSET KeysOf(graph[n], source) :
         \E order \in SetToSeqs(keys) :
           LET meaning(key) == graph[n].forward[key].mapper
           IN  /\ facts' = [facts EXCEPT ![n] = [key \in keys \union DOMAIN @ |->
                                IF key \in keys THEN meaning(key) ELSE @[key]]]
               /\ pending' = pending \o [i \in DOMAIN order |->
                     [id |-> next_id + i - 1, namespace |-> n, key |-> order[i],
                      meaning |-> meaning(order[i])]]
               /\ next_id' = next_id + Len(order)
    /\ UNCHANGED <<sessionVars, run, deploys, restarts, storeVars>>

(* Variant: the head of the shared list, if it is the namespace's own.     *)
NextPendingDirtyFor_HeadOnly(n) ==
    IF pending # <<>> /\ Head(pending).namespace = n THEN <<Head(pending)>> ELSE <<>>

(* Variant: the head of the shared list, whoever it belongs to.            *)
NextPendingDirtyFor_AnyNamespace(n) ==
    IF Oldest(n) = 0 THEN <<>> ELSE <<Head(pending)>>

(* The oldest entry of the namespace, as a sequence of at most one.        *)
NextPendingDirtyFor(n) ==
    IF Oldest(n) = 0 THEN <<>> ELSE <<pending[Oldest(n)]>>

(* step and the first cycle of runTimed: take the entry and look up the    *)
(* watchers of its key.  The entry stays in storage.                       *)
Begin(n) ==
    /\ session[n] = "running" /\ run[n] = Idle
    /\ \E i \in DOMAIN NextPendingDirtyFor(n) :
         LET e == NextPendingDirtyFor(n)[i]
         IN  run' = [run EXCEPT ![n] =
                [pc |-> "dispatch", id |-> e.id, todo |-> Candidates(graph[n], e.key),
                 fired |-> <<>>]]
    /\ UNCHANGED <<sessionVars, workVars, boundVars, storeVars>>

(* Variant: the candidates are not sorted.                                 *)
Dispatch_Unsorted(n) ==
    /\ run[n].pc = "dispatch" /\ run[n].todo # <<>>
    /\ run' = [run EXCEPT ![n].pc = "rule", ![n].todo = Tail(@),
                          ![n].fired = Append(@, graph[n].reverse[Head(run[n].todo)].entrypoint)]
    /\ UNCHANGED <<sessionVars, workVars, boundVars, storeVars>>

(* The next candidate's entrypoint is invoked.                             *)
Dispatch(n) ==
    /\ run[n].pc = "dispatch" /\ run[n].todo # <<>>
    /\ LET i == NextCandidate(graph[n], run[n].todo)
           id == run[n].todo[i]
       IN  run' = [run EXCEPT ![n].pc = "rule", ![n].todo = RemoveAt(@, i),
                              ![n].fired = Append(@, graph[n].reverse[id].entrypoint)]
    /\ UNCHANGED <<sessionVars, workVars, boundVars, storeVars>>

(* A running rule of the guest calls slung_store_set or slung_store_delete.*)
RuleStores(n) ==
    /\ run[n].pc = "rule"
    /\ \/ \E key \in Keys, value \in Values \union {NoValue} :
            StoreBegin(n, <<n, module[n].name>>, key, value)
       \/ StoreBeginFails(n)
    /\ UNCHANGED <<sessionVars, workVars, run, boundVars>>

(* The rule returns, whatever its code.                                    *)
RuleReturns(n) ==
    /\ run[n].pc = "rule" /\ call[n] = NoCall
    /\ run' = [run EXCEPT ![n].pc = "dispatch"]
    /\ UNCHANGED <<sessionVars, workVars, boundVars, storeVars>>

(* Variant: the entry of a failed run is given up.                         *)
SessionFails_Acks(n) ==
    /\ session[n] = "running" /\ call[n] = NoCall
    /\ session' = [session EXCEPT ![n] = "ended"]
    /\ run' = [run EXCEPT ![n] = Idle]
    /\ pending' = RemoveFirstMatch(pending, LAMBDA e : run[n].pc # "idle" /\ e.id = run[n].id)
    /\ UNCHANGED <<module, graph, facts, next_id, boundVars, storeVars>>

(* A rule traps, the checkpoint fails, or ingestion or a cycle cannot go   *)
(* on: runForever returns the error and the run is discarded.  Its entry   *)
(* stays the namespace's oldest.                                           *)
SessionFails(n) ==
    /\ session[n] = "running" /\ call[n] = NoCall
    /\ session' = [session EXCEPT ![n] = "ended"]
    /\ run' = [run EXCEPT ![n] = Idle]
    /\ UNCHANGED <<module, graph, workVars, boundVars, storeVars>>

(* flushCascade: the checkpoint of a run without outputs acknowledges its  *)
(* entry.                                                                  *)
Finish(n) ==
    /\ run[n].pc = "dispatch" /\ run[n].todo = <<>>
    /\ pending' = RemoveFirstMatch(pending, LAMBDA e : e.id = run[n].id)
    /\ run' = [run EXCEPT ![n] = Idle]
    /\ UNCHANGED <<sessionVars, facts, next_id, boundVars, storeVars>>

(* The process ends and starts again: deployments were in memory only.     *)
Restart ==
    /\ restarts < MaxRestarts
    /\ restarts' = restarts + 1
    /\ module' = [n \in Namespaces |-> NoModule]
    /\ session' = [n \in Namespaces |-> "none"]
    /\ graph' = [n \in Namespaces |-> NoGraph]
    /\ run' = [n \in Namespaces |-> Idle]
    /\ StoreRestart
    /\ UNCHANGED <<workVars, deploys, payloads>>

StoreCall(n) == StoreStep(n) /\ UNCHANGED <<sessionVars, workVars, run, boundVars>>

(* What a session does with the work it has.                               *)
Work(n) == Begin(n) \/ Dispatch(n) \/ RuleReturns(n) \/ Finish(n) \/ StoreCall(n)

Next ==
    \/ \E n \in Namespaces :
         \/ \E m \in Modules[n] : Deploy(n, m)
         \/ \E source \in Sources(module[n]) : Ingest(n, source)
         \/ Work(n)
         \/ RuleStores(n)
         \/ SessionFails(n)
    \/ Restart

Spec == Init /\ [][Next]_vars

(* A session's coroutine is scheduled as long as it can go on, and the     *)
(* guest's rules return.  Nothing is assumed of deployments, payloads,     *)
(* failures or other namespaces' sessions.                                 *)
FairSpec == Spec /\ \A n \in Namespaces : WF_vars(Work(n))
=============================================================================
