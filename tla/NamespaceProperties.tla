------------------------ MODULE NamespaceProperties ------------------------
(***************************************************************************)
(* Properties of module Namespace.                                         *)
(***************************************************************************)
EXTENDS Namespace

(* Types, and a session has a graph of its module.                         *)
TypeOK ==
    /\ StoreTypeOK
    /\ \A n \in Namespaces :
         /\ module[n] \in Modules[n] \union {NoModule}
         /\ session[n] \in {"none", "running", "ended"}
         /\ run[n].pc \in {"idle", "dispatch", "rule"}
         /\ run[n].pc # "idle" =>
              ToSet(run[n].todo) \subseteq DOMAIN graph[n].reverse
    /\ \A i \in DOMAIN pending : pending[i].id < next_id

(* A key of a stored fact or of a pending entry denotes, in the graph of   *)
(* the running module, the component it was written for: a redeployment    *)
(* does not hand the facts of one component to the rules and mappers of    *)
(* another.  The ids are counted from 0 for every module that is loaded    *)
(* while the storage keeps the keys (module.zig GraphBuilder, events.zig   *)
(* ModuleSession.init), so this depends on the order of the descriptors.   *)
FactsKeepMeaning ==
    \A n \in Namespaces : LET forward == graph[n].forward IN
        /\ \A key \in DOMAIN facts[n] \intersect DOMAIN forward :
             forward[key].mapper = facts[n][key]
        /\ \A i \in DOMAIN pending :
             pending[i].namespace = n /\ pending[i].key \in DOMAIN forward
                => forward[pending[i].key].mapper = pending[i].meaning

(* The rules of a module that name a component in their watch list, and    *)
(* their priorities: the descriptors' own words.                           *)
Watching(m, component) ==
    {m.rules[i].name : i \in {j \in DOMAIN m.rules : component \in ToSet(m.rules[j].watch)}}
PriorityOf(m, name) ==
    m.rules[SelectInSeq(m.rules, LAMBDA r : r.name = name)].priority

(* Pending work is served or kept: an entry leaves the storage only as the *)
(* oldest of its namespace, in a run of that namespace's session that has  *)
(* invoked exactly the rules whose descriptors name the component the      *)
(* entry was written for, each once and highest priority first.  So no     *)
(* redeployment, unknown watch, trap, failed checkpoint, restart or run of *)
(* another namespace drops or misdirects it (wire.zig, module.zig build,   *)
(* loop.zig runTimed, wal.zig nextPendingFor and ack).                     *)
EntriesServed ==
    [][\A e \in ToSet(pending) \ ToSet(pending') :
         LET n == e.namespace
             fired == run[n].fired
         IN  /\ e = pending[Oldest(n)]
             /\ run[n].pc # "idle"
             /\ ToSet(fired) = Watching(module[n], e.meaning)
             /\ \A i, j \in DOMAIN fired : i < j =>
                  /\ fired[i] # fired[j]
                  /\ PriorityOf(module[n], fired[i]) >= PriorityOf(module[n], fired[j])]_vars

(* A session that goes on running works its namespace's entries off, even  *)
(* when the oldest entry of the shared list belongs to another namespace   *)
(* whose runs fail on it for ever (loop.zig runTimed, wal.zig              *)
(* nextPendingFor).                                                        *)
OwnWorkServed ==
    \A n \in Namespaces :
        session[n] = "running" ~> (session[n] # "running" \/ Oldest(n) = 0)

-----------------------------------------------------------------------------
(* What the descriptors must satisfy for a namespace's work to survive its *)
(* redeployments.                                                          *)

(* No source, component, rule or watch of a module is named twice: sources *)
(* and rules are exports, whose names differ, components are fields of a   *)
(* struct, and a watch list has no repetition.                             *)
DistinctNames(m) ==
    /\ IsInjective([i \in DOMAIN m.sources |-> m.sources[i].name])
    /\ IsInjective([i \in DOMAIN m.rules |-> m.rules[i].name])
    /\ \A i \in DOMAIN m.sources : IsInjective(m.sources[i].components)
    /\ \A i \in DOMAIN m.rules : IsInjective(m.rules[i].watch)

(* Of two versions one has the other's sources and adds some after them.   *)
VersionsAppend(versions) ==
    \A m1, m2 \in versions :
        IsPrefix(m1.sources, m2.sources) \/ IsPrefix(m2.sources, m1.sources)

(* A version that watches a component another declares declares it too.    *)
Declared(m, w) ==
    \E i \in DOMAIN m.sources :
        m.sources[i].name = w[1] /\ w[2] \in Names(m.sources[i].components)
WatchesDeclared(versions) ==
    \A m1, m2 \in versions : \A i \in DOMAIN m1.rules : \A w \in ToSet(m1.rules[i].watch) :
        Declared(m2, w) => Declared(m1, w)

VersionsServe(versions) ==
    /\ VersionsAppend(versions) /\ WatchesDeclared(versions)
    /\ \A m \in versions : DistinctNames(m)
=============================================================================
