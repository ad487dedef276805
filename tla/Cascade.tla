------------------------------ MODULE Cascade ------------------------------
(***************************************************************************)
(* One module session: source ingestion (engine/events.zig), the inference *)
(* loop (engine/loop.zig), the runtime context with its cascade            *)
(* accumulator (engine/context.zig), the LWW cache (memory/lww.zig), the   *)
(* dirty queue (queue.zig) and the slung_set host call of a running rule   *)
(* (wasm/host_abi/generic.zig).                                            *)
(*                                                                         *)
(* A session is one coroutine, so its steps do not interleave with each    *)
(* other; what is hard is that a run spreads one cascade over four data    *)
(* structures and must leave none of it behind when it fails half way.     *)
(* The WAL is seen through Storage: each call takes effect as a whole or   *)
(* fails (module Wal has the inside).  Timestamps are those of one         *)
(* monotonic clock (module Hlc).  A dirty entry is a key; rules are code   *)
(* of the guest and may write any keys, return or trap.  Mappers and the   *)
(* guest's start function have the same imports as rules; here they write  *)
(* no facts, a mapper only translates its payload (CAPABILITY_GRAPH.md:39).*)
(***************************************************************************)
EXTENDS Naturals, FiniteSets, Sequences, SequencesExt

CONSTANTS
    Keys,          \* (entity, component) pairs
    Rules,
    EntityOf,      \* the entity of every key
    Watchers,      \* forward index: the rules watching a key
    Priority,      \* reverse index: priority of every rule
    Capacity,      \* of the dirty queue, 8 in the code
    MaxDepth,      \* cycles of a run, 10 in the code
    ValueKinds,    \* JSON kinds the rules write
    Faults,        \* the faults the environment may inject
    MaxSets,       \* bound: slung_set calls of one rule execution
    MaxIngest,     \* bound: mapped source payloads
    MaxRestarts    \* bound: sessions started after the first

ASSUME CascadeAssumption ==
    /\ IsFiniteSet(Keys) /\ Keys # {}
    /\ Watchers \in [Keys -> Seq(Rules)]
    /\ Priority \in [Rules -> Nat]
    /\ Capacity \in Nat \ {0}
    /\ MaxDepth \in Nat \ {0}
    /\ ValueKinds \subseteq {"scalar", "string", "compound"}
    /\ Faults \subseteq {"trap", "flush", "persist", "oom", "cache"}
    /\ MaxSets \in Nat /\ MaxIngest \in Nat /\ MaxRestarts \in Nat

VARIABLES
    facts,     \* storage: timestamp of the current fact of every key
    pending,   \* storage: pending work of the namespace, oldest first
    next_id,   \* storage: next pending id
    clock,     \* last timestamp issued
    lww,       \* LWW cache
    queue,     \* dirty queue, oldest first
    outputs,   \* cascade_outputs
    undo,      \* cascade_undo
    error,     \* cascade_error is set
    claims,    \* claim register
    pc,        \* where the session is
    depth,     \* cycles begun in this run
    trigger,   \* durable_id of the run, 0 before it is read
    dirty,     \* the key whose watchers are being run
    todo,      \* candidates not yet run in this cycle, in watcher order
    rule,      \* the rule being executed
    fired,     \* a rule has fired in this cycle
    sets,      \* slung_set calls of the current rule execution
    ingested,  \* history: payloads ingested
    restarts,  \* history: sessions started after the first
    missed,    \* history: keys whose cached fact ingestion could not replace
    ran        \* history: the clock when a rule last started on an entity in
               \* this run, 0 if it has not

storeVars == <<facts, pending, next_id>>
cacheVars == <<lww, queue, outputs, undo, error>>
loopVars  == <<claims, pc, depth, trigger, dirty, todo, rule, fired, sets>>
histVars  == <<ingested, restarts, missed>>
vars == <<storeVars, clock, cacheVars, loopVars, histVars, ran>>

-----------------------------------------------------------------------------
(* Cache cells.  A cell's form is what slung_get hands to the guest.       *)
Absent == 0
NoCell == [ts |-> Absent, form |-> "none"]
Json(t) == [ts |-> t, form |-> "json"]

(* slung_set keeps the text of a JSON string and drops its quotes; numbers *)
(* and booleans are printed again by slung_get, anything else is kept as   *)
(* the guest wrote it.                                                     *)
Cell(t, kind) == [ts |-> t, form |-> IF kind = "string" THEN "text" ELSE "json"]

(* LwwRegistry.put: strictly newer wins.                                   *)
Put(l, k, cell) == IF cell.ts > l[k].ts THEN [l EXCEPT ![k] = cell] ELSE l

(* LwwRegistry.rollbackPut: only while the write is still the current one. *)
RollbackPut(u, l) == IF l[u.key].ts = u.ts THEN [l EXCEPT ![u.key] = u.previous] ELSE l

(* QueueInner.removeLast *)
RemoveLast(q, k) ==
    LET at == SelectLastInSeq(q, LAMBDA x : x = k)
    IN  IF at = 0 THEN q ELSE RemoveAt(q, at)

(* The stable sort of the candidates by descending priority: which one is  *)
(* next.                                                                   *)
First(s) ==
    CHOOSE i \in DOMAIN s : \A j \in DOMAIN s :
        \/ Priority[s[i]] > Priority[s[j]]
        \/ Priority[s[i]] = Priority[s[j]] /\ i <= j

(* Variant: undo oldest first.                                             *)
Undone_OldestFirst == FoldLeft(LAMBDA l, u : RollbackPut(u, l), lww, undo)

(* discardCascade: undo newest first, and unqueue what was signalled.      *)
Undone == FoldRight(RollbackPut, undo, lww)
Unqueued == FoldLeft(LAMBDA q, o : RemoveLast(q, o.key), queue, outputs)

Claim(r) == <<r, EntityOf[dirty]>>
NoRule == "none"
NoKey == CHOOSE k \in Keys : TRUE
NotRun == [x \in Rules \X {EntityOf[k] : k \in Keys} |-> 0]

(* The locals of a run come and go with it.                                *)
NoLocals ==
    /\ depth' = 0 /\ trigger' = 0 /\ dirty' = NoKey /\ todo' = <<>>
    /\ rule' = NoRule /\ fired' = FALSE /\ sets' = 0
    /\ ran' = NotRun

-----------------------------------------------------------------------------
Init ==
    /\ facts = [k \in Keys |-> Absent] /\ pending = <<>> /\ next_id = 1
    /\ clock = 0
    /\ lww = [k \in Keys |-> NoCell] /\ queue = <<>>
    /\ outputs = <<>> /\ undo = <<>> /\ error = FALSE
    /\ claims = {} /\ pc = "idle" /\ depth = 0 /\ trigger = 0
    /\ dirty = NoKey /\ todo = <<>> /\ rule = NoRule /\ fired = FALSE /\ sets = 0
    /\ ingested = 0 /\ restarts = 0 /\ missed = {}
    /\ ran = NotRun

(* ingestSourceData for one mapped value: the fact and its pending work    *)
(* are persisted and, if the store accepted them, the cache is brought up  *)
(* to date.                                                                *)
Ingest(k) ==
    /\ pc = "idle" /\ ingested < MaxIngest
    /\ ingested' = ingested + 1
    /\ clock' = clock + 1
    /\ IF clock' > facts[k]
       THEN /\ facts' = [facts EXCEPT ![k] = clock']
            /\ pending' = Append(pending, [id |-> next_id, key |-> k])
            /\ next_id' = next_id + 1
            /\ \/ /\ lww' = Put(lww, k, Json(clock'))
                  /\ missed' = missed \ {k}
               \/ /\ "cache" \in Faults
                  /\ UNCHANGED lww
                  /\ missed' = missed \union {x \in {k} : lww[x] # NoCell}
       ELSE UNCHANGED <<storeVars, lww, missed>>
    /\ UNCHANGED <<queue, outputs, undo, error, loopVars, restarts, ran>>

(* persistMutation fails: the value is dropped and ingestion goes on.      *)
IngestFails ==
    /\ pc = "idle" /\ ingested < MaxIngest
    /\ "persist" \in Faults
    /\ ingested' = ingested + 1
    /\ clock' = clock + 1
    /\ UNCHANGED <<storeVars, cacheVars, loopVars, restarts, missed, ran>>

(* The guest's memory cannot be read or written: step fails, and with it   *)
(* the session.                                                            *)
IngestStops ==
    /\ pc = "idle" /\ ingested < MaxIngest
    /\ "oom" \in Faults
    /\ ingested' = ingested + 1
    /\ pc' = "stopped"
    /\ UNCHANGED <<storeVars, clock, cacheVars, claims, depth, trigger, dirty, todo,
                   rule, fired, sets, restarts, missed, ran>>

(* Variant: the last pending entry is overlooked.                          *)
Begin_LeavesLast ==
    /\ pc = "idle" /\ Len(pending) > 1
    /\ pc' = "cycle" /\ error' = FALSE
    /\ NoLocals
    /\ UNCHANGED <<storeVars, clock, lww, queue, outputs, undo, claims, histVars>>

(* step with work pending: runInferenceOnce, runTimed, beginCascade.       *)
Begin ==
    /\ pc = "idle" /\ pending # <<>>
    /\ pc' = "cycle" /\ error' = FALSE
    /\ NoLocals
    /\ UNCHANGED <<storeVars, clock, lww, queue, outputs, undo, claims, histVars>>

(* The cycle's dirty entry and its candidates.                             *)
Watch(k) ==
    /\ dirty' = k
    /\ todo' = Watchers[k]
    /\ pc' = "dispatch"

(* The first cycle serves the oldest pending entry of the store ...        *)
CycleDurable ==
    /\ pc = "cycle" /\ depth = 0
    /\ trigger' = Head(pending).id
    /\ Watch(Head(pending).key)
    /\ depth' = 1 /\ fired' = FALSE
    /\ UNCHANGED <<storeVars, clock, cacheVars, claims, rule, sets, histVars, ran>>

(* ... and the later ones the dirty queue.                                 *)
CycleQueued ==
    /\ pc = "cycle" /\ depth > 0
    /\ depth' = depth + 1 /\ fired' = FALSE
    /\ IF queue = <<>>
       THEN pc' = "check" /\ UNCHANGED <<queue, dirty, todo>>
       ELSE queue' = Tail(queue) /\ Watch(Head(queue))
    /\ UNCHANGED <<storeVars, clock, lww, outputs, undo, error, claims, trigger,
                   rule, sets, histVars, ran>>

(* The next candidate is claimed and dispatched, or skipped if claimed.    *)
Dispatch ==
    LET i == First(todo)
        r == todo[i]
    IN
    /\ pc = "dispatch" /\ todo # <<>>
    /\ todo' = RemoveAt(todo, i)
    /\ IF Claim(r) \in claims
       THEN UNCHANGED <<claims, pc, rule, sets, ran>>
       ELSE /\ claims' = claims \union {Claim(r)}
            /\ pc' = "rule" /\ rule' = r /\ sets' = 0
            /\ ran' = [ran EXCEPT ![<<r, EntityOf[dirty]>>] = clock]
    /\ UNCHANGED <<storeVars, clock, cacheVars, depth, trigger, dirty, fired, histVars>>

CycleEnds ==
    /\ pc = "dispatch" /\ todo = <<>>
    /\ pc' = "check"
    /\ UNCHANGED <<storeVars, clock, cacheVars, claims, depth, trigger, dirty, todo,
                   rule, fired, sets, histVars, ran>>

-----------------------------------------------------------------------------
(* slung_set.  A key the cache misses is first loaded from the store; that *)
(* stays whatever happens next.                                            *)
Loaded(k) ==
    IF lww[k] = NoCell /\ facts[k] # Absent THEN [lww EXCEPT ![k] = Json(facts[k])] ELSE lww

SetCall ==
    /\ pc = "rule" /\ sets < MaxSets
    /\ sets' = sets + 1
    /\ clock' = clock + 1
    /\ UNCHANGED <<storeVars, claims, pc, depth, trigger, dirty, todo, rule, fired,
                   histVars, ran>>

Set(k) ==
    /\ SetCall
    /\ Len(queue) < Capacity
    /\ \E kind \in ValueKinds : lww' = Put(Loaded(k), k, Cell(clock', kind))
    /\ IF clock' > Loaded(k)[k].ts
       THEN /\ outputs' = Append(outputs, [key |-> k, ts |-> clock'])
            /\ undo' = Append(undo, [key |-> k, ts |-> clock', previous |-> Loaded(k)[k]])
            /\ queue' = Append(queue, k)
       ELSE UNCHANGED <<outputs, undo, queue>>
    /\ UNCHANGED error

(* Status 6: the write is refused before anything is published.            *)
SetQueueFull(k) ==
    /\ SetCall
    /\ Len(queue) >= Capacity
    /\ lww' = Loaded(k)
    /\ error' = TRUE
    /\ UNCHANGED <<queue, outputs, undo>>

(* Status 5: an allocation fails in put, or in accumulateMutation, which   *)
(* rolls the put back.                                                     *)
SetOom(k) ==
    /\ "oom" \in Faults
    /\ SetCall
    /\ Len(queue) < Capacity
    /\ lww' = Loaded(k)
    /\ UNCHANGED <<queue, outputs, undo, error>>

(* The rule returns; its claim is released.  A non-zero return code is     *)
(* only logged.                                                            *)
RuleReturns ==
    /\ pc = "rule"
    /\ claims' = claims \ {Claim(rule)}
    /\ fired' = TRUE
    /\ pc' = "dispatch" /\ rule' = NoRule
    /\ UNCHANGED <<storeVars, clock, cacheVars, depth, trigger, dirty, todo, sets,
                   histVars, ran>>

(* Variant: the cache keeps the writes of the failed cascade.              *)
Discard_KeepsCache ==
    /\ queue' = Unqueued
    /\ outputs' = <<>> /\ undo' = <<>>
    /\ UNCHANGED lww

(* An error ends the run and, through step and runForever, the session;    *)
(* the cascade is discarded on the way out.                                *)
Discard ==
    /\ lww' = Undone
    /\ queue' = Unqueued
    /\ outputs' = <<>> /\ undo' = <<>>

Fail ==
    /\ pc' = "stopped"
    /\ Discard
    /\ NoLocals
    /\ UNCHANGED <<storeVars, clock, error, histVars>>

(* Variant: the claim is not released on the error path.                   *)
RuleTraps_KeepsClaim ==
    /\ pc = "rule"
    /\ "trap" \in Faults
    /\ UNCHANGED claims
    /\ Fail

RuleTraps ==
    /\ pc = "rule"
    /\ "trap" \in Faults
    /\ claims' = claims \ {Claim(rule)}
    /\ Fail

-----------------------------------------------------------------------------
Converged == ~fired /\ queue = <<>>

(* An allocation fails while a cycle reads its entry, lists its candidates *)
(* or claims one.                                                          *)
CycleOom ==
    /\ "oom" \in Faults
    /\ (pc = "cycle" /\ depth = 0) \/ (pc = "dispatch" /\ todo # <<>>)
    /\ UNCHANGED claims
    /\ Fail

(* After a cycle: a recorded error first, then convergence, then depth.    *)
RunFailed == error \/ (~Converged /\ depth = MaxDepth /\ queue # <<>>)

CheckFails ==
    /\ pc = "check"
    /\ RunFailed
    /\ UNCHANGED claims
    /\ Fail

(* Variant: one cycle too many.                                            *)
CheckContinues_OneTooMany ==
    /\ pc = "check" /\ ~error /\ ~Converged
    /\ IF depth <= MaxDepth THEN pc' = "cycle" ELSE queue = <<>> /\ pc' = "flush"
    /\ UNCHANGED <<storeVars, clock, cacheVars, claims, depth, trigger, dirty, todo,
                   rule, fired, sets, histVars, ran>>

(* Variant: the last cycle ends the run, whatever is still queued.         *)
CheckContinues_DropsRest ==
    /\ pc = "check" /\ ~error /\ ~Converged
    /\ pc' = IF depth < MaxDepth THEN "cycle" ELSE "flush"
    /\ UNCHANGED <<storeVars, clock, cacheVars, claims, depth, trigger, dirty, todo,
                   rule, fired, sets, histVars, ran>>

CheckContinues ==
    /\ pc = "check" /\ ~error /\ ~Converged
    /\ IF depth < MaxDepth THEN pc' = "cycle" ELSE queue = <<>> /\ pc' = "flush"
    /\ UNCHANGED <<storeVars, clock, cacheVars, claims, depth, trigger, dirty, todo,
                   rule, fired, sets, histVars, ran>>

CheckConverged ==
    /\ pc = "check" /\ ~error /\ Converged
    /\ pc' = "flush"
    /\ UNCHANGED <<storeVars, clock, cacheVars, claims, depth, trigger, dirty, todo,
                   rule, fired, sets, histVars, ran>>

(* flushCascade: outputs and acknowledgement in one checkpoint.            *)
Flush ==
    /\ pc = "flush"
    /\ facts' = FoldLeft(LAMBDA f, o : IF o.ts > f[o.key] THEN [f EXCEPT ![o.key] = o.ts]
                                                          ELSE f,
                         facts, outputs)
    /\ pending' = RemoveFirstMatch(pending, LAMBDA p : p.id = trigger)
    /\ missed' = missed \ {outputs[i].key : i \in DOMAIN outputs}
    /\ outputs' = <<>> /\ undo' = <<>>
    /\ pc' = "idle"
    /\ NoLocals
    /\ UNCHANGED <<next_id, clock, lww, queue, error, claims, ingested, restarts>>

FlushFails ==
    /\ pc = "flush"
    /\ "flush" \in Faults
    /\ UNCHANGED claims
    /\ Fail

(* A new session on the same store, after an error, a redeployment or, the *)
(* store being durable, a crash: nothing cached, and the clock at the      *)
(* newest persisted fact.                                                  *)
Restart ==
    /\ restarts < MaxRestarts
    /\ restarts' = restarts + 1
    /\ lww' = [k \in Keys |-> NoCell] /\ queue' = <<>>
    /\ outputs' = <<>> /\ undo' = <<>> /\ error' = FALSE
    /\ claims' = {} /\ pc' = "idle"
    /\ missed' = {}
    /\ NoLocals
    /\ clock' = CHOOSE t \in {facts[k] : k \in Keys} : \A k \in Keys : facts[k] <= t
    /\ UNCHANGED <<storeVars, ingested>>

RunStep ==
    \/ CycleDurable \/ CycleQueued \/ Dispatch \/ CycleEnds \/ RuleReturns
    \/ CheckContinues \/ CheckConverged \/ Flush

Next ==
    \/ \E k \in Keys : Ingest(k) \/ Set(k) \/ SetQueueFull(k) \/ SetOom(k)
    \/ IngestFails \/ IngestStops
    \/ Begin
    \/ RunStep
    \/ CheckFails
    \/ RuleTraps \/ CycleOom \/ FlushFails
    \/ Restart

Spec == Init /\ [][Next]_vars

-----------------------------------------------------------------------------
(* Type invariant.                                                         *)
Cells == [ts : Nat, form : {"none", "json", "text"}]
TypeOK ==
    /\ facts \in [Keys -> Nat]
    /\ pending \in Seq([id : Nat, key : Keys]) /\ next_id \in Nat
    /\ clock \in Nat
    /\ lww \in [Keys -> Cells]
    /\ queue \in Seq(Keys)
    /\ outputs \in Seq([key : Keys, ts : Nat])
    /\ undo \in Seq([key : Keys, ts : Nat, previous : Cells])
    /\ error \in BOOLEAN /\ fired \in BOOLEAN
    /\ claims \subseteq Rules \X {EntityOf[k] : k \in Keys}
    /\ pc \in {"idle", "cycle", "dispatch", "rule", "check", "flush", "stopped"}
    /\ depth \in 0..MaxDepth /\ trigger \in Nat /\ dirty \in Keys
    /\ todo \in Seq(Rules) /\ rule \in Rules \union {NoRule}
    /\ sets \in 0..MaxSets
    /\ ingested \in Nat /\ restarts \in Nat /\ missed \subseteq Keys
    /\ ran \in [Rules \X {EntityOf[k] : k \in Keys} -> Nat]
=============================================================================
