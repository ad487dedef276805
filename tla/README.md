# A TLA+ model of slung

slung is a reactive rule engine. Payloads arrive over HTTP and WebSocket, are
mapped to *facts* (entity, component, value, timestamp), and wake *rules*,
functions of a WebAssembly module that read facts and write others. Facts and
the work they cause are kept in a write-ahead log. This directory models the
parts that decide whether the engine loses, invents or forgets something, checks
them with TLC on small instances and proves their safety properties with TLAPS.

Source paths are relative to the repository root; `wal.zig` is `src/wal.zig`,
`events.zig` is `src/engine/events.zig`, and so on.

## The system

| Component | State | Operations | Talks to | What is hard | What makes it correct |
|---|---|---|---|---|---|
| Write-ahead log (`wal.zig`, facade `storage.zig`) | fact map, pending list with ids, request queue, `failed`/`stopping` flags, journal file | append, appendBatch, flushCascade, ack, getFact, nextPendingFor; writer thread; recover | every session calls it; one writer thread | group commit under one mutex, publication before fsync, rollback, terminal failure, torn writes, recovery that renumbers work | durable records survive, recovery yields a prefix, live state and replay agree, callers are woken |
| Hybrid logical clock (`primitives/hlc.zig`) | wall, logical | send, recv, now, fromTimestamp | stamps every fact; restarted from the log | wall clock set back, restart, counter limit | stamps respect causality and beat stored facts |
| Module session and inference loop (`engine/events.zig`, `loop.zig`, `context.zig`) | cascade outputs, undo list, claims, error slot | ingest, step, run, flush, discard | storage, LWW cache, dirty queue, guest | one cascade spread over four structures, failing anywhere | a run commits or leaves nothing; no wake-up is lost |
| LWW cache (`memory/lww.zig`), dirty queue (`queue.zig`) | cells; ring of 8 | put, get, rollbackPut; push, pop, removeLast | context, host ABI | rollback of repeated writes, queue limit | cache equals store between runs |
| Host ABI (`wasm/host_abi/generic.zig`) | none | slung_get, slung_set, slung_now | guest rules | two representations of one value, errors reported as status codes | slung_get tells what the store would |
| Gateways and sources (`engine/connectors/*`) | route tables, one slot per source | listen, close, dispatch, write | sessions poll the slots | routes replaced and removed by name, overwritten slots, connections that outlive a session | a route leads to the live session |
| Deployment server and supervisor (`bin/deployment.zig`, `bin/supervisor.zig`) | record per namespace, session map, retired list | put, onDeploy, stop, load | starts and stops sessions | overlapping requests, stop against start, failed load | one session per namespace, every session accounted for |
| Graph builder and wiring (`wasm/module.zig`, `wire.zig`, `index.zig`) | descriptors, forward and reverse index | registerSource, registerComponentType, registerRule, build | read by the loop | name resolution, registration order, ids that start again with every module | an entry reaches the rules that name its component; stored keys keep their meaning |
| Module key-value store (`storage.zig`, `host_abi/store.zig`) | a SQLite table behind one connection | get, set, delete | guest rules of every namespace | three statements per call on a shared connection, failures between them | what a call answered holds, no transaction is left open |

The remaining parts (command line, configuration, SDKs, outgoing HTTP and the
stubbed network calls, containers the engine does not use) are listed in
`PROJECT.json` with the reason they are left out.

## Modules

```
Wal ── WalProperties ── WalRefinement ── MCWal      Hlc ── MCHlc
 │            │          (implements DurableLog)     └──── HlcProofs
 │            └── WalProofs ── WalQueueProofs ── WalLiveProofs
 └ seen through Storage by
Cascade ── CascadeProperties ── MCCascade
 │                └──────────── CascadeProofs
 └ one step of a session in
Deployment ── MCDeployment
 │     └───── DeploymentProofs
 └ one namespace; several, redeployed, in
Graph, ModuleStore ── Namespace ── NamespaceProperties ── MCNamespace
                                          └────────────── NamespaceProofs

SequenceLemmas: used by the proofs of Wal, Cascade and Namespace
```

**Wal.** Clients call the log, one writer thread serves them, the environment
fails writes, fsyncs and allocations, kills the process and restarts it. All
that the code does in one hold of `mutex` is one action; the writer's two long
loops under the mutex (publication, rollback) take one action per request or
undo entry, and `MutexFree` keeps the other actors out. File writes and fsync
run outside the mutex and interleave with everything.
`CallBatch/CallCascade/CallAck` are the parts of `appendBatch`, `flushCascade`
and `ack` before the mutex; `Admit*` the admission; `Return` a strict caller
that sees `request.done` (a cascade then removes its pending entry in a second
critical section); `Take … Commit/Abort` the writer; `Replay*` is `recover`.
The data is abstracted to what the control flow reads: a fact is its timestamp,
a batch writes one key (the engine's batches hold one mutation,
`context.zig:179-183`), a cascade writes any set of keys at one timestamp.
A journal record is whole or torn, and of one of three sizes (`Sizes` says which
a run submits). One that *fits* is written and read back. One that is *wide* has
a field above `MaxFieldSize` (8 MiB): `putBytes` writes it, `getBytes` refuses it
(wal.zig:886), so `recover` ends with `CorruptWal` (`ReplayCorrupt`). One that is
*huge* exceeds `MaxRecordSize` (16 MiB): `writeRecord` refuses it (wal.zig:765),
which fails the group and the log for good (`AppendTooLarge`). Callers can submit
all three: `slung_set` sets no limit on a value. A crash keeps everything an fsync has covered
and any longer prefix of the rest, the record at the cut possibly torn; a killed
process is the case where the whole file survives. An fsync that succeeds covers
the whole file. A file system that leaves a hole of zeros after a crash is not
modelled; `recover` would report `CorruptWal`.
The write loop is `while (failure == null and attempt < 3)`: since a failed
attempt sets `failure`, nothing is ever retried, and the model has it so.

**DurableLog, WalRefinement.** What a caller of the storage relies on: a log that
grows at its end, a durable prefix that never shrinks, reports that speak only
of durable records; failures and crashes take records from the end. The
refinement maps `log` to everything admitted while the log is open (queued, in
the writer's group or in the file) and to the whole records of the file during
recovery, `durable` to the whole records under the last fsync, `reported` to
what callers were told. `ImplementsDurableLog` holds for the log as the engine
uses it. It is not checked with `ack`, which writes, syncs and reports in one
critical section and so takes several abstract steps at once, and which breaks
the promise anyway (`MCWalTorn`).

**Hlc.** Clocks of several nodes; every reading of the wall clock is arbitrary;
messages may be lost, repeated and reordered. `Restart` is what
`events.zig:141-142` does with `latestTimestamp`. The logical counter is a u32
with checked addition, so a stamp beyond the maximum is not issued: a build with
safety checks panics there. In a build without them the sum may wrap
(hlc.zig:84), which is not modelled; the clock's properties and theorems are
about the others.

**Cascade.** One session: ingestion, inference loop, cascade accumulator, LWW
cache, dirty queue, claims, `slung_set`. The session is one coroutine, so its
steps do not interleave with one another; the store takes effect as a whole or
fails. Rules are arbitrary guest code: any writes up to `MaxSets`, then return
or trap. A cache cell carries the form in which `slung_get` would hand it out.
`Restart` is a new session on the same store (redeployment, error, crash with a
store that lost nothing; the loss of an unsynced tail is in Wal).
Not in the model: the branches for a missing storage, which the session never
takes; the failure of a push after the `isFull` check, impossible with one
worker; a rule missing from the reverse index; writes from guest code other than
rules. Mappers and the module's start function have the same imports
(`events.zig:577`) and could call `slung_set` while no cascade runs; the
capability graph document gives writing facts to rules
(`CAPABILITY_GRAPH.md:39`).
`ModuleSession.init` frees the dirty queue's ring buffer when it returns
(`events.zig:101-102`, `queue.zig:132-135`) although the session keeps using it.
The model assumes that this memory keeps its contents.

**Deployment.** One namespace of a deployment host: requests, sessions, clients.
`Put`, `Remove`, `Stopped`, `Load` are the stretches of `handleDeploy`/`onDeploy`
between suspensions; `Start`, `Step`, `Exit` those of `runForever`. The
coroutine library is external: with `Executors = "one"` a deployment that loads
a module keeps everybody else from running (it joins a thread), with `"many"`
nothing does. `Prompt` says that a spawned session gets to run before the next
deployment looks for it. Allocation failures in the host's own tables are not
modelled: `retired_sessions.append` (`supervisor.zig:194`) may fail and lose the
stopped session, and `closeConnectors` may fail for one route and leave it behind
(`events.zig:467-500`). `Accounted`, `RecordMatches`, `CurrentReachable`,
`RoutesOwned` and the theorems about them are to be read with that proviso.

**Graph.** `wire` and `GraphBuilder` as operators from a module's descriptors to
its forward and reverse index: `RegisterSource` and `RegisterRule` are folded
over the descriptors in export order, `Build` makes the indices, `Graphs` has one
for every order in which the hash map may hand out the rules. `Candidates` and
`KeysOf` are the two lookups of the engine; `NextCandidate` is the sort by
priority, one candidate at a time. Component type descriptors are left
out: they fill fields that no lookup reads.

**ModuleStore.** `set` and `delete` are BEGIN IMMEDIATE, a change and COMMIT on
the one connection of the host, one action each, so calls of sessions on
different executors interleave between them. The connection is opened in
SQLite's serialized mode, which makes single statements atomic. SQLite is
external and modelled by the rows on disk (`db`), the rows the connection sees
(`view`, which is what `get` reads) and whether a transaction is open; outside a
transaction a change commits by itself. ROLLBACK is taken to work: its error is
ignored by the code (`storage.zig:191`, `:218`), and an allocation failure in
`exec` (`:292`) would leave the transaction open. `NoAbandonedTransaction`,
`AnswersHold` and their theorems rest on it.

**Namespace.** Several namespaces that share facts, pending work and module
store, each with a session whose module can be replaced. `Deploy` builds a new
graph and leaves the storage alone, `Ingest` is a whole payload through every
mapper of its source, `Begin … Finish` a run with its dispatches, during which a
rule may use the module store; `SessionFails` is any error that ends
`runForever`. Rules here set no facts (that is Cascade), loading does not fail
and sessions do not overlap (that is Deployment), and a restart loses nothing
(the log in strict mode). A fact carries the component it was written for, so
that properties can compare it with what its key denotes later. `Oldest(n)` is
the place in the shared list where `nextPendingFor` stops for namespace n.

## Runs

| Run | Instance | Result |
|---|---|---|
| `MCWalStrict` | strict, 2 clients, 2 keys, queue of 2, 3 calls, 1 restart, records that fit or are wide, all faults, no `ack` | 555 150 states, holds |
| `MCWalEventual` | eventual, the same size, records that fit or are huge, all faults, `ack`, equal timestamps | 1 169 596 states, holds |
| `MCWalLive` | strict, queue of 1, 3 calls, 1 restart, records that fit or are huge, failed writes and fsyncs | 298 162 states, holds |
| `MCHlc` | 2 nodes, wall readings 0..2, logical 0..2 | 632 871 states, holds |
| `MCCascade` | 2 keys of one entity, 2 rules (one watches both), queue of 2, depth 3, 2 payloads, 1 restart, all faults | 919 432 states, holds |
| `MCDeployment` | 1 deployer, 3 deployments, 2 routes, an HTTP and a WebSocket client, 2 payloads | 116 300 states, holds |
| `MCNamespace` | 2 namespaces, one of them between two module versions, 3 deployments, 2 payloads, 3 store calls, 1 restart | 347 318 states, holds |
| `MCWalTorn` | strict, torn writes, `ack` | `DurablePromises` fails |
| `MCWalPhantom` | strict, failed writes | `PendingHasFact` fails |
| `MCCascadeText` | rules write strings | `CacheCoherent` fails |
| `MCDeploymentRace` | 2 deployers, one executor | `Accounted` fails |
| `MCNamespaceReorder` | 1 namespace, a version that declares a new source first | `FactsKeepMeaning` fails |

*Strict log.* `ReplayAgreement` compares the live state with what recovery would
compute from journal and unwritten records: the facts, the order and the ids of
pending work, which matters because cascade and ack records name work by id. It
speaks of journals that recovery reads to the end (`Readable`): a journal with a
fragment, which a failed `ack` can leave in the middle, or with an oversized
record has no such replay, and a crash image is cut at its first fragment as
`recover` cuts it.
`RecoveredIsPrefix` says that whatever a crash leaves is a state the log went
through; `DurablePromises` that what was reported
durable is there after every crash from which the journal opens, `PromisesSynced`
that it lies in the synced part of the file whether it opens or not, and both that
nothing but a field above `MaxFieldSize` keeps it from opening
(`CorruptIsWide`; the run reaches that case); `DurableFactsStayLive` and `FailedGroupLeavesNoFact` that a
rollback takes back its own group and nothing else; `PendingIdsIncrease` that
work keeps its order; `WaitersAreHeld` that whoever waits has a request somebody
will answer. *Eventual log.* In addition `PendingHasFact` (work exists
with its fact) and `ShutdownDrains` (a clean shutdown leaves nothing in memory).
*Clock.* `HappensBefore`, `ClockCoversStore`. *Session.* `CacheCoherent`: if the
running cascade were discarded now, every cached cell would be the stored fact,
or an older one where ingestion persisted a fact and could not cache it;
`RunsLeaveNothing`; `NoLostWakeup`: nothing is acknowledged before every watcher
has run after the last write it watches. *Deployment.* `OneRunning`,
`Accounted`, `RecordMatches`, `CurrentReachable`, `RoutesOwned`.
*Namespaces.* `EntriesServed`: an entry of pending work leaves the storage only
after a run of its own namespace has invoked exactly the rules whose descriptors
name the component it was written for, each once and highest priority first; `FactsKeepMeaning`:
stored keys denote what they denoted when they were written; `AnswersHold`: the
history variable `allowed` holds the values that the store's answers leave
possible, and both the disk and the connection agree with it;
`NoAbandonedTransaction`. *Liveness.* `CallsReturn` (every call on the log returns,
with a result or an error), `QueuedBecomesDurable` (a queued request becomes
durable, or the log fails, or the process restarts), `WorkDrains` (accepted work is acknowledged or the
session ends with an error), `DeploysReturn` and `MailTaken` (a deployment
request is answered; a payload in a session's slot is ingested or overwritten,
or the session ends), `OwnWorkServed` (a session that keeps running works its
entries off, whatever stands before them in the shared list).

**Bounds.** Three log calls are the fewest that give a group of two requests and
a third that overlaps it (a cascade acknowledging earlier work while a group
fails); the queue limits of 1 and 2 are reached; one restart gives writing after
recovery. Wide records are in the run whose properties speak of what was reported
durable, huge ones in the eventual and the liveness run, where one record that
cannot be written ends the log for all callers; the proofs cover every choice of
`Sizes`. `MCWalStrict`, with records that fit, was also run once with four calls.
In MCCascade a run can fan out, go round through both rules, fill the queue of 2
and exceed depth 3; the limits of the code are 8 and 10 and nothing depends on
their values.
Three deployments give a replacement of a replacement, or two namespaces and a
replacement. In MCNamespace a payload leaves up to two entries; the graph has a
watch that names nothing, two rules of different priority on one key, and an
added source; three store calls give a collision and a call after it. The
namespaces have their own sets of modules, which keeps the liveness check small. Client and key
permutations are symmetries of Wal: nothing orders or singles them out; liveness
runs do not use them.

**Deadlock** is not checked: all calls, payloads and restarts are bounded, so
every behaviour stops. That nobody waits for ever is what the liveness
properties say.

**Fairness.** The log's writer is a thread that polls the queue, a caller inside
the log polls until it is served, recovery is straight-line code: weak fairness
of each. No fault, call or restart is owed. A session's coroutine keeps running
and a rule ends; a guest that loops for ever blocks its session, and the code
has no remedy. A deployment request keeps being scheduled. In Cascade the error exit of a run is
a second fairness condition, stated by what it does to `pc`, because TLC
evaluates the folds of the discarded cascade slowly under ENABLED. In Namespace
every session has its own condition; failures, deployments and other sessions
are owed nothing.

### What the failing runs show

* **Torn writes and `ack`.** `ack` does not look at `failed`, and its own failure
  does not set it. A fragment can then be followed by good records; recovery
  stops at the fragment, or reads it as a record with a wrong checksum. The
  engine does not call `ack`, and `WalPromisesSynced` proves it safe.
* **Phantom work.** `rollbackPending` cuts the list to a remembered length, while
  a strict cascade that has already returned removes its entry from the front.
* **Strings.** `slung_set` caches a JSON string without quotes, `slung_get`
  returns cached bytes "as-is".
* **Overlapping deployments.** While one deployment waits for the old session to
  stop, a second one installs its session, which the first then overwrites.
* **Ids that start again.** Entity and component ids are counted from 0 whenever a
  module is loaded, and the storage keeps the keys. `MCNamespace` shows that keys
  keep their meaning when a version adds sources after the existing ones;
  `MCNamespaceReorder` that they do not when it adds one before, although the
  capability graph document says that ids are retired with their module.

Four more observations have no run of their own. A cascade with a value
of 8 to 16 MiB is appended, synced and reported durable, and no later `open`
succeeds: the write side checks only the size of the record, the read side that
of every field. This falls short of "Appends one durable transaction"
(`wal.zig:142`), takes everything else in the journal with it, and is why
`DurablePromises` is conditional; without the disjunct that allows it
(`phase # "corrupt"` in place of `CorruptIsWide`) TLC refutes it in `MCWalStrict`.
With `Ties = TRUE` in
`MCWalStrict.cfg`, `DurableFactsStayLive` fails: publication that runs out of
memory is rolled back twice, and the second pass removes a fact whose timestamp
equals the rejected one. With `Prompt = FALSE` in `MCDeployment.cfg`,
`OneRunning` fails: `runForever` clears a stop request that came before it. And
the retry loop described above does not retry, though its log message says
"WAL commit failed after retries".

## Proofs

TLAPS checks the theorems below for every value of the constants that satisfies
the modules' assumptions: any clients, keys, rules, sessions, namespaces, queue
limits, faults, module descriptors and bounds. Each invariant and each action
property that a passing run checks has a theorem; where a theorem has a
hypothesis, it is the condition under which the run holds, and a failing run or an observation
above shows what happens without it.

The assumptions say that bounds are natural numbers and that constants are of
their kind; besides, an absent value is not a value (`NoValue \notin Values`) and
a session has finitely many keys, at least one. The hypotheses:

| Hypothesis | Means | Why the code justifies it |
|---|---|---|
| `WholeWritesOrNoAcks` | a write is whole or fails as a whole, or nobody calls `ack` | the engine calls only `flushCascade`; without it `MCWalTorn` |
| `~Acks` | nobody calls `ack` | the same |
| `OneRollback` | no allocation fails during publication, or no two requests bear one timestamp | the clock's stamps are unique (`HappensBefore`); without it the second of two rollbacks removes a durable fact |
| `Serial` | one deployer, and a spawned session starts before the next deployment looks for it | without them `MCDeploymentRace`, and a forgotten stop request |
| `NoStrings` | rules write no JSON strings | without it `MCCascadeText` |
| `VersionsAgree` | two versions of a namespace's module give a key they share the same mapper | follows from `VersionsAppend` (`AppendingAgrees`); false of `MCNamespaceReorder` |
| `VersionsAppend` | of two versions one has the other's sources, in the same export order, and adds some after them | nothing in the code enforces it, it is the condition under which ids that start again at 0 mean the same; without it `MCNamespaceReorder` |
| `VersionsServe` | `VersionsAppend`; a version that watches a component which another one declares declares it too (`WatchesDeclared`); no source, component, rule or watch of a module is named twice (`DistinctNames`) | a watch that names nothing is dropped silently, so a version that still watches what it no longer declares consumes old entries without calling the rule; the SDK names sources and rules by their exports (`__slung_source_…`, `__slung_rule_…`, which differ within a module) and components by the fields of a struct; a watch listed twice calls the rule twice. Without `WatchesDeclared`, or with a watch listed twice, TLC finds `EntriesServed` violated within a deployment or two. `AppendingServes` in `MCNamespace` has TLC evaluate it on the versions of the run |

### Write-ahead log

`WalProofs`, `WalQueueProofs` and `WalLiveProofs` build on one another. The
inductive invariants, in the order in which they are needed:

* `Control` (with `TypeOK`: `WalTypeOK`). Types alone are not inductive:
  `undo[idx]` and `group[idx]` must be in range (`IndexInv`), nothing runs during
  recovery (`ReplayQuiet`), a failed log holds no queue (`FailedQuiet`), eventual
  mode never publishes (`EventualQuiet`).
* `IdsBounded` (`WalPendingIdsIncrease`): every id is below the counter, except
  while a strict group is failing. A group that is being undone stays so until it
  is reported (`GroupFailing`), and nothing draws an id then.
* `FileInv` (`WalPromisesSynced`) says where a fragment can be: only at the end of
  the file, and only when the writer has failed or is failing (`TornLast`) or
  before recovery has cut it off (`ReplayedClean`, `CleanRecords`), which it never
  does when it gives up over an oversized record before it; and that a
  group about to be reported has reached the file (`GroupWritten`).
* `QueueInv` (`WalWaitersAreHeld`): who polls is queued or in the group, an idle
  writer has no group, an exited one was asked to stop and left no queue.
* `OrderInv` (`WalShutdownDrains`, `WalRecoveredIsPrefix`): the history of admitted
  records is the file, then the rest of the group, then the queue, position by
  position, as long as nothing failed; after a failure the file is still a prefix
  of it. A crash image is therefore a prefix of the history, which needs no
  hypothesis at all. `Replay` stays opaque here.
* `LogInv` adds that only the last record of the history can be torn
  (`HistoryWhole`), and gives the step simulation of `WalImplementsDurableLog`:
  initial states map to initial states, `AppendRecord` and publication to stutters,
  an admission to an append, a successful fsync to a sync, a commit to a report, a
  failure or a crash to a loss of the undurable end.
* `UndoInv` (`WalFailedGroupLeavesNoFact`): undoing the entries of the list that
  are left, newest first, gives back the facts from before the group
  (`Undoable`), or the facts are those already and the list can do nothing to them
  (`Undone`, `Inert`). The second part is the double rollback: an attempt to prove
  the property without `OneRollback` fails there, and TLC confirms the
  counterexample.
* `FreshInv` (no fact, undo entry or record carries a timestamp that a request
  still to come will use) and `LiveInv` (what is in the file or ahead of it in the
  writer's hands is covered by the live facts and by the facts a rollback
  restores): `WalDurableFactsStayLive`.
* `CallInv` (a client has one request at a time) and `AgreeInv`
  (`WalReplayAgreement`, `WalDurablePromises`): the replay of the published part of
  the history agrees with the live facts, counter and pending list (`Agrees`),
  recovery in progress agrees with the replay of what it has read
  (`RecoveryAgrees`), and an acknowledgement, be it with a caller, in the history
  or in the file, names an id already handed out (`CallersAckOlder`,
  `HistoryAcksOlder`, `FileAcksOlder`), so that applying the record acknowledges
  the same work at replay, and no later record brings it back (`DoneGone`).

`Replay` is a fold, and the library's induction theorems take an operator, which
the provers cannot instantiate. `SequenceLemmas` goes round that:
`IntervalInduction` is induction over 0..n with a set in place of the predicate (the
least number outside the set gives the contradiction), and `FoldExists` shows that
the function a fold is defined by exists. `FlattenElements` says by the same induction what a
flattened sequence of sequences contains, which the graph proofs need. `ReplaySteps` turns this into the states
of a replay, one `Apply` apart, so that what holds at every position of a journal
(`AtIsSound`, `AtCovers`, `AtGone`) is proved record by record, while the invariants
themselves only compare one more record with one more step of the program.
`ReplayAgreement` states the order of pending work as "replayed entries are live
ones, by increasing id": with `PendingIdsIncrease` that is the order of the live
list.

### Clock, session, deployment, namespaces

* `TimestampsTotallyOrdered`: `Timestamp.compare` is a strict total order.
  `HlcCorrect`, `HlcClockCoversStore`: the strengthening `ClockInv` says that a
  node's clock covers all that it knows (`Covered`), that what it stored is known
  (`StoredKnown`), and that a non-empty store has a newest stamp (`HasLatest`),
  which the restart needs.
* `CascadeTypeOK`, `RunsLeaveNothingHolds`, `NoLostWakeupHolds`: `LoopInv` ties the
  position in the loop to queue, outputs and undo list (`LoopOK`), the undo list to the
  writes and the queue to those not yet served (`WritesOK`), the undo entries of one
  key to one another and to the cached cell (`ChainOK`), pending work to stored facts
  (`PendingOK`), and every served write to a start of each watcher after it
  (`WakeupOK`). `CacheCoherentHolds` adds `CacheOK`: the cell that rolling back
  to any point of the undo list would bring back is the stored one. Restoring
  backwards over several writes of one key is where that is needed.
* `DeploymentTypeOK`, and under `Serial` `SerialOneRunning`, `SerialAccounted`,
  `SerialRecordMatches`, `SerialCurrentReachable`, `SerialRoutesOwned`: `SerialInv`
  says what the request under way holds (`RequestsSerial`), which sessions exist
  by then (`SessionsMade`), who owns each (`SessionsOwned`) and that a route is
  listed by the session it leads to (`RoutesListed`).
* `StoreAnswersHold`, `StoreNoAbandonedTransaction`: `StoreInv` says that an open
  transaction belongs to exactly one call (`TransactionOwned`), that the connection's
  rows are the committed ones except for that call's change (`ViewExplained`), and
  which values the answer still owed may settle on (`AnswerOwed`).
* `MeaningKept`, `AppendingKeepsMeaning`: `MeaningInv` says that whatever is stored
  was written by some graph of its namespace. What two graphs have in common follows
  from how a graph is built. `ReadInv` holds of the builder after every source: ids
  are below the counters and a key stands for a component that was declared;
  `OneToOne` that, without repeated names, a name resolves to one key and a key to
  one name. `LaterVersion` compares the builders of two versions source by source,
  `RulesRegistered` shows that reading the rules changes none of it, and `GraphsAre`
  sums up what the two indices say, for every order of the rules.
* `NamespaceTypeOK` needs no hypothesis: `SessionsTyped` ties a session's graph and
  run to its module, and a run's candidates are ids of that module's rules. In the
  code a candidate without a reverse entry would be skipped by a `continue` that
  leaves its place in the sorted array undefined (`loop.zig:122-125`); the
  theorem says that there is none.
* `EntriesAreServed`: `ServeInv` says that a run in progress is about its namespace's
  oldest entry, that the rules it has invoked and those it has left are together
  the ones that watch the entry's component, and that nothing it has left was
  invoked or has a higher priority than what was (`RunOrdered`). `OldestStays` shows
  that no step of another session moves another entry to the front, which takes
  the ids being in order (`IdsCounted`); `CandidatesWatch` that the candidates are
  the right rules also when an older or a newer version wrote the entry. The second
  half of that is where `WatchesDeclared` is needed: the key may be missing from the
  graph, and then no rule of this version may be waiting for it.

### Only model-checked

* Liveness (`CallsReturn`, `QueuedBecomesDurable`, `WorkDrains`, `DeploysReturn`,
  `MailTaken`, `OwnWorkServed`): the prover has neither fairness nor ENABLED.
* `PendingHasFact` in strict mode is false (`MCWalPhantom`); it is proved for
  eventual mode.

## Not modelled

* SQLite (`lib/sqlite`, a vendored amalgamation of some 236 000 lines) is third
  party code. It is modelled only as the external connection of ModuleStore. It
  is also the only C in the repository: slung itself is written in Zig, so a
  count of mapped C lines says nothing about this project.
* Memory ownership. Known places: the strict
  failure path that releases a request twice, the ring buffer freed at the end of
  `ModuleSession.init`, the WebSocket receive buffer, and the deployment envelope
  that a failing answer frees under the running session.
* The reference count of `Arc`, the lock inside `Mutex`: used as atomic sections.
* The envelope codec, JSON and TOML parsing, command line, outgoing HTTP, the
  stubs of the host ABI, containers the engine does not use, the guest SDKs.

## Plan

Done: every component above modelled and checked, and the proofs of the section
before. Next:

1. Action properties of the log over the invariants already proved: the synced
   part of the file never changes, a reported record is never reported again as
   failed.
2. The dirty queue's ring buffer (`queue.zig`) as a refinement of the bounded
   sequence Cascade uses.
