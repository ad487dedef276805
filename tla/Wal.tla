-------------------------------- MODULE Wal --------------------------------
(***************************************************************************)
(* The write-ahead log of slung (src/src/wal.zig): the in-memory fact map, *)
(* the pending-work list and the request queue that callers share with one *)
(* writer thread, and the journal file the writer appends to.              *)
(*                                                                         *)
(* Granularity.  Everything the code does inside one hold of `mutex` is    *)
(* one action, except the two loops the writer runs while it holds it      *)
(* (publication and rollback), which take one action per request; the      *)
(* predicate MutexFree keeps every other actor out meanwhile.  File writes *)
(* and fsync happen outside `mutex` and interleave with everything.        *)
(*                                                                         *)
(* Data.  A (namespace, entity, component) key is a member of Keys.  A     *)
(* fact is its timestamp: values and causes travel with it and no control  *)
(* flow reads them.  A request is coalesced to the set of keys it writes   *)
(* and one timestamp.  The engine's batches hold a single mutation         *)
(* (context.zig:179-183); a cascade writes any set of keys.  Of the bytes  *)
(* of its fields only their size counts, in three classes: one field may   *)
(* exceed MaxFieldSize (8 MiB), which writing accepts and reading refuses, *)
(* and the whole may exceed MaxRecordSize (16 MiB), which writing refuses. *)
(***************************************************************************)
EXTENDS Naturals, FiniteSets, Sequences, SequencesExt

CONSTANTS
    Clients,            \* threads that call the WAL
    Keys,               \* fact keys
    Durability,         \* "strict" or "eventual", one mode per Storage
    MaxQueuedRequests,  \* 4096 in the code
    Acks,               \* TRUE: clients also call ack; the engine never does
    Sizes,              \* size classes of the records callers submit
    Faults,             \* the faults the environment may inject
    Ties,               \* TRUE: callers may reuse a timestamp
    MaxCalls,           \* bound: calls issued in a behaviour
    MaxRestarts         \* bound: crashes and reopenings in a behaviour

ASSUME WalAssumption ==
    /\ Durability \in {"strict", "eventual"}
    /\ MaxQueuedRequests \in Nat \ {0}
    /\ Acks \in BOOLEAN
    /\ Sizes \subseteq {"fits", "wide", "huge"}
    /\ Faults \subseteq {"write", "torn", "sync", "oom"}
    /\ Ties \in BOOLEAN
    /\ MaxCalls \in Nat
    /\ MaxRestarts \in Nat

VARIABLES
    phase,      \* "replay" while open() recovers, "open", or "corrupt"
    pos,        \* index of the next journal entry recover() reads
    facts,      \* timestamp of the current fact of every key, Absent if none
    pending,    \* pending dirty work, oldest first
    next_id,    \* identifier of the next pending entry
    requests,   \* requests queued for the writer
    failed,     \* the writer has failed for good
    stopping,   \* deinit() asked the writer to stop
    worker,     \* control state of the writer thread
    group,      \* requests of the commit group being written
    idx,        \* position in the group or in the undo list
    attempt,    \* write attempts of the group that have failed
    undo,       \* publication_undo: what the group replaced
    saved,      \* publication_pending_start and publication_next_id
    caller,     \* control state of every client and the record it submits
    file,       \* journal entries in file order
    synced,     \* length of the prefix of file an fsync has covered
    issued,     \* history: calls issued so far, and the callers' clock
    restarts,   \* history: restarts so far
    history,    \* history: the records admitted, in order; once requests
                \* have been lost, the records of the journal
    promised,   \* history: records the WAL has promised are durable
    before      \* history: the facts when the current group was taken

phaseVars  == <<phase, pos>>
liveVars   == <<facts, pending, next_id>>
queueVars  == <<requests, failed, stopping>>
workerVars == <<worker, group, idx, attempt, undo, saved>>
fileVars   == <<file, synced>>
boundVars  == <<issued, restarts>>
ghostVars  == <<history, promised, before>>
vars == <<phaseVars, liveVars, queueVars, workerVars, caller, fileVars,
          boundVars, ghostVars>>

-----------------------------------------------------------------------------
(* Values.                                                                 *)

Absent == 0
Facts == [Keys -> Nat]
PendingDirty == [id : Nat, key : Keys]

Kinds == {"none", "batch", "cascade", "ack", "torn"}
SizeClasses == {"fits",  \* every field is at most MaxFieldSize
                "wide",  \* some field is larger, the record is not
                "huge"}  \* the record is larger than MaxRecordSize
Record == [kind : Kinds, keys : SUBSET Keys, ts : Nat, ack : Nat, size : SizeClasses]
Request == [client : Clients, rec : Record]
FactUndo == [keys : SUBSET Keys, ts : Nat, previous : Facts]

NoRecord == [kind |-> "none", keys |-> {}, ts |-> 0, ack |-> 0, size |-> "fits"]
Torn == [NoRecord EXCEPT !.kind = "torn"]
BatchRecord(k, t, z) ==
    [kind |-> "batch", keys |-> {k}, ts |-> t, ack |-> 0, size |-> z]
CascadeRecord(S, t, id, z) ==
    [kind |-> "cascade", keys |-> S, ts |-> t, ack |-> id, size |-> z]
AckRecord(id) ==
    [kind |-> "ack", keys |-> {}, ts |-> 0, ack |-> id, size |-> "fits"]

(* writeRecord refuses a record above MaxRecordSize, getBytes a field      *)
(* above MaxFieldSize that putBytes took.                                  *)
WriteRefused(r) == r.size = "huge"
ReadRefused(r) == r.size = "wide"

CallerStates == {"idle", "admit", "ack", "wait", "done", "error"}
WorkerStates == {"none", "idle", "publish", "unpublish", "append", "relock",
                 "rollback", "commit", "abort", "exited"}

-----------------------------------------------------------------------------
(* Effects on the live state, as functions of the state they act on.       *)

(* The keys for which a mutation at t beats the current fact.              *)
Newer(f, S, t) == {k \in S : t > f[k]}

(* applyMutationNoDirty: last writer wins, strictly by timestamp.          *)
Put(f, S, t) == [k \in Keys |-> IF k \in Newer(f, S, t) THEN t ELSE f[k]]

Accepted(f, r) == r.kind = "batch" /\ Newer(f, r.keys, r.ts) # {}

(* applyMutation: an accepted batch mutation also enters the pending list. *)
AddPending(f, p, n, r) ==
    IF Accepted(f, r)
    THEN Append(p, [id |-> n, key |-> CHOOSE k \in r.keys : TRUE])
    ELSE p

(* Variant: the counter stays where it is.                                 *)
NextId_Constant(f, n, r) == n

NextId(f, n, r) == IF Accepted(f, r) THEN n + 1 ELSE n

RemovePending(p, id) == RemoveFirstMatch(p, LAMBDA item : item.id = id)

(* The acknowledgement a cascade or ack record carries.                    *)
Acknowledge(p, r) ==
    IF r.kind \in {"cascade", "ack"} THEN RemovePending(p, r.ack) ELSE p

(* rollbackFacts, one undo entry: a fact is put back only while the        *)
(* published timestamp is still the current one, and the saved fact is     *)
(* moved out of the entry, so a second pass finds none.                    *)
(* Variant: the timestamp is not compared.                                 *)
Restorable_Unchecked(f, u) == u.keys

Restorable(f, u) == {k \in u.keys : f[k] = u.ts}
Restore(f, u) ==
    [k \in Keys |-> IF k \in Restorable(f, u) THEN u.previous[k] ELSE f[k]]
Consume(f, u) ==
    [u EXCEPT !.previous =
        [k \in Keys |-> IF k \in Restorable(f, u) THEN Absent
                                                  ELSE u.previous[k]]]

(* rollbackPending: pop back to the saved length.                          *)
PopPending(p, start) == IF Len(p) > start THEN SubSeq(p, 1, start) ELSE p

UndoEntry(f, S, t) ==
    [keys |-> S, ts |-> t,
     previous |-> [k \in Keys |-> IF k \in S THEN f[k] ELSE Absent]]
AddUndo(f, u, S, t) == IF S = {} THEN u ELSE Append(u, UndoEntry(f, S, t))

(* A mutation list interrupted by a failed allocation: the keys of done    *)
(* were applied, at most one more has an undo entry but was not applied.   *)
Interrupted(S, done, noted) ==
    /\ done \subseteq noted /\ noted \subseteq S
    /\ done # S \/ S = {}
    /\ Cardinality(noted) <= Cardinality(done) + 1

-----------------------------------------------------------------------------
Writing == worker \in {"publish", "unpublish", "append", "relock", "rollback",
                       "commit", "abort"}
MutexFree == worker \notin {"publish", "unpublish", "rollback"}

EmptyFacts == [k \in Keys |-> Absent]
Idle == [pc |-> "idle", rec |-> NoRecord]
PendingIds == {pending[i].id : i \in 1..Len(pending)}
Timestamps == IF Ties THEN 1..(issued + 1) ELSE {issued + 1}

Init ==
    /\ phase = "open" /\ pos = 1
    /\ facts = EmptyFacts /\ pending = <<>> /\ next_id = 1
    /\ requests = <<>> /\ failed = FALSE /\ stopping = FALSE
    /\ worker = "none" /\ group = <<>> /\ idx = 1 /\ attempt = 0
    /\ undo = <<>> /\ saved = [len |-> 0, next |-> 1]
    /\ caller = [c \in Clients |-> Idle]
    /\ file = <<>> /\ synced = 0
    /\ issued = 0 /\ restarts = 0
    /\ history = <<>> /\ promised = {} /\ before = EmptyFacts

-----------------------------------------------------------------------------
(* Callers.                                                                *)

Moved(c, pc) == caller' = [caller EXCEPT ![c].pc = pc]
Returned(c) == caller' = [caller EXCEPT ![c] = Idle]

(* The part of a call before it takes the mutex: the arguments are copied  *)
(* into a request, whatever their size: slung_set bounds no value.  A      *)
(* cascade or an ack carries the id of pending work the caller read        *)
(* earlier with nextPendingFor.                                            *)
Call(c, pc, r) ==
    /\ phase = "open" /\ ~stopping
    /\ caller[c].pc = "idle"
    /\ MutexFree
    /\ issued < MaxCalls
    /\ issued' = issued + 1
    /\ caller' = [caller EXCEPT ![c] = [pc |-> pc, rec |-> r]]
    /\ UNCHANGED <<phaseVars, liveVars, queueVars, group, idx, attempt, undo,
                   saved, fileVars, restarts, ghostVars>>

(* enqueueBatch and flushCascade start the writer if there is none.        *)
Start == worker' = IF worker = "none" THEN "idle" ELSE worker

CallBatch(c) ==
    /\ \E k \in Keys, t \in Timestamps, z \in Sizes :
           Call(c, "admit", BatchRecord(k, t, z))
    /\ Start

CallCascade(c) ==
    /\ \E S \in SUBSET Keys, t \in Timestamps, id \in PendingIds, z \in Sizes :
           /\ S = {} => z = "fits"
           /\ Call(c, "admit", CascadeRecord(S, t, id, z))
    /\ Start

CallAck(c) ==
    /\ Acks
    /\ \E id \in PendingIds : Call(c, "ack", AckRecord(id))
    /\ UNCHANGED worker

(* A request is admitted under the mutex once the queue has room.          *)
Admissible(c) ==
    /\ caller[c].pc = "admit"
    /\ MutexFree
    /\ ~failed
    /\ Len(requests) < MaxQueuedRequests

Enqueue(c) ==
    /\ requests' = Append(requests, [client |-> c, rec |-> caller[c].rec])
    /\ history' = Append(history, caller[c].rec)
    /\ UNCHANGED <<phaseVars, failed, stopping, workerVars, fileVars,
                   boundVars, promised, before>>

(* Strict mode: the request is queued and the caller polls request.done.   *)
AdmitStrict(c) ==
    /\ Durability = "strict"
    /\ Admissible(c)
    /\ Enqueue(c)
    /\ Moved(c, "wait")
    /\ UNCHANGED liveVars

(* Variant: the id counter is not advanced with the pending list.          *)
AdmitEventual_ReusesId(c) ==
    LET r == caller[c].rec IN
    /\ Durability = "eventual"
    /\ Admissible(c)
    /\ Enqueue(c)
    /\ facts' = Put(facts, r.keys, r.ts)
    /\ pending' = Acknowledge(AddPending(facts, pending, next_id, r), r)
    /\ Returned(c)
    /\ UNCHANGED next_id

(* Eventual mode: live state and queue change in one critical section, and *)
(* the call returns.                                                       *)
AdmitEventual(c) ==
    LET r == caller[c].rec IN
    /\ Durability = "eventual"
    /\ Admissible(c)
    /\ Enqueue(c)
    /\ facts' = Put(facts, r.keys, r.ts)
    /\ pending' = Acknowledge(AddPending(facts, pending, next_id, r), r)
    /\ next_id' = NextId(facts, next_id, r)
    /\ Returned(c)

(* Variant: the facts are undone and the pending entry is not.             *)
AdmitOom_KeepsPending(c) ==
    /\ "oom" \in Faults
    /\ Admissible(c)
    /\ pending' = AddPending(facts, pending, next_id, caller[c].rec)
    /\ next_id' = NextId(facts, next_id, caller[c].rec)
    /\ Returned(c)
    /\ UNCHANGED <<phaseVars, facts, queueVars, workerVars, fileVars, boundVars,
                   ghostVars>>

(* An allocation fails during admission: the mutations already applied are *)
(* undone, the request is not queued, and the call returns the error.      *)
AdmitOom(c) ==
    LET r == caller[c].rec IN
    /\ "oom" \in Faults
    /\ Admissible(c)
    /\ \E done, noted \in SUBSET r.keys :
           /\ Interrupted(r.keys, done, noted)
           /\ Durability = "strict" => done = {}
           /\ facts' = Restore(Put(facts, done, r.ts),
                               UndoEntry(facts, noted, r.ts))
    /\ Returned(c)
    /\ UNCHANGED <<phaseVars, pending, next_id, queueVars, workerVars,
                   fileVars, boundVars, ghostVars>>

(* error.WalUnavailable at admission.                                      *)
AdmitRefused(c) ==
    /\ caller[c].pc = "admit"
    /\ MutexFree
    /\ failed
    /\ Returned(c)
    /\ UNCHANGED <<phaseVars, liveVars, queueVars, workerVars, fileVars,
                   boundVars, ghostVars>>

(* A strict caller sees request.done.  flushCascade then takes the mutex   *)
(* once more to drop the pending entry the cascade acknowledged.           *)
Return(c) ==
    /\ caller[c].pc \in {"done", "error"}
    /\ MutexFree
    /\ pending' = IF caller[c].pc = "done" THEN Acknowledge(pending, caller[c].rec)
                                           ELSE pending
    /\ Returned(c)
    /\ UNCHANGED <<phaseVars, facts, next_id, queueVars, workerVars, fileVars,
                   boundVars, ghostVars>>

(* ack: waits for a quiet writer, then appends and syncs its own record    *)
(* with the mutex held.  It does not look at `failed`.                     *)
AckReady(c) ==
    /\ caller[c].pc = "ack"
    /\ ~Writing
    /\ requests = <<>>

(* Variant: the record is written and not synced.                          *)
AckOk_NoSync(c) ==
    LET r == caller[c].rec IN
    /\ AckReady(c)
    /\ file' = Append(file, r)
    /\ pending' = RemovePending(pending, r.ack)
    /\ history' = Append(history, r)
    /\ promised' = promised \union {r}
    /\ Returned(c)
    /\ UNCHANGED <<phaseVars, facts, next_id, queueVars, workerVars, synced,
                   boundVars, before>>

AckOk(c) ==
    LET r == caller[c].rec IN
    /\ AckReady(c)
    /\ file' = Append(file, r)
    /\ synced' = Len(file) + 1
    /\ pending' = RemovePending(pending, r.ack)
    /\ history' = Append(history, r)
    /\ promised' = promised \union {r}
    /\ Returned(c)
    /\ UNCHANGED <<phaseVars, facts, next_id, queueVars, workerVars, boundVars,
                   before>>

(* The entries a failed write may leave behind.                            *)
WriteDebris == (IF "write" \in Faults THEN {<<>>} ELSE {})
               \union (IF "torn" \in Faults THEN {<<Torn>>} ELSE {})

AckFails(c) ==
    /\ AckReady(c)
    /\ \/ /\ \E debris \in WriteDebris : file' = file \o debris
          /\ UNCHANGED history
       \/ /\ "sync" \in Faults
          /\ file' = Append(file, caller[c].rec)
          /\ history' = Append(history, caller[c].rec)
    /\ Returned(c)
    /\ UNCHANGED <<phaseVars, liveVars, queueVars, workerVars, synced,
                   boundVars, promised, before>>

-----------------------------------------------------------------------------
(* The writer thread.                                                      *)

(* Variant: the writer waits for a second request to share the fsync.      *)
Take_WaitsForMore ==
    /\ worker = "idle" /\ Len(requests) > 1
    /\ group' = requests
    /\ requests' = <<>>
    /\ idx' = 1 /\ attempt' = 0 /\ undo' = <<>>
    /\ saved' = [len |-> Len(pending), next |-> next_id]
    /\ worker' = IF Durability = "strict" THEN "publish" ELSE "append"
    /\ before' = facts
    /\ UNCHANGED <<phaseVars, liveVars, failed, stopping, caller, fileVars,
                   boundVars, history, promised>>

(* The whole queue becomes one commit group.                               *)
Take ==
    /\ worker = "idle" /\ requests # <<>>
    /\ group' = requests
    /\ requests' = <<>>
    /\ idx' = 1 /\ attempt' = 0 /\ undo' = <<>>
    /\ saved' = [len |-> Len(pending), next |-> next_id]
    /\ worker' = IF Durability = "strict" THEN "publish" ELSE "append"
    /\ before' = facts
    /\ UNCHANGED <<phaseVars, liveVars, failed, stopping, caller, fileVars,
                   boundVars, history, promised>>

(* Strict requests are published before they are written.                  *)
Publish ==
    LET r == group[idx].rec IN
    /\ worker = "publish"
    /\ undo' = AddUndo(facts, undo, r.keys, r.ts)
    /\ facts' = Put(facts, r.keys, r.ts)
    /\ pending' = AddPending(facts, pending, next_id, r)
    /\ next_id' = NextId(facts, next_id, r)
    /\ IF idx < Len(group) THEN idx' = idx + 1 /\ UNCHANGED worker
                           ELSE idx' = 1 /\ worker' = "append"
    /\ UNCHANGED <<phaseVars, queueVars, group, attempt, saved, caller,
                   fileVars, boundVars, ghostVars>>

PublishOom ==
    LET r == group[idx].rec IN
    /\ "oom" \in Faults
    /\ worker = "publish"
    /\ \E done, noted \in SUBSET r.keys :
           /\ Interrupted(r.keys, done, noted)
           /\ r.keys # {}
           /\ undo' = AddUndo(facts, undo, noted, r.ts)
           /\ facts' = Put(facts, done, r.ts)
    /\ idx' = Len(undo')
    /\ worker' = "unpublish"
    /\ UNCHANGED <<phaseVars, pending, next_id, queueVars, group, attempt,
                   saved, caller, fileVars, boundVars, ghostVars>>

(* rollbackFacts and then rollbackPending, newest undo entry first.        *)
RollbackLoop(from, to) ==
    /\ worker = from
    /\ IF idx > 0
       THEN /\ facts' = Restore(facts, undo[idx])
            /\ undo' = [undo EXCEPT ![idx] = Consume(facts, undo[idx])]
            /\ idx' = idx - 1
            /\ UNCHANGED <<pending, next_id, worker>>
       ELSE /\ pending' = PopPending(pending, saved.len)
            /\ next_id' = saved.next
            /\ worker' = to
            /\ UNCHANGED <<facts, undo, idx>>
    /\ UNCHANGED <<phaseVars, queueVars, group, attempt, saved, caller,
                   fileVars, boundVars, ghostVars>>

(* Undone at once when publication itself failed ...                       *)
Unpublish == RollbackLoop("unpublish", "relock")

(* Variant: a failed group is reported without undoing its publication.    *)
Relock_NoRollback ==
    /\ worker = "relock"
    /\ idx' = Len(undo)
    /\ worker' = "abort"
    /\ UNCHANGED <<phaseVars, liveVars, queueVars, group, attempt, undo, saved,
                   caller, fileVars, boundVars, ghostVars>>

(* ... and undone, again in that case, once the group has failed.          *)
Relock ==
    /\ worker = "relock"
    /\ idx' = Len(undo)
    /\ worker' = IF undo # <<>> THEN "rollback" ELSE "abort"
    /\ UNCHANGED <<phaseVars, liveVars, queueVars, group, attempt, undo, saved,
                   caller, fileVars, boundVars, ghostVars>>

Rollback == RollbackLoop("rollback", "abort")

(* Variant: the group is written newest first.                             *)
AppendRecord_Reversed ==
    /\ worker = "append" /\ idx <= Len(group)
    /\ ~WriteRefused(group[Len(group) + 1 - idx].rec)
    /\ file' = Append(file, group[Len(group) + 1 - idx].rec)
    /\ idx' = idx + 1
    /\ UNCHANGED <<phaseVars, liveVars, queueVars, worker, group, attempt, undo,
                   saved, caller, synced, boundVars, ghostVars>>

(* writeRecord at the end of the file, one request after the other.        *)
AppendRecord ==
    /\ worker = "append" /\ idx <= Len(group)
    /\ ~WriteRefused(group[idx].rec)
    /\ file' = Append(file, group[idx].rec)
    /\ idx' = idx + 1
    /\ UNCHANGED <<phaseVars, liveVars, queueVars, worker, group, attempt, undo,
                   saved, caller, synced, boundVars, ghostVars>>

(* The loop runs `while (failure == null and attempt < 3)`: a failed       *)
(* attempt leaves `failure` set, so the first one is also the last.        *)
AttemptFails ==
    /\ attempt' = attempt + 1
    /\ worker' = "relock"

(* Variant: the error of a write is ignored.                               *)
AppendFails_Ignored ==
    /\ worker = "append" /\ idx <= Len(group)
    /\ ~WriteRefused(group[idx].rec)
    /\ \E debris \in WriteDebris : file' = file \o debris
    /\ idx' = idx + 1
    /\ UNCHANGED <<phaseVars, liveVars, queueVars, worker, group, attempt, undo,
                   saved, caller, synced, boundVars, ghostVars>>

AppendFails ==
    /\ worker = "append" /\ idx <= Len(group)
    /\ ~WriteRefused(group[idx].rec)
    /\ \E debris \in WriteDebris : file' = file \o debris
    /\ AttemptFails
    /\ UNCHANGED <<phaseVars, liveVars, queueVars, group, idx, undo, saved, caller,
                   synced, boundVars, ghostVars>>

(* error.WalRecordTooLarge: writeRecord refuses the record before it       *)
(* touches the file.  It is a write error like any other, and so the end   *)
(* of the writer.                                                          *)
AppendTooLarge ==
    /\ worker = "append" /\ idx <= Len(group)
    /\ WriteRefused(group[idx].rec)
    /\ AttemptFails
    /\ UNCHANGED <<phaseVars, liveVars, queueVars, group, idx, undo, saved, caller,
                   fileVars, boundVars, ghostVars>>

(* Variants: the group is reported without fsync; one record too many is  *)
(* taken for synced.                                                       *)
SyncGroup_NoSync ==
    /\ worker = "append" /\ idx > Len(group)
    /\ worker' = "commit"
    /\ UNCHANGED <<phaseVars, liveVars, queueVars, group, idx, attempt, undo,
                   saved, caller, fileVars, boundVars, ghostVars>>

SyncGroup_PastEnd ==
    /\ worker = "append" /\ idx > Len(group)
    /\ synced' = Len(file) + 1
    /\ worker' = "commit"
    /\ UNCHANGED <<phaseVars, liveVars, queueVars, group, idx, attempt, undo,
                   saved, caller, file, boundVars, ghostVars>>

SyncGroup ==
    /\ worker = "append" /\ idx > Len(group)
    /\ synced' = Len(file)
    /\ worker' = "commit"
    /\ UNCHANGED <<phaseVars, liveVars, queueVars, group, idx, attempt, undo,
                   saved, caller, file, boundVars, ghostVars>>

(* Variant: the error of fsync is ignored.                                 *)
SyncFails_Ignored ==
    /\ "sync" \in Faults
    /\ worker = "append" /\ idx > Len(group)
    /\ worker' = "commit"
    /\ UNCHANGED <<phaseVars, liveVars, queueVars, group, idx, attempt, undo,
                   saved, caller, fileVars, boundVars, ghostVars>>

SyncFails ==
    /\ "sync" \in Faults
    /\ worker = "append" /\ idx > Len(group)
    /\ AttemptFails
    /\ UNCHANGED <<phaseVars, liveVars, queueVars, group, idx, undo, saved, caller,
                   fileVars, boundVars, ghostVars>>

Waiting(q) == {c \in Clients : /\ caller[c].pc = "wait"
                               /\ \E i \in 1..Len(q) : q[i].client = c}
Signal(S, pc) ==
    caller' = [c \in Clients |-> IF c \in S THEN [caller[c] EXCEPT !.pc = pc]
                                            ELSE caller[c]]

Commit ==
    /\ worker = "commit"
    /\ Signal(Waiting(group), "done")
    /\ promised' = promised \union {group[i].rec : i \in 1..Len(group)}
    /\ worker' = "idle" /\ group' = <<>> /\ undo' = <<>>
    /\ UNCHANGED <<phaseVars, liveVars, queueVars, idx, attempt, saved,
                   fileVars, boundVars, history, before>>

(* Variant: queued requests are dropped and their callers not woken.       *)
Abort_LeavesQueued ==
    /\ worker = "abort"
    /\ Signal(Waiting(group), "error")
    /\ failed' = TRUE
    /\ requests' = <<>>
    /\ worker' = "idle" /\ group' = <<>> /\ undo' = <<>>
    /\ history' = file
    /\ UNCHANGED <<phaseVars, liveVars, stopping, idx, attempt, saved,
                   fileVars, boundVars, promised, before>>

(* The failure is terminal: everything still queued is rejected with it.   *)
Abort ==
    /\ worker = "abort"
    /\ Signal(Waiting(group) \union Waiting(requests), "error")
    /\ failed' = TRUE
    /\ requests' = <<>>
    /\ worker' = "idle" /\ group' = <<>> /\ undo' = <<>>
    /\ history' = file
    /\ UNCHANGED <<phaseVars, liveVars, stopping, idx, attempt, saved,
                   fileVars, boundVars, promised, before>>

(* Variant: `stopping` is obeyed at once.                                  *)
WorkerExit_NoDrain ==
    /\ worker = "idle" /\ stopping
    /\ worker' = "exited"
    /\ UNCHANGED <<phaseVars, liveVars, queueVars, group, idx, attempt, undo,
                   saved, caller, fileVars, boundVars, ghostVars>>

(* The writer drains the queue before it obeys `stopping`.                 *)
WorkerExit ==
    /\ worker = "idle" /\ requests = <<>> /\ stopping
    /\ worker' = "exited"
    /\ UNCHANGED <<phaseVars, liveVars, queueVars, group, idx, attempt, undo,
                   saved, caller, fileVars, boundVars, ghostVars>>

-----------------------------------------------------------------------------
(* Shutdown, crash and recovery.                                           *)

Deinit ==
    /\ phase = "open" /\ ~stopping
    /\ \A c \in Clients : caller[c].pc = "idle"
    /\ stopping' = TRUE
    /\ worker' = IF worker = "none" THEN "exited" ELSE worker
    /\ UNCHANGED <<phaseVars, liveVars, requests, failed, group, idx, attempt,
                   undo, saved, caller, fileVars, boundVars, ghostVars>>

(* A process that opens the journal with nothing in memory.                *)
Restart ==
    /\ restarts < MaxRestarts
    /\ restarts' = restarts + 1
    /\ phase' = "replay" /\ pos' = 1
    /\ facts' = EmptyFacts /\ pending' = <<>> /\ next_id' = 1
    /\ requests' = <<>> /\ failed' = FALSE /\ stopping' = FALSE
    /\ worker' = "none" /\ group' = <<>> /\ idx' = 1 /\ attempt' = 0
    /\ undo' = <<>> /\ saved' = [len |-> 0, next |-> 1]
    /\ caller' = [c \in Clients |-> Idle]
    /\ UNCHANGED <<issued, ghostVars>>

Reopen ==
    /\ worker = "exited"
    /\ Restart
    /\ UNCHANGED fileVars

(* A crash keeps what fsync covered and any longer prefix of the rest,     *)
(* the last surviving record possibly cut short.                           *)
Crash ==
    /\ phase # "corrupt"
    /\ Restart
    /\ \E n \in synced..Len(file) :
           \/ file' = SubSeq(file, 1, n)
           \/ n < Len(file) /\ file' = Append(SubSeq(file, 1, n), Torn)
    /\ synced' = Len(file')

Recovered ==
    /\ phase' = "open"
    /\ history' = file'
    /\ promised' = promised \union {file'[i] : i \in 1..synced'}
    /\ UNCHANGED <<pos, liveVars, queueVars, workerVars, caller, boundVars,
                   before>>

ReplayRecord ==
    LET r == file[pos] IN
    /\ phase = "replay" /\ pos <= Len(file)
    /\ r.kind # "torn" /\ ~ReadRefused(r)
    /\ facts' = Put(facts, r.keys, r.ts)
    /\ pending' = Acknowledge(AddPending(facts, pending, next_id, r), r)
    /\ next_id' = NextId(facts, next_id, r)
    /\ pos' = pos + 1
    /\ UNCHANGED <<phase, queueVars, workerVars, caller, fileVars, boundVars,
                   ghostVars>>

ReplayDone ==
    /\ phase = "replay" /\ pos > Len(file)
    /\ UNCHANGED fileVars
    /\ Recovered

(* A record whose declared length runs past the end of the file is taken   *)
(* for a torn tail: the file is truncated there, whatever follows it.      *)
ReplayTorn ==
    /\ phase = "replay" /\ pos <= Len(file)
    /\ file[pos].kind = "torn"
    /\ file' = SubSeq(file, 1, pos - 1)
    /\ synced' = IF synced < pos THEN synced ELSE pos - 1
    /\ Recovered

(* error.CorruptWal, and open() fails: with enough bytes after it, a       *)
(* fragment reads as a complete record of the wrong checksum; or a field   *)
(* is too long to be read.                                                 *)
ReplayCorrupt ==
    /\ phase = "replay" /\ pos <= Len(file)
    /\ \/ file[pos].kind = "torn" /\ pos < Len(file)
       \/ ReadRefused(file[pos])
    /\ phase' = "corrupt"
    /\ UNCHANGED <<pos, liveVars, queueVars, workerVars, caller, fileVars,
                   boundVars, ghostVars>>

-----------------------------------------------------------------------------
CallerNext(c) ==
    \/ CallBatch(c) \/ CallCascade(c) \/ CallAck(c)
    \/ AdmitStrict(c) \/ AdmitEventual(c) \/ AdmitOom(c) \/ AdmitRefused(c)
    \/ Return(c) \/ AckOk(c) \/ AckFails(c)

WorkerNext ==
    \/ Take \/ Publish \/ PublishOom \/ Unpublish \/ Relock \/ Rollback
    \/ AppendRecord \/ AppendFails \/ AppendTooLarge \/ SyncGroup \/ SyncFails
    \/ Commit \/ Abort \/ WorkerExit

ReplayNext == ReplayRecord \/ ReplayDone \/ ReplayTorn \/ ReplayCorrupt

Next ==
    \/ \E c \in Clients : CallerNext(c)
    \/ WorkerNext
    \/ ReplayNext
    \/ Deinit \/ Reopen \/ Crash

Spec == Init /\ [][Next]_vars

-----------------------------------------------------------------------------
(* Type invariant.                                                         *)
TypeOK ==
    /\ phase \in {"replay", "open", "corrupt"}
    /\ pos \in Nat \ {0}
    /\ facts \in Facts
    /\ pending \in Seq(PendingDirty)
    /\ next_id \in Nat \ {0}
    /\ requests \in Seq(Request)
    /\ failed \in BOOLEAN
    /\ stopping \in BOOLEAN
    /\ worker \in WorkerStates
    /\ group \in Seq(Request)
    /\ idx \in Nat
    /\ attempt \in Nat
    /\ undo \in Seq(FactUndo)
    /\ saved \in [len : Nat, next : Nat \ {0}]
    /\ caller \in [Clients -> [pc : CallerStates, rec : Record]]
    /\ file \in Seq(Record)
    /\ synced \in 0..Len(file)
    /\ issued \in Nat
    /\ restarts \in Nat
    /\ history \in Seq(Record)
    /\ promised \in SUBSET Record
    /\ before \in Facts
=============================================================================
