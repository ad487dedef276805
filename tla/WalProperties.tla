--------------------------- MODULE WalProperties ---------------------------
(***************************************************************************)
(* What the write-ahead log promises, over the states of module Wal.       *)
(***************************************************************************)
EXTENDS Wal

(* A sequence of records that can be written and that recover() reads to   *)
(* its end: no fragment, no record that writeRecord refuses, no field that *)
(* getBytes refuses.                                                       *)
Readable(recs) ==
    \A i \in 1..Len(recs) : /\ recs[i].kind # "torn"
                             /\ ~WriteRefused(recs[i]) /\ ~ReadRefused(recs[i])

(* What recover() makes of readable journal records: the reference the     *)
(* live state is compared with.                                            *)
Blank == [facts |-> EmptyFacts, pending |-> <<>>, next_id |-> 1]

Apply(s, r) ==
    [facts   |-> Put(s.facts, r.keys, r.ts),
     pending |-> Acknowledge(AddPending(s.facts, s.pending, s.next_id, r), r),
     next_id |-> NextId(s.facts, s.next_id, r)]

Replay(recs) == FoldLeft(Apply, Blank, recs)

Records(q) == [i \in 1..Len(q) |-> q[i].rec]
Prefix(s, n) == SubSeq(s, 1, n)

(* The journal as it will be once the writer has caught up.  Strict        *)
(* requests have no effect before their group is taken.                    *)
Unwritten == IF worker = "append" THEN SubSeq(group, idx, Len(group)) ELSE <<>>
Journal ==
    file \o Records(Unwritten)
         \o (IF Durability = "eventual" THEN Records(requests) ELSE <<>>)

(* The states in which open() can succeed after a crash now: recovery      *)
(* truncates at the first fragment.                                        *)
Image(n) ==
    LET torn == SelectInSeq(file, LAMBDA r : r.kind = "torn")
    IN  IF torn = 0 \/ n < torn THEN Prefix(file, n) ELSE Prefix(file, torn - 1)
CrashStates ==
    {Replay(Image(n)) : n \in {m \in synced..Len(file) : Readable(Image(m))}}

(* open() fails only over a record with a field above MaxFieldSize: such a *)
(* record is accepted, written and reported like any other, and refused by *)
(* every later recovery.                                                   *)
CorruptIsWide == phase = "corrupt" => \E i \in 1..Len(file) : ReadRefused(file[i])

Steady == /\ phase = "open" /\ ~failed
          /\ worker \in {"none", "idle", "append", "commit", "exited"}

(***************************************************************************)
(* While no group has failed, replaying a readable journal (what is on     *)
(* file, what the writer still has to append, what is queued) yields the   *)
(* live facts, the live id counter and live pending entries, oldest first  *)
(* as in the live list.  So the ids that cascade and ack records carry     *)
(* mean the same work on replay as they did live.  A live pending entry    *)
(* missing from the replay has its acknowledgement in the journal and its  *)
(* removal under way.                                                      *)
(* (wal.zig workerMain, flushCascade, recover)                             *)
(***************************************************************************)
ReplayAgreement ==
    Steady /\ Readable(Journal) =>
      LET R == Replay(Journal)
          replayed == ToSet(R.pending)
          acked == {Journal[i].ack : i \in {j \in DOMAIN Journal :
                                      Journal[j].kind \in {"cascade", "ack"}}}
      IN  /\ R.facts = facts
          /\ R.next_id = next_id
          /\ replayed \subseteq ToSet(pending)
          /\ \A i, j \in DOMAIN R.pending : i < j => R.pending[i].id < R.pending[j].id
          /\ \A p \in ToSet(pending) \ replayed : p.id \in acked

(***************************************************************************)
(* Whatever a crash leaves of the journal, a state that recovery reaches   *)
(* is one the WAL went through: the result of the first m admitted records *)
(* for some m.  A cascade's outputs are never recovered without its                 *)
(* acknowledgement, nor a later write without an earlier one.              *)
(* (wal.zig workerMain, writeCascade, replayCascade)                       *)
(***************************************************************************)
RecoveredIsPrefix ==
    phase = "open" =>
      CrashStates \subseteq
          {Replay(Prefix(history, m)) :
               m \in {l \in 0..Len(history) : Readable(Prefix(history, l))}}

(***************************************************************************)
(* Every record the WAL reported durable survives every crash from which   *)
(* the journal opens: the facts it wrote, or newer ones, are recovered and *)
(* the work a durable cascade finished does not come back.  And nothing    *)
(* but a field above MaxFieldSize keeps the journal from opening.          *)
(* (wal.zig:142 "Appends one durable transaction", getBytes 884-890)       *)
(***************************************************************************)
DurablePromises ==
    /\ CorruptIsWide
    /\ \A R \in CrashStates, r \in promised :
          /\ \A k \in r.keys : R.facts[k] >= r.ts
          /\ r.kind = "cascade" => \A i \in DOMAIN R.pending : R.pending[i].id # r.ack

(***************************************************************************)
(* The file-level half of the durability promise: a record reported        *)
(* durable lies in the part of the file that fsync has covered and that no *)
(* crash, write failure or tail truncation takes away, whatever its size;  *)
(* and nothing but a field above MaxFieldSize keeps the journal from       *)
(* opening.                                                                *)
(* (wal.zig workerMain 337-357, recover 424-441, getBytes 884-890)         *)
(***************************************************************************)
PromisesSynced ==
    /\ CorruptIsWide
    /\ \A r \in promised : \E i \in 1..synced : file[i] = r

(***************************************************************************)
(* No fact that is already durable disappears from the live map while the  *)
(* process runs: "a successful sync can then never be followed by a        *)
(* live-state rollback" (wal.zig:288-290).                                 *)
(***************************************************************************)
DurableFactsStayLive ==
    phase = "open" /\ MutexFree =>
      \A r \in promised : \A k \in r.keys : facts[k] >= r.ts

(***************************************************************************)
(* Strict mode: when a group is reported failed, every fact it published   *)
(* has been taken back and every fact it replaced is in place again, also  *)
(* when several requests of the group wrote the same key.                  *)
(* (wal.zig rollbackFacts, workerMain 330-333 and 359-364)                 *)
(***************************************************************************)
FailedGroupLeavesNoFact ==
    worker = "abort" /\ Durability = "strict" => facts = before

(***************************************************************************)
(* Pending work and the fact that caused it exist together: the storage    *)
(* facade "applies a fact mutation and creates its pending inference work  *)
(* atomically" (storage.zig:91).  Every id was drawn from the counter.     *)
(***************************************************************************)
PendingHasFact ==
    phase = "open" /\ MutexFree =>
      \A i \in 1..Len(pending) : /\ facts[pending[i].key] # Absent
                                 /\ pending[i].id < next_id

(***************************************************************************)
(* Work is handed out oldest first and an id names one entry: the ids of   *)
(* the pending list strictly increase, through acknowledgements, rollbacks *)
(* and recovery.  (wal.zig nextPendingFor, removePending)                  *)
(***************************************************************************)
PendingIdsIncrease ==
    \A i, j \in 1..Len(pending) : i < j => pending[i].id < pending[j].id

(***************************************************************************)
(* A clean shutdown loses nothing: once the writer has exited without a    *)
(* failure, every record that was admitted is in the journal.              *)
(* (wal.zig deinit, workerMain 265-271)                                    *)
(***************************************************************************)
ShutdownDrains ==
    phase = "open" /\ worker = "exited" /\ ~failed =>
      ToSet(history) \subseteq ToSet(file)

(***************************************************************************)
(* A strict caller never polls for a request that nobody will finish:      *)
(* while it waits, its request is queued or in the group being written,    *)
(* also after a terminal failure that empties the queue.                   *)
(* (wal.zig enqueueBatch, flushCascade, workerMain 359-395)                *)
(***************************************************************************)
WaitersAreHeld ==
    \A c \in Clients : caller[c].pc = "wait" =>
        \E i \in 1..Len(group \o requests) :
            /\ (group \o requests)[i].client = c
            /\ (group \o requests)[i].rec = caller[c].rec

-----------------------------------------------------------------------------
(* Fairness.  The writer is a dedicated thread, recovery is straight-line  *)
(* code and a caller inside the WAL polls until it is served.  Nothing     *)
(* makes a client call again, and no fault is owed.                        *)
Progress == Take \/ Publish \/ Unpublish \/ Relock \/ Rollback \/ AppendRecord
            \/ AppendTooLarge \/ SyncGroup \/ Commit \/ Abort \/ WorkerExit
Served(c) == AdmitStrict(c) \/ AdmitEventual(c) \/ AdmitRefused(c)
             \/ Return(c) \/ AckOk(c)
FairSpec ==
    /\ Spec
    /\ WF_vars(Progress)
    /\ WF_vars(ReplayNext)
    /\ \A c \in Clients : WF_vars(Served(c))

(***************************************************************************)
(* Every call returns, with a result or an error, also when the queue is   *)
(* full and when the writer fails for good: "Wake strict callers and       *)
(* reject queued work instead of leaving requests waiting forever"         *)
(* (wal.zig:381-382).                                                      *)
(***************************************************************************)
CallsReturn == \A c \in Clients : caller[c].pc # "idle" ~> caller[c].pc = "idle"

(***************************************************************************)
(* A queued request does not stay in memory: it becomes durable, or the    *)
(* WAL declares itself failed, or the process restarts.  Requests are told *)
(* apart by their timestamps.  (wal.zig workerMain 273-276, 337-357)       *)
(***************************************************************************)
QueuedBecomesDurable ==
    \A t \in 1..MaxCalls :
        (\E i \in 1..Len(requests) : requests[i].rec.ts = t)
          ~> \/ \E r \in promised : r.ts = t
             \/ failed
             \/ phase = "replay"
=============================================================================
