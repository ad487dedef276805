---------------------------- MODULE WalLiveProofs ----------------------------
(***************************************************************************)
(* Theorems about the live state of the write-ahead log: the facts and the *)
(* pending work in memory, what a failed group leaves of them, and what    *)
(* replaying the journal makes of them.                                    *)
(***************************************************************************)
EXTENDS WalQueueProofs

-----------------------------------------------------------------------------
(* Facts.                                                                  *)

(* Last writer wins: a mutation never lowers a timestamp.                  *)
LEMMA PutRaises ==
    ASSUME NEW f \in Facts, NEW S, NEW t \in Nat
    PROVE  \A k \in Keys : /\ Put(f, S, t)[k] \in {f[k], t}
                           /\ Put(f, S, t)[k] >= f[k]
                           /\ k \in S => Put(f, S, t)[k] >= t
BY DEF Facts, Put, Newer

(* A failed admission takes back exactly what it applied, whatever the     *)
(* timestamps.                                                             *)
LEMMA RestoreUndoesPut ==
    ASSUME NEW f \in Facts, NEW t \in Nat, NEW noted, NEW done \in SUBSET noted
    PROVE  Restore(Put(f, done, t), UndoEntry(f, noted, t)) = f
<1> DEFINE g == Put(f, done, t)
           u == UndoEntry(f, noted, t)
<1>1. /\ u.keys = noted /\ u.ts = t
      /\ \A k \in Keys : u.previous[k] = IF k \in noted THEN f[k] ELSE Absent
  BY DEF UndoEntry
<1>2. \A k \in Keys : g[k] = IF k \in done /\ t > f[k] THEN t ELSE f[k]
  BY DEF Put, Newer
<1> HIDE DEF g, u
<1>3. Restore(g, u) = [k \in Keys |-> IF k \in noted /\ g[k] = t THEN u.previous[k] ELSE g[k]]
  BY <1>1 DEF Restore, Restorable
<1>4. \A k \in Keys : (IF k \in noted /\ g[k] = t THEN u.previous[k] ELSE g[k]) = f[k]
  BY <1>1, <1>2
<1>5. f = [k \in Keys |-> f[k]]
  BY DEF Facts
<1> QED BY <1>3, <1>4, <1>5 DEF g, u

(* The entries of a pending list.                                          *)
Entries(p) == {p[i] : i \in 1..Len(p)}

LEMMA RemovePendingEntries ==
    ASSUME NEW p \in Seq(PendingDirty), NEW id, Increasing(p)
    PROVE  Entries(RemovePending(p, id)) = {e \in Entries(p) : e.id # id}
<1> DEFINE I == {i \in 1..Len(p) : p[i].id = id}
<1>1. CASE I = {}
  <2>1. RemovePending(p, id) = p
    BY <1>1 DEF RemovePending, RemoveFirstMatch
  <2>2. \A i \in 1..Len(p) : p[i].id # id
    BY <1>1
  <2> QED BY <2>1, <2>2 DEF Entries
<1>2. CASE I # {}
  <2>0. I \subseteq Nat
    OBVIOUS
  <2>1. Min(I) \in I
    <3> HIDE DEF I
    <3> QED BY <1>2, <2>0, MinIsLeast
  <2>2. RemovePending(p, id) = RemoveAt(p, Min(I))
    BY <1>2 DEF RemovePending, RemoveFirstMatch, SelectInSeq
  <2> DEFINE m == Min(I)
             q == RemoveAt(p, m)
  <2>3. m \in 1..Len(p) /\ p[m].id = id
    BY <2>1
  <2> HIDE DEF m
  <2>4. /\ Len(q) = Len(p) - 1
        /\ \A j \in 1..(Len(p) - 1) : q[j] = IF j < m THEN p[j] ELSE p[j + 1]
    BY <2>3, RemoveAtProperties
  <2> HIDE DEF q
  <2>5. Len(p) \in Nat
    BY LenProperties
  <2>6. \A i \in 1..Len(p) : i # m => p[i].id # id
    <3>1. \A i \in 1..Len(p) : p[i].id \in Nat
      BY PendingIdType
    <3>2. ASSUME NEW i \in 1..Len(p), i # m PROVE p[i].id # id
      <4>1. i < m \/ m < i
        BY <2>3, <3>2
      <4> QED BY <2>3, <3>1, <4>1 DEF Increasing
    <3> QED BY <3>2
  <2>7. ASSUME NEW e \in Entries(q) PROVE e \in Entries(p) /\ e.id # id
    <3>1. PICK j \in 1..Len(q) : e = q[j]
      BY DEF Entries
    <3>2. PICK i \in 1..Len(p) : e = p[i] /\ i # m
      BY <2>3, <2>4, <2>5, <3>1
    <3> QED BY <2>6, <3>2 DEF Entries
  <2>8. ASSUME NEW e \in Entries(p), e.id # id PROVE e \in Entries(q)
    <3>1. PICK i \in 1..Len(p) : e = p[i]
      BY DEF Entries
    <3>2. i # m
      BY <2>3, <2>8, <3>1
    <3>3. CASE i < m
      <4>1. i \in 1..Len(q) /\ q[i] = e
        BY <2>3, <2>4, <2>5, <3>1, <3>3
      <4> QED BY <4>1 DEF Entries
    <3>4. CASE i > m
      <4>1. i - 1 \in 1..Len(q) /\ q[i - 1] = e
        BY <2>3, <2>4, <2>5, <3>1, <3>4
      <4> QED BY <4>1 DEF Entries
    <3> QED BY <2>3, <3>2, <3>3, <3>4
  <2> QED BY <2>2, <2>7, <2>8 DEF m, q
<1> QED BY <1>1, <1>2

LEMMA AcknowledgeEntries ==
    ASSUME NEW p \in Seq(PendingDirty), NEW r, Increasing(p)
    PROVE  Entries(Acknowledge(p, r)) =
             {e \in Entries(p) : ~(r.kind \in {"cascade", "ack"} /\ e.id = r.ack)}
<1>1. CASE r.kind \in {"cascade", "ack"}
  BY <1>1, RemovePendingEntries DEF Acknowledge
<1>2. CASE r.kind \notin {"cascade", "ack"}
  BY <1>2 DEF Acknowledge
<1> QED BY <1>1, <1>2

WithEntry(p, n, k) == Entries(p) \union {[id |-> n, key |-> k]}

LEMMA AddPendingEntries ==
    ASSUME NEW f, NEW p \in Seq(PendingDirty), NEW n \in Nat \ {0}, NEW r \in Record,
           Accepted(f, r)
    PROVE  /\ \E k \in r.keys : Entries(AddPending(f, p, n, r)) = WithEntry(p, n, k)
           /\ \E k \in r.keys : r.ts > f[k]
<1> DEFINE k == CHOOSE x \in r.keys : TRUE
           e == [id |-> n, key |-> k]
           q == Append(p, e)
<1>1. PICK j \in r.keys : r.ts > f[j]
  BY DEF Accepted, Newer
<1>2. k \in r.keys /\ k \in Keys
  BY <1>1 DEF Record
<1>3. e \in PendingDirty
  BY <1>2 DEF PendingDirty
<1>4. AddPending(f, p, n, r) = q
  BY DEF AddPending
<1> HIDE DEF k, e
<1>5. /\ Len(q) = Len(p) + 1 /\ Len(p) \in Nat
      /\ \A i \in 1..Len(p) : q[i] = p[i]
      /\ q[Len(p) + 1] = e
  BY <1>3, AppendProperties, LenProperties
<1> HIDE DEF q
<1>6. Entries(q) = Entries(p) \union {e}
  <2>1. ASSUME NEW x \in Entries(q) PROVE x \in Entries(p) \union {e}
    BY <1>5 DEF Entries
  <2>2. ASSUME NEW x \in Entries(p) PROVE x \in Entries(q)
    BY <1>5 DEF Entries
  <2>3. e \in Entries(q)
    BY <1>5 DEF Entries
  <2> QED BY <2>1, <2>2, <2>3
<1>7. Entries(AddPending(f, p, n, r)) = WithEntry(p, n, k)
  BY <1>4, <1>6 DEF e, WithEntry
<1> QED BY <1>1, <1>2, <1>7

-----------------------------------------------------------------------------
(* Pending work and its facts, in eventual mode: callers publish for       *)
(* themselves and no group is rolled back.  (In strict mode a caller's     *)
(* acknowledgement can fall between publication and rollback; then the     *)
(* rollback leaves work without a fact, as the run MCWalPhantom shows.)    *)
HasFact(f, p) == \A e \in Entries(p) : f[e.key] # Absent

LEMMA AppliedHasFact ==
    ASSUME NEW f \in Facts, NEW p \in Seq(PendingDirty), NEW n \in Nat \ {0},
           NEW r \in Record, Increasing(p), Below(p, n), HasFact(f, p)
    PROVE  HasFact(Put(f, r.keys, r.ts), Acknowledge(AddPending(f, p, n, r), r))
<1> DEFINE g == Put(f, r.keys, r.ts)
           q == AddPending(f, p, n, r)
<1>0. r.ts \in Nat /\ r.keys \in SUBSET Keys
  BY DEF Record
<1>1. \A k \in Keys : g[k] \in Nat /\ g[k] >= f[k] /\ (k \in r.keys => g[k] >= r.ts)
  BY <1>0, PutRaises, PutType DEF Facts
<1>2. q \in Seq(PendingDirty) /\ Increasing(q)
  BY AddPendingProperties
<1>3. \A e \in Entries(p) : e.key \in Keys
  <2>1. \A i \in 1..Len(p) : p[i] \in PendingDirty
    BY ElementOfSeq
  <2> QED BY <2>1 DEF Entries, PendingDirty
<1>4. \A e \in Entries(p) : g[e.key] # Absent
  BY <1>1, <1>3 DEF HasFact, Absent, Facts
<1>5. \A e \in Entries(q) : g[e.key] # Absent
  <2>1. CASE ~Accepted(f, r)
    BY <1>4, <2>1 DEF AddPending
  <2>2. CASE Accepted(f, r)
    <3>1. PICK k \in r.keys : Entries(q) = WithEntry(p, n, k)
      BY <2>2, AddPendingEntries
    <3>2. \E j \in r.keys : r.ts > f[j]
      BY <2>2, AddPendingEntries
    <3>3. g[k] # Absent
      <4>1. PICK j \in r.keys : r.ts > f[j]
        BY <3>2
      <4>2. f[j] \in Nat /\ k \in Keys
        BY <1>0, <4>1 DEF Facts
      <4>3. g[k] \in Nat /\ g[k] >= r.ts
        BY <1>1, <4>2
      <4> HIDE DEF g
      <4> QED BY <1>0, <4>1, <4>2, <4>3 DEF Absent
    <3> QED BY <1>4, <3>1, <3>3 DEF WithEntry
  <2> QED BY <2>1, <2>2
<1> HIDE DEF g, q
<1>6. Entries(Acknowledge(q, r)) \subseteq Entries(q)
  BY <1>2, AcknowledgeEntries
<1>7. \A e \in Entries(Acknowledge(q, r)) : g[e.key] # Absent
  BY <1>5, <1>6
<1> QED BY <1>7 DEF HasFact, g, q

LEMMA EventualHasFact ==
    ASSUME Durability = "eventual", TypeOK, Control, PendingIdsIncrease, IdsBounded,
           HasFact(facts, pending), [Next]_vars
    PROVE  HasFact(facts', pending')
<1> USE DEF phaseVars, liveVars, queueVars, workerVars, fileVars, boundVars, ghostVars
<1>0. /\ facts \in Facts /\ pending \in Seq(PendingDirty) /\ next_id \in Nat \ {0}
      /\ Increasing(pending) /\ Below(pending, next_id)
  BY DEF TypeOK, PendingIdsIncrease, Increasing, IdsBounded
<1>1. ASSUME NEW r \in Record, facts' = Put(facts, r.keys, r.ts),
             pending' = Acknowledge(AddPending(facts, pending, next_id, r), r)
      PROVE  HasFact(facts', pending')
  BY <1>0, <1>1, AppliedHasFact
<1>2. CASE UNCHANGED <<facts, pending>>
  BY <1>2
<1>3. ASSUME facts' = facts, Entries(pending') \subseteq Entries(pending)
      PROVE  HasFact(facts', pending')
  BY <1>3 DEF HasFact
<1>4. ASSUME NEW c \in Clients, CallerNext(c) PROVE HasFact(facts', pending')
  <2>0. caller[c].rec \in Record
    BY DEF TypeOK
  <2>1. CASE AdmitEventual(c)
    BY <1>1, <2>0, <2>1 DEF AdmitEventual
  <2>2. CASE AdmitOom(c)
    <3>1. PICK done, noted \in SUBSET caller[c].rec.keys :
             /\ done \subseteq noted
             /\ facts' = Restore(Put(facts, done, caller[c].rec.ts),
                                 UndoEntry(facts, noted, caller[c].rec.ts))
      BY <2>2 DEF AdmitOom, Interrupted
    <3>2. caller[c].rec.ts \in Nat
      BY <2>0 DEF Record
    <3>3. facts' = facts
      BY <1>0, <3>1, <3>2, RestoreUndoesPut
    <3>4. pending' = pending
      BY <2>2 DEF AdmitOom
    <3> QED BY <1>2, <3>3, <3>4
  <2>3. CASE Return(c) \/ AckOk(c)
    <3>1. PICK r : pending' = pending \/ pending' = Acknowledge(pending, r)
                   \/ pending' = RemovePending(pending, r.ack)
      BY <2>3 DEF Return, AckOk
    <3>2. Entries(pending') \subseteq Entries(pending)
      BY <1>0, <3>1, AcknowledgeEntries, RemovePendingEntries
    <3>3. facts' = facts
      BY <2>3 DEF Return, AckOk
    <3> QED BY <1>3, <3>2, <3>3
  <2> QED BY <1>2, <1>4, <2>1, <2>2, <2>3
          DEF CallerNext, Call, CallBatch, CallCascade, CallAck, AdmitStrict, AdmitRefused,
              AckFails
<1>5. CASE WorkerNext
  <2>1. UNCHANGED <<facts, pending>>
    BY <1>5 DEF WorkerNext, Take, Publish, PublishOom, Unpublish, Rollback, RollbackLoop,
                Relock, AppendRecord, AppendFails, SyncGroup, SyncFails, AppendTooLarge, Commit, Abort,
                WorkerExit, Control, EventualQuiet
  <2> QED BY <1>2, <2>1
<1>6. CASE ReplayRecord
  <2>1. pos \in 1..Len(file)
    BY <1>6, LenProperties DEF ReplayRecord, TypeOK
  <2>2. file[pos] \in Record
    BY <2>1, ElementOfSeq DEF TypeOK
  <2> QED BY <1>1, <1>6, <2>2 DEF ReplayRecord
<1>7. CASE ReplayDone \/ ReplayTorn \/ ReplayCorrupt \/ Deinit
  BY <1>2, <1>7 DEF ReplayDone, ReplayTorn, ReplayCorrupt, Recovered, Deinit
<1>8. CASE Reopen \/ Crash
  <2>1. pending' = <<>>
    BY <1>8 DEF Reopen, Crash, Restart
  <2>2. Len(pending') = 0
    BY <2>1, EmptySeq
  <2> QED BY <2>2 DEF HasFact, Entries
<1>9. CASE UNCHANGED vars
  BY <1>2, <1>9 DEF vars
<1> QED BY <1>4, <1>5, <1>6, <1>7, <1>8, <1>9 DEF Next, ReplayNext

(***************************************************************************)
(* In eventual mode, the mode the engine runs in by default, pending work  *)
(* always has its fact and an id the counter has given out, through        *)
(* admission, failed admission, acknowledgement, crash and recovery        *)
(* (storage.zig:91).                                                       *)
(***************************************************************************)
THEOREM EventualPendingHasFact ==
    ASSUME Durability = "eventual"
    PROVE  Spec => []PendingHasFact
<1> DEFINE IInv == HasFact(facts, pending)
<1>1. Init => IInv
  <2>1. SUFFICES ASSUME Init PROVE IInv
    OBVIOUS
  <2>2. Len(pending) = 0
    BY <2>1, EmptySeq DEF Init
  <2> QED BY <2>2 DEF HasFact, Entries
<1>2. TypeOK /\ Control /\ PendingIdsIncrease /\ IdsBounded /\ IInv /\ [Next]_vars => IInv'
  BY EventualHasFact
<1>3. IdsBounded /\ IInv => PendingHasFact
  BY DEF IdsBounded, Below, HasFact, Entries, PendingHasFact
<1> HIDE DEF IInv
<1> QED BY <1>1, <1>2, <1>3, WalTypeOK, IdsInvariant, PTL DEF Spec

-----------------------------------------------------------------------------
(* Rolling a group back.  Every undo entry links the facts before its      *)
(* request was published to the facts after it, so the entries lead from   *)
(* the current facts back to the facts the group was taken with.           *)
Linked(f, u, g) ==
    \A k \in Keys : IF k \in u.keys THEN u.previous[k] = f[k] /\ g[k] \in {u.ts, f[k]}
                                    ELSE g[k] = f[k]
Undoable(u, b, n, f) ==
    \E h \in [0..n -> Facts] :
        h[0] = b /\ h[n] = f /\ \A i \in 1..n : Linked(h[i - 1], u[i], h[i])

(* A second pass over the undo list finds nothing to restore.              *)
Inert(u, b) == \A i \in 1..Len(u) : \A k \in u[i].keys : b[k] # u[i].ts

LEMMA PublishedLinks ==
    ASSUME NEW f \in Facts, NEW t \in Nat, NEW noted, NEW done \in SUBSET noted
    PROVE  Linked(f, UndoEntry(f, noted, t), Put(f, done, t))
<1> DEFINE g == Put(f, done, t)
           u == UndoEntry(f, noted, t)
<1>1. /\ u.keys = noted /\ u.ts = t
      /\ \A k \in Keys : u.previous[k] = IF k \in noted THEN f[k] ELSE Absent
  BY DEF UndoEntry
<1>2. \A k \in Keys : g[k] = IF k \in done /\ t > f[k] THEN t ELSE f[k]
  BY DEF Put, Newer
<1> HIDE DEF g, u
<1>3. Linked(f, u, g)
  BY <1>1, <1>2 DEF Linked
<1> QED BY <1>3 DEF g, u

LEMMA RestoreFollowsLink ==
    ASSUME NEW f \in Facts, NEW g \in Facts, NEW u, Linked(f, u, g)
    PROVE  Restore(g, u) = f
<1>1. Restore(g, u) = [k \in Keys |-> IF k \in u.keys /\ g[k] = u.ts THEN u.previous[k] ELSE g[k]]
  BY DEF Restore, Restorable
<1>2. \A k \in Keys : (IF k \in u.keys /\ g[k] = u.ts THEN u.previous[k] ELSE g[k]) = f[k]
  BY DEF Linked
<1>3. f = [k \in Keys |-> f[k]]
  BY DEF Facts
<1> QED BY <1>1, <1>2, <1>3

LEMMA UndoableStart ==
    ASSUME NEW u, NEW f \in Facts
    PROVE  Undoable(u, f, 0, f)
<1> DEFINE h == [i \in 0..0 |-> f]
<1>1. h \in [0..0 -> Facts] /\ h[0] = f
  OBVIOUS
<1>2. \A i \in 1..0 : FALSE
  OBVIOUS
<1> HIDE DEF h
<1> QED BY <1>1, <1>2 DEF Undoable

LEMMA UndoableEnd ==
    ASSUME NEW u, NEW b, NEW f, Undoable(u, b, 0, f)
    PROVE  f = b
BY DEF Undoable

LEMMA UndoableExtends ==
    ASSUME NEW n \in Nat, NEW u, NEW v, NEW b, NEW f, NEW g \in Facts, Undoable(u, b, n, f),
           \A i \in 1..n : v[i] = u[i], Linked(f, v[n + 1], g)
    PROVE  Undoable(v, b, n + 1, g)
<1>1. PICK h \in [0..n -> Facts] :
        h[0] = b /\ h[n] = f /\ \A i \in 1..n : Linked(h[i - 1], u[i], h[i])
  BY DEF Undoable
<1> DEFINE w == [i \in 0..(n + 1) |-> IF i <= n THEN h[i] ELSE g]
<1>2. w \in [0..(n + 1) -> Facts]
  OBVIOUS
<1>3. \A i \in 0..n : w[i] = h[i]
  OBVIOUS
<1>4. w[n + 1] = g
  OBVIOUS
<1> HIDE DEF w
<1>5. ASSUME NEW i \in 1..(n + 1) PROVE Linked(w[i - 1], v[i], w[i])
  <2>1. CASE i = n + 1
    <3>1. w[i - 1] = f
      BY <1>1, <1>3, <2>1
    <3> QED BY <1>4, <2>1, <3>1
  <2>2. CASE i \in 1..n
    <3>1. w[i - 1] = h[i - 1] /\ w[i] = h[i] /\ v[i] = u[i]
      BY <1>3, <2>2
    <3> QED BY <1>1, <2>2, <3>1
  <2> QED BY <2>1, <2>2
<1>6. w[0] = b
  BY <1>1, <1>3
<1> QED BY <1>2, <1>4, <1>5, <1>6 DEF Undoable

LEMMA UndoableBack ==
    ASSUME NEW n \in Nat \ {0}, NEW u, NEW v, NEW b, NEW f, Undoable(u, b, n, f),
           \A i \in 1..(n - 1) : v[i] = u[i]
    PROVE  Undoable(v, b, n - 1, Restore(f, u[n]))
<1>1. PICK h \in [0..n -> Facts] :
        h[0] = b /\ h[n] = f /\ \A i \in 1..n : Linked(h[i - 1], u[i], h[i])
  BY DEF Undoable
<1>2. h[n - 1] \in Facts /\ h[n] \in Facts /\ Linked(h[n - 1], u[n], h[n])
  BY <1>1
<1>3. Restore(f, u[n]) = h[n - 1]
  BY <1>1, <1>2, RestoreFollowsLink
<1> DEFINE w == [i \in 0..(n - 1) |-> h[i]]
<1>4. w \in [0..(n - 1) -> Facts] /\ \A i \in 0..(n - 1) : w[i] = h[i]
  OBVIOUS
<1> HIDE DEF w
<1>5. \A i \in 1..(n - 1) : Linked(w[i - 1], v[i], w[i])
  BY <1>1, <1>4
<1>6. w[0] = b /\ w[n - 1] = Restore(f, u[n])
  BY <1>1, <1>3, <1>4
<1> QED BY <1>4, <1>5, <1>6 DEF Undoable

(* What an inert list leaves alone.                                        *)
LEMMA InertRestores ==
    ASSUME NEW b \in Facts, NEW u, \A k \in u.keys : b[k] # u.ts
    PROVE  Restore(b, u) = b
<1>1. Restore(b, u) = [k \in Keys |-> b[k]]
  BY DEF Restore, Restorable
<1> QED BY <1>1 DEF Facts

(* Consuming an entry keeps its keys and its timestamp.                    *)
LEMMA ConsumeKeeps ==
    ASSUME NEW f, NEW u \in FactUndo
    PROVE  Consume(f, u).keys = u.keys /\ Consume(f, u).ts = u.ts
BY DEF Consume, FactUndo

(* Where the rollback stands in every state of the writer.                 *)
Published ==
    worker \in {"publish", "append", "commit"} => Undoable(undo, before, Len(undo), facts)
Unpublishing == worker = "unpublish" => Undoable(undo, before, idx, facts)
Undone == facts = before /\ Inert(undo, before)
ToUndo == worker = "relock" => Undoable(undo, before, Len(undo), facts) \/ Undone
Undoing == worker = "rollback" => Undoable(undo, before, idx, facts) \/ Undone
UndoInv == Published /\ Unpublishing /\ ToUndo /\ Undoing /\ FailedGroupLeavesNoFact

(* A strict caller changes no fact: what a failed admission applied, it    *)
(* takes back.                                                             *)
LEMMA CallerFacts ==
    ASSUME Durability = "strict", TypeOK, NEW c \in Clients, CallerNext(c)
    PROVE  facts' = facts
<1> USE DEF phaseVars, liveVars, queueVars, workerVars, fileVars, boundVars, ghostVars
<1>1. CASE AdmitOom(c)
  <2>0. caller[c].rec \in Record /\ facts \in Facts
    BY DEF TypeOK
  <2>1. PICK done, noted \in SUBSET caller[c].rec.keys :
           /\ done \subseteq noted
           /\ facts' = Restore(Put(facts, done, caller[c].rec.ts),
                               UndoEntry(facts, noted, caller[c].rec.ts))
    BY <1>1 DEF AdmitOom, Interrupted
  <2>2. caller[c].rec.ts \in Nat
    BY <2>0 DEF Record
  <2> QED BY <2>0, <2>1, <2>2, RestoreUndoesPut
<1> QED BY <1>1 DEF CallerNext, Call, CallBatch, CallCascade, CallAck, AdmitStrict,
                    AdmitEventual, AdmitRefused, Return, AckOk, AckFails

(* Publishing, completely or up to a failed allocation, adds at most one   *)
(* entry to the undo list and stays undoable.                              *)
LEMMA PublishUndoable ==
    ASSUME TypeOK, Control, Undoable(undo, before, Len(undo), facts), Publish \/ PublishOom
    PROVE  Undoable(undo', before', Len(undo'), facts')
<1> USE DEF phaseVars, liveVars, queueVars, workerVars, fileVars, boundVars, ghostVars
<1> DEFINE r == group[idx].rec
<1>1. group[idx] \in Request
  BY ElementOfSeq DEF TypeOK, Control, IndexInv, Publish, PublishOom
<1>2. r.keys \in SUBSET Keys /\ r.ts \in Nat
  BY <1>1 DEF Request, Record
<1> HIDE DEF r
<1>3. PICK noted \in SUBSET Keys : \E done \in SUBSET noted :
        /\ undo' = AddUndo(facts, undo, noted, r.ts)
        /\ facts' = Put(facts, done, r.ts)
  <2>1. CASE Publish
    BY <1>2, <2>1 DEF Publish, r
  <2>2. CASE PublishOom
    <3>1. PICK done, noted \in SUBSET r.keys :
            /\ Interrupted(r.keys, done, noted)
            /\ undo' = AddUndo(facts, undo, noted, r.ts)
            /\ facts' = Put(facts, done, r.ts)
      BY <2>2 DEF PublishOom, r
    <3>2. done \in SUBSET noted /\ noted \in SUBSET Keys
      BY <1>2, <3>1 DEF Interrupted
    <3> QED BY <3>1, <3>2
  <2> QED BY <2>1, <2>2
<1>4. PICK done \in SUBSET noted : /\ undo' = AddUndo(facts, undo, noted, r.ts)
                                   /\ facts' = Put(facts, done, r.ts)
  BY <1>3
<1>5. before' = before /\ facts \in Facts /\ undo \in Seq(FactUndo)
  BY DEF Publish, PublishOom, TypeOK
<1>6. CASE noted = {}
  <2>1. undo' = undo
    BY <1>4, <1>6 DEF AddUndo
  <2>2. done = {}
    BY <1>6
  <2>3. facts' = [k \in Keys |-> facts[k]]
    BY <1>4, <2>2 DEF Put, Newer
  <2>4. facts' = facts
    BY <1>5, <2>3 DEF Facts
  <2> QED BY <1>5, <2>1, <2>4
<1>7. CASE noted # {}
  <2> DEFINE e == UndoEntry(facts, noted, r.ts)
             g == Put(facts, done, r.ts)
  <2>1. undo' = Append(undo, e) /\ facts' = g
    BY <1>4, <1>7 DEF AddUndo
  <2>2. e \in FactUndo
    BY <1>2, <1>5, UndoEntryType
  <2>3. Linked(facts, e, g)
    BY <1>2, <1>5, PublishedLinks
  <2>4. g \in Facts
    BY <1>2, <1>5, PutType
  <2> HIDE DEF e, g
  <2>5. /\ Len(undo) \in Nat /\ Len(undo') = Len(undo) + 1
        /\ \A i \in 1..Len(undo) : undo'[i] = undo[i]
        /\ undo'[Len(undo) + 1] = e
    BY <1>5, <2>1, <2>2, AppendProperties, LenProperties
  <2>6. Undoable(undo', before, Len(undo) + 1, facts')
    BY <2>1, <2>3, <2>4, <2>5, UndoableExtends
  <2> QED BY <1>5, <2>5, <2>6
<1> QED BY <1>6, <1>7

(* One step of a rollback goes one link back, or finds nothing to do.      *)
LEMMA RollbackUndoable ==
    ASSUME TypeOK, Control, NEW from \in {"unpublish", "rollback"}, NEW to,
           RollbackLoop(from, to)
    PROVE  /\ idx > 0 /\ Undoable(undo, before, idx, facts)
                => Undoable(undo', before', idx', facts')
           /\ idx > 0 /\ Undone => Undone'
           /\ idx = 0 /\ Undoable(undo, before, idx, facts) => facts' = before'
           /\ idx = 0 => UNCHANGED <<undo, facts>>
           /\ Inert(undo, before) => Inert(undo', before')
           /\ before' = before
<1> USE DEF phaseVars, liveVars, queueVars, workerVars, fileVars, boundVars, ghostVars
<1>0. before' = before /\ idx \in 0..Len(undo) /\ Len(undo) \in Nat
  BY LenProperties DEF RollbackLoop, Control, IndexInv, TypeOK
<1>1. CASE idx = 0
  <2>1. UNCHANGED <<undo, facts>>
    BY <1>1 DEF RollbackLoop
  <2> QED BY <1>0, <1>1, <2>1, UndoableEnd
<1>2. CASE idx > 0
  <2>1. /\ facts' = Restore(facts, undo[idx])
        /\ undo' = [undo EXCEPT ![idx] = Consume(facts, undo[idx])]
        /\ idx' = idx - 1
    BY <1>2 DEF RollbackLoop
  <2>2. idx \in 1..Len(undo) /\ undo \in Seq(FactUndo)
    BY <1>0, <1>2 DEF TypeOK
  <2>3. undo[idx] \in FactUndo
    BY <2>2, ElementOfSeq
  <2>4. /\ Len(undo') = Len(undo)
        /\ \A i \in 1..Len(undo) : i # idx => undo'[i] = undo[i]
        /\ undo'[idx] = Consume(facts, undo[idx])
    BY <2>1, <2>2
  <2>5. \A i \in 1..Len(undo) : undo'[i].keys = undo[i].keys /\ undo'[i].ts = undo[i].ts
    BY <2>3, <2>4, ConsumeKeeps
  <2>6. Inert(undo, before) => Inert(undo', before')
    BY <1>0, <2>4, <2>5 DEF Inert
  <2>7. ASSUME Undone PROVE facts' = facts
    BY <2>1, <2>2, <2>7, InertRestores DEF Undone, Inert, TypeOK
  <2>8. ASSUME Undoable(undo, before, idx, facts)
        PROVE  Undoable(undo', before', idx', facts')
    <3>1. idx \in Nat \ {0}
      BY <2>2
    <3>2. \A i \in 1..(idx - 1) : undo'[i] = undo[i]
      BY <1>0, <2>2, <2>4
    <3>3. Undoable(undo', before, idx - 1, Restore(facts, undo[idx]))
      BY ONLY <2>8, <3>1, <3>2, UndoableBack
    <3> QED BY <1>0, <2>1, <3>3
  <2> QED BY <1>0, <1>2, <2>6, <2>7, <2>8 DEF Undone
<1> QED BY <1>0, <1>1, <1>2

(* One step of the rollback invariant.  The undo list that an interrupted  *)
(* publication leaves is walked twice, so it must be inert by then.        *)
LEMMA UndoStep ==
    ASSUME Durability = "strict", TypeOK, Control, UndoInv, [Next]_vars,
           worker = "unpublish" => Inert(undo, before)
    PROVE  UndoInv'
<1> USE DEF phaseVars, liveVars, queueVars, workerVars, fileVars, boundVars, ghostVars
<1>0. facts \in Facts /\ undo \in Seq(FactUndo) /\ Len(undo) \in Nat
  BY LenProperties DEF TypeOK
<1>1. ASSUME UNCHANGED <<facts, before, undo, idx>>,
             worker' = worker \/ worker' \notin {"publish", "unpublish", "append", "commit",
                                                 "relock", "rollback", "abort"}
      PROVE  UndoInv'
  BY <1>1 DEF UndoInv, Published, Unpublishing, ToUndo, Undoing, Undone,
              FailedGroupLeavesNoFact
<1>2. ASSUME NEW c \in Clients, CallerNext(c) PROVE UndoInv'
  BY <1>1, <1>2, CallerFrame, CallerFacts
<1>3. CASE WorkerNext
  <2>1. CASE Take
    <3>1. /\ undo' = <<>> /\ before' = facts /\ facts' = facts
          /\ worker' = "publish"
      BY <2>1 DEF Take
    <3>2. Len(undo') = 0
      BY <3>1, EmptySeq
    <3>3. Undoable(undo', before', Len(undo'), facts')
      BY <1>0, <3>1, <3>2, UndoableStart
    <3> QED BY <3>1, <3>3 DEF UndoInv, Published, Unpublishing, ToUndo, Undoing,
                              FailedGroupLeavesNoFact
  <2>2. CASE Publish \/ PublishOom
    <3>1. worker = "publish"
      BY <2>2 DEF Publish, PublishOom
    <3>2. Undoable(undo', before', Len(undo'), facts')
      BY <2>2, <3>1, PublishUndoable DEF UndoInv, Published
    <3>3. \/ worker' \in {"publish", "append"}
          \/ worker' = "unpublish" /\ idx' = Len(undo')
      BY <2>2, <3>1 DEF Publish, PublishOom
    <3> QED BY <3>2, <3>3 DEF UndoInv, Published, Unpublishing, ToUndo, Undoing,
                              FailedGroupLeavesNoFact
  <2>3. CASE Unpublish
    <3>1. /\ worker = "unpublish" /\ Inert(undo, before) /\ idx \in Nat
          /\ Undoable(undo, before, idx, facts) /\ RollbackLoop("unpublish", "relock")
      BY <2>3 DEF Unpublish, RollbackLoop, UndoInv, Unpublishing, TypeOK
    <3>2. Inert(undo', before')
      BY <3>1, RollbackUndoable
    <3>3. CASE idx > 0
      <4>1. worker' = "unpublish" /\ Undoable(undo', before', idx', facts')
        BY <3>1, <3>3, RollbackUndoable DEF RollbackLoop
      <4> QED BY <4>1 DEF UndoInv, Published, Unpublishing, ToUndo, Undoing,
                          FailedGroupLeavesNoFact
    <3>4. CASE idx = 0
      <4>1. worker' = "relock" /\ facts' = before'
        BY <3>1, <3>4, RollbackUndoable DEF RollbackLoop
      <4> QED BY <3>2, <4>1 DEF UndoInv, Published, Unpublishing, ToUndo, Undoing, Undone,
                                FailedGroupLeavesNoFact
    <3> QED BY <3>1, <3>3, <3>4
  <2>4. CASE Relock
    <3>1. /\ worker = "relock" /\ idx' = Len(undo) /\ UNCHANGED <<facts, before, undo>>
          /\ worker' = IF undo # <<>> THEN "rollback" ELSE "abort"
          /\ Undoable(undo, before, Len(undo), facts) \/ Undone
      BY <2>4 DEF Relock, UndoInv, ToUndo
    <3>2. CASE undo # <<>>
      BY <3>1, <3>2 DEF UndoInv, Published, Unpublishing, ToUndo, Undoing, Undone,
                        FailedGroupLeavesNoFact
    <3>3. CASE undo = <<>>
      <4>1. Len(undo) = 0
        BY <3>3, EmptySeq
      <4>2. facts = before
        BY <3>1, <4>1, UndoableEnd DEF Undone
      <4> QED BY <3>1, <3>3, <4>2 DEF UndoInv, Published, Unpublishing, ToUndo, Undoing,
                                      FailedGroupLeavesNoFact
    <3> QED BY <3>2, <3>3
  <2>5. CASE Rollback
    <3>1. /\ worker = "rollback" /\ RollbackLoop("rollback", "abort") /\ idx \in Nat
          /\ Undoable(undo, before, idx, facts) \/ Undone
      BY <2>5 DEF Rollback, RollbackLoop, UndoInv, Undoing, TypeOK
    <3>2. CASE idx > 0
      <4>1. worker' = "rollback" /\ (Undoable(undo', before', idx', facts') \/ Undone')
        BY <3>1, <3>2, RollbackUndoable DEF RollbackLoop
      <4> QED BY <4>1 DEF UndoInv, Published, Unpublishing, ToUndo, Undoing,
                          FailedGroupLeavesNoFact
    <3>3. CASE idx = 0
      <4>1. worker' = "abort" /\ facts' = before'
        BY <3>1, <3>3, RollbackUndoable DEF RollbackLoop, Undone
      <4> QED BY <4>1 DEF UndoInv, Published, Unpublishing, ToUndo, Undoing,
                          FailedGroupLeavesNoFact
    <3> QED BY <3>1, <3>2, <3>3
  <2>6. CASE AppendRecord \/ AppendFails \/ SyncGroup \/ SyncFails \/ AppendTooLarge
    <3>1. /\ worker = "append" /\ worker' \in {"append", "commit", "relock"}
          /\ UNCHANGED <<facts, before, undo>>
      BY <2>6 DEF AppendRecord, AppendFails, AttemptFails, SyncGroup, SyncFails, AppendTooLarge
    <3> QED BY <3>1 DEF UndoInv, Published, Unpublishing, ToUndo, Undoing,
                        FailedGroupLeavesNoFact
  <2>7. CASE Commit \/ Abort \/ WorkerExit
    <3>1. worker' \in {"idle", "exited"}
      BY <2>7 DEF Commit, Abort, WorkerExit
    <3> QED BY <3>1 DEF UndoInv, Published, Unpublishing, ToUndo, Undoing,
                        FailedGroupLeavesNoFact
  <2> QED BY <1>3, <2>1, <2>2, <2>3, <2>4, <2>5, <2>6, <2>7 DEF WorkerNext
<1>4. CASE ReplayNext
  <2>1. worker = "none" /\ worker' = worker
    BY <1>4 DEF ReplayNext, ReplayRecord, ReplayDone, ReplayTorn, ReplayCorrupt, Recovered,
                Control, ReplayQuiet
  <2> QED BY <2>1 DEF UndoInv, Published, Unpublishing, ToUndo, Undoing,
                      FailedGroupLeavesNoFact
<1>5. CASE Deinit
  <2>1. /\ UNCHANGED <<facts, before, undo, idx>>
        /\ worker' = worker \/ worker' = "exited"
    BY <1>5 DEF Deinit
  <2> QED BY <1>1, <2>1
<1>6. CASE Reopen \/ Crash
  <2>1. worker' = "none"
    BY <1>6 DEF Reopen, Crash, Restart
  <2> QED BY <2>1 DEF UndoInv, Published, Unpublishing, ToUndo, Undoing,
                      FailedGroupLeavesNoFact
<1>7. CASE UNCHANGED vars
  BY <1>1, <1>7 DEF vars
<1> QED BY <1>2, <1>3, <1>4, <1>5, <1>6, <1>7 DEF Next

-----------------------------------------------------------------------------
(* Timestamps, when callers never reuse one.  A timestamp is unused until  *)
(* the writer takes the request that carries it; until then no fact, no    *)
(* undo entry and no older request bears it.                               *)
Unused ==
    {caller[c].rec.ts : c \in {d \in Clients : caller[d].pc = "admit"}}
    \union {requests[i].rec.ts : i \in 1..Len(requests)}
Known == (0..issued) \ Unused

AdmitsDiffer ==
    \A c, d \in Clients : c # d /\ caller[c].pc = "admit" /\ caller[d].pc = "admit"
                            => caller[c].rec.ts # caller[d].rec.ts
QueueDiffers ==
    \A c \in Clients : caller[c].pc = "admit" =>
        \A i \in 1..Len(requests) : caller[c].rec.ts # requests[i].rec.ts
AcksWriteNothing ==
    \A c \in Clients : caller[c].pc = "ack" => caller[c].rec.ts = 0 /\ caller[c].rec.keys = {}
FreshQueue == Unused \subseteq 1..issued /\ AdmitsDiffer /\ QueueDiffers /\ AcksWriteNothing

FactsKnown == \A k \in Keys : facts[k] \in Known
GroupKnown == \A i \in 1..Len(group) : group[i].rec.ts \in Known
UndoKnown == \A i \in 1..Len(undo) : \A k \in Keys : undo[i].previous[k] \in Known
FileKnown == \A i \in 1..Len(file) : file[i].ts <= issued

(* The group's own timestamps are not among the facts it was taken with.   *)
GroupNew ==
    Writing => \A i \in 1..Len(group) : \A k \in Keys : before[k] # group[i].rec.ts
UndoNew == Writing => Inert(undo, before)

FreshState == FactsKnown /\ GroupKnown /\ UndoKnown /\ FileKnown /\ GroupNew /\ UndoNew
FreshInv == FreshQueue /\ FreshState

LEMMA FreshKept ==
    ASSUME TypeOK, FreshQueue, issued' \in {issued, issued + 1},
           \A c \in Clients : caller'[c].pc = "admit" => caller'[c] = caller[c],
           \A i \in 1..Len(requests') : \E j \in 1..Len(requests) : requests'[i] = requests[j],
           AcksWriteNothing'
    PROVE  FreshQueue' /\ Unused' \subseteq Unused /\ Known \subseteq Known'
<1>0. issued \in Nat /\ issued' >= issued
  BY DEF TypeOK
<1>1. ASSUME NEW t \in Unused' PROVE t \in Unused
  <2>1. CASE \E c \in Clients : caller'[c].pc = "admit" /\ t = caller'[c].rec.ts
    BY <2>1 DEF Unused
  <2>2. CASE \E i \in 1..Len(requests') : t = requests'[i].rec.ts
    BY <2>2 DEF Unused
  <2> QED BY <1>1, <2>1, <2>2 DEF Unused
<1>2. Unused' \subseteq Unused
  BY <1>1
<1>3. Unused' \subseteq 1..issued' /\ Known \subseteq Known'
  BY <1>0, <1>2 DEF FreshQueue, Known
<1>4. AdmitsDiffer' /\ QueueDiffers'
  BY DEF FreshQueue, AdmitsDiffer, QueueDiffers
<1> QED BY <1>2, <1>3, <1>4 DEF FreshQueue

(* A caller draws a timestamp nobody has, and admission hands it on.       *)
LEMMA CallerFresh ==
    ASSUME ~Ties, TypeOK, Control, FreshQueue, NEW c \in Clients, CallerNext(c)
    PROVE  FreshQueue' /\ Known \subseteq Known' /\ issued' \in {issued, issued + 1}
<1> USE DEF phaseVars, liveVars, queueVars, workerVars, fileVars, boundVars, ghostVars
<1>0. /\ \A d \in Clients : d # c => caller'[d] = caller[d]
      /\ issued \in Nat /\ Len(requests) \in Nat
      /\ caller \in [Clients -> [pc : CallerStates, rec : Record]]
  BY CallerFrame, LenProperties DEF TypeOK
<1>1. CASE CallBatch(c) \/ CallCascade(c)
  <2>1. PICK r : /\ r.ts = issued + 1
                 /\ caller' = [caller EXCEPT ![c] = [pc |-> "admit", rec |-> r]]
                 /\ issued' = issued + 1 /\ requests' = requests
    <3>1. Timestamps = {issued + 1}
      BY DEF Timestamps
    <3>2. CASE CallBatch(c)
      <4>1. PICK k, z : Call(c, "admit", BatchRecord(k, issued + 1, z))
        BY <3>1, <3>2 DEF CallBatch
      <4>2. BatchRecord(k, issued + 1, z).ts = issued + 1
        BY DEF BatchRecord
      <4> QED BY <4>1, <4>2 DEF Call
    <3>3. CASE CallCascade(c)
      <4>1. PICK S, id, z : Call(c, "admit", CascadeRecord(S, issued + 1, id, z))
        BY <3>1, <3>3 DEF CallCascade
      <4>2. CascadeRecord(S, issued + 1, id, z).ts = issued + 1
        BY DEF CascadeRecord
      <4> QED BY <4>1, <4>2 DEF Call
    <3> QED BY <1>1, <3>2, <3>3
  <2>2. caller'[c].pc = "admit" /\ caller'[c].rec.ts = issued + 1
    BY <1>0, <2>1
  <2>3. ASSUME NEW t \in Unused' PROVE t \in Unused \/ t = issued + 1
    <3>1. ASSUME NEW d \in Clients, caller'[d].pc = "admit", t = caller'[d].rec.ts
          PROVE  t \in Unused \/ t = issued + 1
      BY <1>0, <2>2, <3>1 DEF Unused
    <3>2. ASSUME NEW i \in 1..Len(requests'), t = requests'[i].rec.ts
          PROVE  t \in Unused
      BY <2>1, <3>2 DEF Unused
    <3> QED BY <2>3, <3>1, <3>2 DEF Unused
  <2>4. Unused' \subseteq 1..issued' /\ Known \subseteq Known'
    <3>1. Unused \subseteq 1..issued /\ issued' = issued + 1
      BY <2>1 DEF FreshQueue
    <3>2. ASSUME NEW t \in Unused' PROVE t \in 1..(issued + 1)
      <4>1. t \in 1..issued \/ t = issued + 1
        BY <2>3, <3>1
      <4>2. issued \in Nat
        BY <1>0
      <4> QED BY ONLY <4>1, <4>2
    <3>3. \A t \in 0..issued : t \in 0..(issued + 1) /\ t # issued + 1
      BY <1>0
    <3> QED BY <2>3, <3>1, <3>2, <3>3 DEF Known
  <2>5. \A d \in Clients : caller[d].pc = "admit" => caller[d].rec.ts \in 1..issued
    BY DEF FreshQueue, Unused
  <2>6. \A i \in 1..Len(requests) : requests[i].rec.ts \in 1..issued
    BY DEF FreshQueue, Unused
  <2>7. AdmitsDiffer'
    BY <1>0, <2>2, <2>5 DEF FreshQueue, AdmitsDiffer
  <2>8. QueueDiffers'
    BY <1>0, <2>1, <2>2, <2>6 DEF FreshQueue, QueueDiffers
  <2>9. AcksWriteNothing'
    BY <1>0, <2>2 DEF FreshQueue, AcksWriteNothing
  <2> QED BY <2>1, <2>4, <2>7, <2>8, <2>9 DEF FreshQueue
<1>2. CASE CallAck(c)
  <2>1. PICK id : /\ caller' = [caller EXCEPT ![c] = [pc |-> "ack", rec |-> AckRecord(id)]]
                  /\ issued' = issued + 1 /\ requests' = requests
    BY <1>2 DEF CallAck, Call
  <2>2. caller'[c].pc = "ack" /\ caller'[c].rec = AckRecord(id)
    BY <1>0, <2>1
  <2>3. caller'[c].rec.ts = 0 /\ caller'[c].rec.keys = {}
    BY <2>2 DEF AckRecord
  <2>4. AcksWriteNothing'
    BY <1>0, <2>3 DEF FreshQueue, AcksWriteNothing
  <2> QED BY <1>0, <2>1, <2>2, <2>4, FreshKept
<1>3. CASE AdmitStrict(c) \/ AdmitEventual(c)
  <2>1. Enqueue(c) /\ caller[c].pc = "admit" /\ issued' = issued
    BY <1>3 DEF AdmitStrict, AdmitEventual, Admissible, Enqueue
  <2>2. caller'[c].pc \in {"wait", "idle"}
    BY <1>0, <1>3 DEF AdmitStrict, AdmitEventual, Moved, Returned, Idle
  <2>3. /\ Len(requests') = Len(requests) + 1
        /\ \A i \in 1..Len(requests) : requests'[i] = requests[i]
        /\ requests'[Len(requests) + 1].rec = caller[c].rec
    BY <2>1, Enqueued
  <2>4. ASSUME NEW t \in Unused' PROVE t \in Unused
    <3>1. ASSUME NEW d \in Clients, caller'[d].pc = "admit", t = caller'[d].rec.ts
          PROVE  t \in Unused
      BY <1>0, <2>2, <3>1 DEF Unused
    <3>2. ASSUME NEW i \in 1..Len(requests'), t = requests'[i].rec.ts
          PROVE  t \in Unused
      <4>1. i \in 1..Len(requests) \/ i = Len(requests) + 1
        BY <1>0, <2>3
      <4>2. CASE i \in 1..Len(requests)
        BY <2>3, <3>2, <4>2 DEF Unused
      <4>3. CASE i = Len(requests) + 1
        <5>1. t = caller[c].rec.ts
          BY <2>3, <3>2, <4>3
        <5> QED BY <2>1, <5>1 DEF Unused
      <4> QED BY <4>1, <4>2, <4>3
    <3> QED BY <2>4, <3>1, <3>2 DEF Unused
  <2>5. Unused' \subseteq 1..issued' /\ Known \subseteq Known'
    BY <2>1, <2>4 DEF FreshQueue, Known
  <2>6. AdmitsDiffer' /\ AcksWriteNothing'
    BY <1>0, <2>2 DEF FreshQueue, AdmitsDiffer, AcksWriteNothing
  <2>7. QueueDiffers'
    <3>1. ASSUME NEW d \in Clients, caller'[d].pc = "admit", NEW i \in 1..Len(requests')
          PROVE  caller'[d].rec.ts # requests'[i].rec.ts
      <4>1. d # c /\ caller'[d] = caller[d]
        BY <1>0, <2>2, <3>1
      <4>2. i \in 1..Len(requests) \/ i = Len(requests) + 1
        BY <1>0, <2>3
      <4>3. CASE i \in 1..Len(requests)
        BY <2>3, <3>1, <4>1, <4>3 DEF FreshQueue, QueueDiffers
      <4>4. CASE i = Len(requests) + 1
        BY <2>1, <2>3, <3>1, <4>1, <4>4 DEF FreshQueue, AdmitsDiffer
      <4> QED BY <4>2, <4>3, <4>4
    <3> QED BY <3>1 DEF QueueDiffers
  <2> QED BY <2>1, <2>5, <2>6, <2>7 DEF FreshQueue
<1>4. CASE AdmitOom(c) \/ AdmitRefused(c) \/ Return(c) \/ AckOk(c) \/ AckFails(c)
  <2>1. Returned(c) /\ UNCHANGED <<requests, issued>>
    BY <1>4 DEF AdmitOom, AdmitRefused, Return, AckOk, AckFails
  <2>2. caller'[c].pc = "idle"
    BY <1>0, <2>1 DEF Returned, Idle
  <2>3. AcksWriteNothing'
    BY <1>0, <2>2 DEF FreshQueue, AcksWriteNothing
  <2> QED BY <1>0, <2>1, <2>2, <2>3, FreshKept
<1> QED BY <1>1, <1>2, <1>3, <1>4 DEF CallerNext

(* Nobody else draws a timestamp.                                          *)
LEMMA OtherFresh ==
    ASSUME TypeOK, Control, FreshQueue,
           \/ WorkerNext \/ ReplayNext \/ Deinit \/ Reopen \/ Crash \/ UNCHANGED vars
    PROVE  FreshQueue' /\ Known \subseteq Known' /\ issued' = issued
<1> USE DEF phaseVars, liveVars, queueVars, workerVars, fileVars, boundVars, ghostVars
<1>1. ASSUME UNCHANGED <<caller, issued>>, requests' = requests \/ requests' = <<>>
      PROVE  FreshQueue' /\ Known \subseteq Known' /\ issued' = issued
  <2>1. \A i \in 1..Len(requests') : \E j \in 1..Len(requests) : requests'[i] = requests[j]
    BY <1>1, EmptySeq
  <2>2. AcksWriteNothing'
    BY <1>1 DEF FreshQueue, AcksWriteNothing
  <2> QED BY <1>1, <2>1, <2>2, FreshKept
<1>2. CASE Commit \/ Abort
  <2>1. /\ issued' = issued
        /\ requests' = requests \/ requests' = <<>>
        /\ \E S, pc : Signal(S, pc) /\ pc \in {"done", "error"}
    BY <1>2 DEF Commit, Abort
  <2>2. PICK S, pc : Signal(S, pc) /\ pc \in {"done", "error"}
    BY <2>1
  <2>3. ASSUME NEW c \in Clients PROVE caller'[c] = caller[c] \/ caller'[c].pc = pc
    <3>1. caller[c] \in [pc : CallerStates, rec : Record]
      BY DEF TypeOK
    <3>2. caller'[c] = IF c \in S THEN [caller[c] EXCEPT !.pc = pc] ELSE caller[c]
      BY <2>2 DEF Signal
    <3> QED BY <3>1, <3>2
  <2>4. \A i \in 1..Len(requests') : \E j \in 1..Len(requests) : requests'[i] = requests[j]
    BY <2>1, EmptySeq
  <2>5. AcksWriteNothing'
    BY <2>2, <2>3 DEF FreshQueue, AcksWriteNothing
  <2>6. \A c \in Clients : caller'[c].pc = "admit" => caller'[c] = caller[c]
    BY <2>2, <2>3
  <2> QED BY ONLY TypeOK, FreshQueue, <2>1, <2>4, <2>5, <2>6, FreshKept
<1>3. CASE Reopen \/ Crash
  <2>1. issued' = issued /\ requests' = <<>> /\ \A c \in Clients : caller'[c].pc = "idle"
    BY <1>3 DEF Reopen, Crash, Restart, Idle
  <2>2. \A i \in 1..Len(requests') : \E j \in 1..Len(requests) : requests'[i] = requests[j]
    BY <2>1, EmptySeq
  <2>3. AcksWriteNothing'
    BY <2>1 DEF AcksWriteNothing
  <2> QED BY <2>1, <2>2, <2>3, FreshKept
<1>4. CASE ReplayNext \/ Deinit \/ UNCHANGED vars
  <2>1. UNCHANGED <<caller, issued, requests>>
    BY <1>4 DEF ReplayNext, ReplayRecord, ReplayDone, ReplayTorn, ReplayCorrupt, Recovered,
                Deinit, vars
  <2> QED BY <1>1, <2>1
<1>5. CASE WorkerNext /\ ~Commit /\ ~Abort
  <2>1. UNCHANGED <<caller, issued>> /\ (requests' = requests \/ requests' = <<>>)
    BY <1>5 DEF WorkerNext, Take, Publish, PublishOom, Unpublish, Rollback, RollbackLoop,
                Relock, AppendRecord, AppendFails, SyncGroup, SyncFails, AppendTooLarge, WorkerExit
  <2> QED BY <1>1, <2>1
<1> QED BY <1>2, <1>3, <1>4, <1>5

(* Where the entries of the journal come from.                             *)
Origin(e) ==
    \/ \E j \in 1..Len(file) : e = file[j]
    \/ e = Torn
    \/ \E c \in Clients : caller[c].pc = "ack" /\ e = caller[c].rec
    \/ \E j \in 1..Len(group) : e = group[j].rec

LEMMA FileOrigin ==
    ASSUME TypeOK, Control, [Next]_vars
    PROVE  \A i \in 1..Len(file') : Origin(file'[i])
<1> USE DEF phaseVars, liveVars, queueVars, workerVars, fileVars, boundVars, ghostVars
<1>0. file \in Seq(Record) /\ Len(file) \in Nat /\ pos \in Nat \ {0} /\ synced \in 0..Len(file)
  BY LenProperties DEF TypeOK
<1>1. ASSUME file' = file PROVE \A i \in 1..Len(file') : Origin(file'[i])
  BY <1>1 DEF Origin
<1>2. ASSUME NEW s \in Seq(Record), NEW r \in Record, file' = Append(s, r), Origin(r),
             \A i \in 1..Len(s) : Origin(s[i])
      PROVE  \A i \in 1..Len(file') : Origin(file'[i])
  <2>1. /\ Len(file') = Len(s) + 1 /\ Len(s) \in Nat
        /\ \A i \in 1..Len(s) : file'[i] = s[i]
        /\ file'[Len(s) + 1] = r
    BY <1>2, AppendProperties, LenProperties
  <2> QED BY <1>2, <2>1
<1>3. \A i \in 1..Len(file) : Origin(file[i])
  BY DEF Origin
<1>4. Origin(Torn) /\ Torn \in Record
  BY RecordTypes DEF Origin
<1>5. ASSUME NEW debris \in WriteDebris, file' = file \o debris
      PROVE  \A i \in 1..Len(file') : Origin(file'[i])
  <2>1. CASE debris = <<>>
    BY <1>0, <1>1, <1>5, <2>1
  <2>2. CASE debris = <<Torn>>
    <3>1. file' = Append(file, Torn)
      BY <1>0, <1>4, <1>5, <2>2, AppendIsConcat
    <3> QED BY <1>0, <1>2, <1>3, <1>4, <3>1
  <2> QED BY <2>1, <2>2, DebrisType
<1>6. ASSUME NEW n \in 0..Len(file)
      PROVE  /\ SubSeq(file, 1, n) \in Seq(Record)
             /\ \A i \in 1..Len(SubSeq(file, 1, n)) : Origin(SubSeq(file, 1, n)[i])
  <2>1. /\ SubSeq(file, 1, n) \in Seq(Record) /\ Len(SubSeq(file, 1, n)) = n
        /\ \A i \in 1..n : SubSeq(file, 1, n)[i] = file[i]
    BY <1>0, PrefixProperties
  <2>2. \A i \in 1..n : i \in 1..Len(file)
    BY <1>0
  <2> QED BY <1>3, <2>1, <2>2
<1>7. CASE Crash
  <2>1. PICK n \in synced..Len(file) :
           \/ file' = SubSeq(file, 1, n)
           \/ file' = Append(SubSeq(file, 1, n), Torn)
    BY <1>7 DEF Crash
  <2>2. n \in 0..Len(file)
    BY <1>0
  <2> QED BY <1>2, <1>4, <1>6, <2>1, <2>2
<1>8. CASE ReplayTorn
  <2>1. pos - 1 \in 0..Len(file) /\ file' = SubSeq(file, 1, pos - 1)
    BY <1>0, <1>8 DEF ReplayTorn
  <2> QED BY <1>6, <2>1
<1>9. CASE AppendRecord
  <2>1. idx \in 1..Len(group) /\ file' = Append(file, group[idx].rec)
    BY <1>9 DEF AppendRecord, Control, IndexInv, TypeOK
  <2>2. group[idx] \in Request
    BY <2>1, ElementOfSeq DEF TypeOK
  <2>3. group[idx].rec \in Record /\ Origin(group[idx].rec)
    BY <2>1, <2>2 DEF Request, Origin
  <2> QED BY <1>0, <1>2, <1>3, <2>1, <2>3
<1>10. ASSUME NEW c \in Clients, AckOk(c) \/ AckFails(c)
       PROVE  \A i \in 1..Len(file') : Origin(file'[i])
  <2>1. caller[c].pc = "ack" /\ caller[c].rec \in Record
    BY <1>10 DEF AckOk, AckFails, AckReady, TypeOK
  <2>2. Origin(caller[c].rec)
    BY <2>1 DEF Origin
  <2>3. \/ file' = Append(file, caller[c].rec)
        \/ \E debris \in WriteDebris : file' = file \o debris
    BY <1>10 DEF AckOk, AckFails
  <2> QED BY <1>0, <1>2, <1>3, <1>5, <2>1, <2>2, <2>3
<1>11. CASE AppendFails
  BY <1>5, <1>11 DEF AppendFails
<1>12. ASSUME NEW c \in Clients, CallerNext(c), ~AckOk(c), ~AckFails(c) PROVE file' = file
  BY <1>12 DEF CallerNext, Call, CallBatch, CallCascade, CallAck, AdmitStrict, AdmitEventual,
               AdmitOom, AdmitRefused, Enqueue, Return
<1>13. ASSUME WorkerNext, ~AppendRecord, ~AppendFails PROVE file' = file
  BY <1>13 DEF WorkerNext, Take, Publish, PublishOom, Unpublish, Rollback, RollbackLoop, Relock,
               SyncGroup, SyncFails, AppendTooLarge, Commit, Abort, WorkerExit
<1>14. CASE ReplayRecord \/ ReplayDone \/ ReplayCorrupt \/ Deinit \/ Reopen \/ UNCHANGED vars
  <2>1. file' = file
    BY <1>14 DEF ReplayRecord, ReplayDone, ReplayCorrupt, Deinit, Reopen, vars
  <2> QED BY <1>1, <2>1
<1> QED BY <1>1, <1>7, <1>8, <1>9, <1>10, <1>11, <1>12, <1>13, <1>14 DEF Next, ReplayNext

(* The writer, walking a group it has taken, uses timestamps already known *)
(* and restores facts already known.                                       *)
LEMMA WorkerFreshState ==
    ASSUME Durability = "strict", TypeOK, Control, FreshInv, WorkerNext, Known \subseteq Known',
           issued' = issued
    PROVE  FactsKnown' /\ GroupKnown' /\ UndoKnown' /\ GroupNew' /\ UndoNew'
<1> USE DEF phaseVars, liveVars, queueVars, workerVars, fileVars, boundVars, ghostVars
<1>0. /\ facts \in Facts /\ undo \in Seq(FactUndo) /\ Len(undo) \in Nat
      /\ 0 \in Known /\ \A t \in Known : t \in Known'
  <2>1. 0 \in Known
    BY DEF FreshInv, FreshQueue, Known, TypeOK
  <2> QED BY <2>1, LenProperties DEF TypeOK
<1>1. CASE Take
  <2>1. /\ group' = requests /\ requests' = <<>> /\ undo' = <<>> /\ before' = facts
        /\ UNCHANGED <<facts, caller>>
    BY <1>1 DEF Take
  <2>2. Len(undo') = 0 /\ Len(requests') = 0
    BY <2>1, EmptySeq
  <2>3. ASSUME NEW i \in 1..Len(requests) PROVE requests[i].rec.ts \in Known'
    <3>1. requests[i].rec.ts \in 1..issued
      BY DEF FreshInv, FreshQueue, Unused
    <3>2. ASSUME NEW t \in Unused' PROVE t # requests[i].rec.ts
      <4>1. PICK c \in Clients : caller[c].pc = "admit" /\ t = caller[c].rec.ts
        BY <2>1, <2>2 DEF Unused
      <4> QED BY <4>1 DEF FreshInv, FreshQueue, QueueDiffers
    <3>3. requests[i].rec.ts \in 0..issued'
      BY <3>1 DEF TypeOK
    <3> QED BY <3>2, <3>3 DEF Known
  <2>4. GroupKnown'
    BY <2>1, <2>3 DEF GroupKnown
  <2>5. FactsKnown'
    BY <1>0, <2>1 DEF FreshInv, FreshState, FactsKnown
  <2>6. UndoKnown' /\ UndoNew'
    BY <2>2 DEF UndoKnown, UndoNew, Inert
  <2>7. ASSUME NEW i \in 1..Len(requests), NEW k \in Keys PROVE facts[k] # requests[i].rec.ts
    <3>1. requests[i].rec.ts \in Unused
      BY DEF Unused
    <3> QED BY <3>1 DEF FreshInv, FreshState, FactsKnown, Known
  <2>8. GroupNew'
    BY <2>1, <2>7 DEF GroupNew
  <2> QED BY <2>4, <2>5, <2>6, <2>8
<1>2. CASE Publish \/ PublishOom
  <2> DEFINE r == group[idx].rec
  <2>1. worker = "publish" /\ idx \in 1..Len(group) /\ UNCHANGED <<group, before>>
    BY <1>2 DEF Publish, PublishOom, Control, IndexInv
  <2>2. group[idx] \in Request
    BY <2>1, ElementOfSeq DEF TypeOK
  <2>3. r.keys \in SUBSET Keys /\ r.ts \in Nat
    BY <2>2 DEF Request, Record
  <2>4. r.ts \in Known /\ \A k \in Keys : before[k] # r.ts
    BY <2>1 DEF FreshInv, FreshState, GroupKnown, GroupNew, Writing
  <2> HIDE DEF r
  <2>5. PICK noted \in SUBSET Keys : \E done :
          /\ undo' = AddUndo(facts, undo, noted, r.ts)
          /\ facts' = Put(facts, done, r.ts)
    <3>1. CASE Publish
      BY <2>3, <3>1 DEF Publish, r
    <3>2. CASE PublishOom
      BY <2>3, <3>2 DEF PublishOom, r
    <3> QED BY <1>2, <3>1, <3>2
  <2>6. PICK done : facts' = Put(facts, done, r.ts)
    BY <2>5
  <2>7. FactsKnown'
    <3>1. \A k \in Keys : facts'[k] \in {facts[k], r.ts}
      BY <1>0, <2>3, <2>6, PutRaises
    <3> QED BY <1>0, <2>4, <3>1 DEF FreshInv, FreshState, FactsKnown
  <2>8. UndoKnown' /\ Inert(undo', before')
    <3>1. CASE noted = {}
      <4>1. undo' = undo
        BY <2>5, <3>1 DEF AddUndo
      <4> QED BY <1>0, <2>1, <4>1 DEF FreshInv, FreshState, UndoKnown, UndoNew, Writing
    <3>2. CASE noted # {}
      <4> DEFINE e == UndoEntry(facts, noted, r.ts)
      <4>1. undo' = Append(undo, e)
        BY <2>5, <3>2 DEF AddUndo
      <4>2. e \in FactUndo
        BY <1>0, <2>3, UndoEntryType
      <4>3. /\ e.keys = noted /\ e.ts = r.ts
            /\ \A k \in Keys : e.previous[k] \in {facts[k], 0}
        BY DEF UndoEntry, Absent
      <4> HIDE DEF e
      <4>4. /\ Len(undo') = Len(undo) + 1
            /\ \A i \in 1..Len(undo) : undo'[i] = undo[i]
            /\ undo'[Len(undo) + 1] = e
        BY <1>0, <4>1, <4>2, AppendProperties
      <4>5. \A k \in Keys : e.previous[k] \in Known'
        BY <1>0, <4>3 DEF FreshInv, FreshState, FactsKnown
      <4>6. \A i \in 1..Len(undo) : \A k \in Keys : undo[i].previous[k] \in Known'
        BY <1>0 DEF FreshInv, FreshState, UndoKnown
      <4>7. UndoKnown'
        BY <1>0, <4>4, <4>5, <4>6 DEF UndoKnown
      <4>8. \A k \in noted : before[k] # e.ts
        BY <2>4, <4>3
      <4>9. Inert(undo, before)
        BY <2>1 DEF FreshInv, FreshState, UndoNew, Writing
      <4>10. Inert(undo', before')
        BY <1>0, <2>1, <4>3, <4>4, <4>8, <4>9 DEF Inert
      <4> QED BY <4>7, <4>10
    <3> QED BY <3>1, <3>2
  <2>9. GroupKnown' /\ GroupNew'
    BY <1>0, <2>1 DEF FreshInv, FreshState, GroupKnown, GroupNew, Writing
  <2> QED BY <2>7, <2>8, <2>9 DEF UndoNew
<1>3. CASE Unpublish \/ Rollback
  <2>1. PICK from \in {"unpublish", "rollback"}, to \in {"relock", "abort"} : RollbackLoop(from, to)
    BY <1>3 DEF Unpublish, Rollback
  <2>2. UNCHANGED <<group, before>> /\ worker = from /\ idx \in 0..Len(undo)
    BY <2>1 DEF RollbackLoop, Control, IndexInv
  <2>3. GroupKnown' /\ GroupNew'
    BY <1>0, <2>2 DEF FreshInv, FreshState, GroupKnown, GroupNew, Writing
  <2>4. Inert(undo, before)
    BY <2>2 DEF FreshInv, FreshState, UndoNew, Writing
  <2>5. UndoNew'
    BY <2>1, <2>4, RollbackUndoable DEF UndoNew
  <2>6. CASE idx = 0
    <3>1. UNCHANGED <<facts, undo>>
      BY <2>1, <2>6 DEF RollbackLoop
    <3>2. FactsKnown' /\ UndoKnown'
      BY <1>0, <3>1 DEF FreshInv, FreshState, FactsKnown, UndoKnown
    <3> QED BY <2>3, <2>5, <3>2
  <2>7. CASE idx > 0
    <3>1. /\ facts' = Restore(facts, undo[idx])
          /\ undo' = [undo EXCEPT ![idx] = Consume(facts, undo[idx])]
      BY <2>1, <2>7 DEF RollbackLoop
    <3>2. idx \in 1..Len(undo)
      BY <2>2, <2>7
    <3>3. undo[idx] \in FactUndo
      BY <1>0, <3>2, ElementOfSeq
    <3>4. \A k \in Keys : undo[idx].previous[k] \in Known /\ facts[k] \in Known
      BY <3>2 DEF FreshInv, FreshState, FactsKnown, UndoKnown
    <3>5. \A k \in Keys : facts'[k] \in {undo[idx].previous[k], facts[k]}
      BY <3>1 DEF Restore
    <3>6. FactsKnown'
      BY <1>0, <3>4, <3>5 DEF FactsKnown
    <3>7. \A k \in Keys : Consume(facts, undo[idx]).previous[k] \in {0, undo[idx].previous[k]}
      BY <3>3 DEF Consume, FactUndo, Absent
    <3>8. /\ Len(undo') = Len(undo)
          /\ \A i \in 1..Len(undo) : i # idx => undo'[i] = undo[i]
          /\ undo'[idx] = Consume(facts, undo[idx])
      BY <1>0, <3>1, <3>2
    <3>9. ASSUME NEW i \in 1..Len(undo), NEW k \in Keys PROVE undo'[i].previous[k] \in Known'
      <4>1. CASE i = idx
        BY <1>0, <3>4, <3>7, <3>8, <4>1
      <4>2. CASE i # idx
        BY <1>0, <3>8, <4>2 DEF FreshInv, FreshState, UndoKnown
      <4> QED BY <4>1, <4>2
    <3>10. UndoKnown'
      BY <3>8, <3>9 DEF UndoKnown
    <3> QED BY <2>3, <2>5, <3>6, <3>10
  <2> QED BY <2>2, <2>6, <2>7, <1>0
<1>4. CASE Relock \/ AppendRecord \/ AppendFails \/ SyncGroup \/ SyncFails \/ AppendTooLarge
  <2>1. UNCHANGED <<facts, group, undo, before>> /\ Writing
    BY <1>4 DEF Relock, AppendRecord, AppendFails, SyncGroup, SyncFails, AppendTooLarge, Writing
  <2> QED BY <1>0, <2>1 DEF FreshInv, FreshState, FactsKnown, GroupKnown, UndoKnown, GroupNew,
                            UndoNew
<1>5. CASE Commit \/ Abort
  <2>1. group' = <<>> /\ undo' = <<>> /\ facts' = facts
    BY <1>5 DEF Commit, Abort
  <2>2. Len(group') = 0 /\ Len(undo') = 0
    BY <2>1, EmptySeq
  <2> QED BY <1>0, <2>1, <2>2 DEF FreshInv, FreshState, FactsKnown, GroupKnown, UndoKnown,
                                  GroupNew, UndoNew, Inert
<1>6. CASE WorkerExit
  <2>1. UNCHANGED <<facts, group, undo, before>> /\ ~Writing'
    BY <1>6 DEF WorkerExit, Writing
  <2> QED BY <1>0, <2>1 DEF FreshInv, FreshState, FactsKnown, GroupKnown, UndoKnown, GroupNew,
                            UndoNew
<1> QED BY <1>1, <1>2, <1>3, <1>4, <1>5, <1>6 DEF WorkerNext

LEMMA FreshStep ==
    ASSUME Durability = "strict", ~Ties, TypeOK, Control, FreshInv, [Next]_vars
    PROVE  FreshInv'
<1> USE DEF phaseVars, liveVars, queueVars, workerVars, fileVars, boundVars, ghostVars
<1>1. FreshQueue' /\ Known \subseteq Known' /\ issued' \in {issued, issued + 1}
  <2>1. ASSUME NEW c \in Clients, CallerNext(c)
        PROVE  FreshQueue' /\ Known \subseteq Known' /\ issued' \in {issued, issued + 1}
    BY <2>1, CallerFresh DEF FreshInv
  <2>2. ASSUME \/ WorkerNext \/ ReplayNext \/ Deinit \/ Reopen \/ Crash \/ UNCHANGED vars
        PROVE  FreshQueue' /\ Known \subseteq Known' /\ issued' \in {issued, issued + 1}
    BY <2>2, OtherFresh DEF FreshInv
  <2> QED BY <2>1, <2>2 DEF Next
<1>2. FileKnown'
  <2>1. ASSUME NEW i \in 1..Len(file') PROVE file'[i].ts <= issued'
    <3>0. issued \in Nat /\ issued' \in Nat /\ issued <= issued'
      BY <1>1 DEF TypeOK
    <3>1. Origin(file'[i])
      BY FileOrigin
    <3>2. Torn.ts = 0
      BY DEF Torn, NoRecord
    <3>3. \A j \in 1..Len(group) : group[j].rec.ts \in 0..issued
      BY DEF FreshInv, FreshState, GroupKnown, Known
    <3>4. \A c \in Clients : caller[c].pc = "ack" => caller[c].rec.ts = 0
      BY DEF FreshInv, FreshQueue, AcksWriteNothing
    <3>5. \A j \in 1..Len(file) : file[j].ts <= issued /\ file[j].ts \in Nat
      <4>1. \A j \in 1..Len(file) : file[j] \in Record
        BY ElementOfSeq DEF TypeOK
      <4> QED BY <4>1 DEF FreshInv, FreshState, FileKnown, Record
    <3> QED BY <3>0, <3>1, <3>2, <3>3, <3>4, <3>5 DEF Origin
  <2> QED BY <2>1 DEF FileKnown
<1>3. 0 \in Known /\ 0 \in Known' /\ \A t \in Known : t \in Known'
  <2>1. 0 \in Known
    BY DEF FreshInv, FreshQueue, Known, TypeOK
  <2> QED BY <1>1, <2>1
<1>4. ASSUME UNCHANGED <<facts, group, undo, before>>, Writing' => Writing
      PROVE  FactsKnown' /\ GroupKnown' /\ UndoKnown' /\ GroupNew' /\ UndoNew'
  BY <1>3, <1>4 DEF FreshInv, FreshState, FactsKnown, GroupKnown, UndoKnown, GroupNew, UndoNew
<1>5. FactsKnown' /\ GroupKnown' /\ UndoKnown' /\ GroupNew' /\ UndoNew'
  <2>1. ASSUME NEW c \in Clients, CallerNext(c)
        PROVE  UNCHANGED <<facts, group, undo, before>> /\ (Writing' => Writing)
    BY <2>1, CallerFrame, CallerFacts DEF Writing
  <2>2. CASE WorkerNext
    BY <1>1, <2>2, WorkerFreshState, OtherFresh DEF FreshInv
  <2>3. CASE ReplayRecord
    <3>1. /\ phase = "replay" /\ pos \in 1..Len(file) /\ UNCHANGED <<group, undo, before, worker>>
          /\ facts' = Put(facts, file[pos].keys, file[pos].ts)
      BY <2>3, LenProperties DEF ReplayRecord, TypeOK
    <3>2. requests = <<>> /\ worker = "none" /\ \A c \in Clients : caller[c].pc = "idle"
      BY <3>1 DEF Control, ReplayQuiet
    <3>3. Unused = {}
      <4>1. Len(requests) = 0
        BY <3>2, EmptySeq
      <4> QED BY <3>2, <4>1 DEF Unused
    <3>4. file[pos] \in Record
      BY <3>1, ElementOfSeq DEF TypeOK
    <3>5. file[pos].ts \in Nat /\ file[pos].ts <= issued /\ issued \in Nat
      BY <3>1, <3>4 DEF Record, FreshInv, FreshState, FileKnown, TypeOK
    <3>6. file[pos].ts \in Known
      BY <3>3, <3>5 DEF Known
    <3>7. \A k \in Keys : facts'[k] \in {facts[k], file[pos].ts}
      BY <3>1, <3>5, PutRaises DEF TypeOK
    <3>8. FactsKnown'
      BY <1>3, <3>6, <3>7 DEF FreshInv, FreshState, FactsKnown
    <3>9. GroupKnown' /\ UndoKnown' /\ GroupNew' /\ UndoNew'
      BY <1>3, <3>1, <3>2 DEF FreshInv, FreshState, GroupKnown, UndoKnown, GroupNew, UndoNew,
                              Writing
    <3> QED BY <3>8, <3>9
  <2>4. CASE ReplayDone \/ ReplayTorn \/ ReplayCorrupt \/ Deinit \/ UNCHANGED vars
    <3>1. UNCHANGED <<facts, group, undo, before>> /\ (Writing' => Writing)
      BY <2>4 DEF ReplayDone, ReplayTorn, ReplayCorrupt, Recovered, Deinit, vars, Writing
    <3> QED BY <1>4, <3>1
  <2>5. CASE Reopen \/ Crash
    <3>1. facts' = EmptyFacts /\ group' = <<>> /\ undo' = <<>> /\ worker' = "none"
      BY <2>5 DEF Reopen, Crash, Restart
    <3>2. Len(group') = 0 /\ Len(undo') = 0
      BY <3>1, EmptySeq
    <3>3. \A k \in Keys : facts'[k] = 0
      BY <3>1 DEF EmptyFacts, Absent
    <3> QED BY <1>3, <3>1, <3>2, <3>3 DEF FactsKnown, GroupKnown, UndoKnown, GroupNew, UndoNew,
                                          Writing
  <2> QED BY <1>4, <2>1, <2>2, <2>3, <2>4, <2>5 DEF Next, ReplayNext
<1> QED BY <1>1, <1>2, <1>5 DEF FreshInv, FreshState

LEMMA FreshInvariant ==
    ASSUME Durability = "strict", ~Ties
    PROVE  Spec => []FreshInv
<1>1. Init => FreshInv
  <2>1. SUFFICES ASSUME Init PROVE FreshInv
    OBVIOUS
  <2>2. Len(requests) = 0 /\ Len(group) = 0 /\ Len(undo) = 0 /\ Len(file) = 0
    BY <2>1, EmptySeq DEF Init
  <2>3. \A c \in Clients : caller[c].pc = "idle"
    BY <2>1 DEF Init, Idle
  <2>4. Unused = {}
    BY <2>2, <2>3 DEF Unused
  <2>5. FreshQueue
    BY <2>3, <2>4 DEF FreshQueue, AdmitsDiffer, QueueDiffers, AcksWriteNothing
  <2>6. \A k \in Keys : facts[k] = 0
    BY <2>1 DEF Init, EmptyFacts, Absent
  <2>7. 0 \in Known
    BY <2>1, <2>4 DEF Init, Known
  <2>8. FreshState
    BY <2>1, <2>2, <2>6, <2>7 DEF Init, FreshState, FactsKnown, GroupKnown, UndoKnown,
                                  FileKnown, GroupNew, UndoNew, Writing
  <2> QED BY <2>5, <2>8 DEF FreshInv
<1>2. TypeOK /\ Control /\ FreshInv /\ [Next]_vars => FreshInv'
  BY FreshStep
<1> QED BY <1>1, <1>2, WalTypeOK, PTL DEF Spec

(* A failed group is rolled back over the same undo list twice when an     *)
(* allocation failed while it was published (workerMain 330-333, then      *)
(* 359-364), and the first pass has moved the saved facts out of the list. *)
(* The second pass is harmless only if no fact bears a timestamp of the    *)
(* group: if callers never reuse one, as under the engine's clock.         *)
OneRollback == "oom" \notin Faults \/ ~Ties

LEMMA UndoInvariant ==
    ASSUME Durability = "strict", OneRollback
    PROVE  Spec => []UndoInv
<1> DEFINE NoUnpublish == worker # "unpublish"
           Safe == worker = "unpublish" => Inert(undo, before)
<1>1. Init => UndoInv
  BY DEF Init, UndoInv, Published, Unpublishing, ToUndo, Undoing, FailedGroupLeavesNoFact
<1>2. TypeOK /\ Control /\ UndoInv /\ Safe /\ [Next]_vars => UndoInv'
  BY UndoStep
<1>3. CASE ~Ties
  <2>1. FreshInv => Safe
    BY DEF FreshInv, FreshState, UndoNew, Writing
  <2> HIDE DEF Safe
  <2> QED BY <1>1, <1>2, <1>3, <2>1, FreshInvariant, WalTypeOK, PTL DEF Spec
<1>4. CASE "oom" \notin Faults
  <2>1. Init => NoUnpublish
    BY DEF Init
  <2>2. NoUnpublish /\ [Next]_vars => NoUnpublish'
    BY <1>4 DEF Next, CallerNext, Call, CallBatch, CallCascade, CallAck, Start, AdmitStrict,
                AdmitEventual, AdmitOom, AdmitRefused, Enqueue, Return, AckOk, AckFails,
                WorkerNext, Take, Publish, PublishOom, Unpublish, Rollback, RollbackLoop,
                Relock, AppendRecord, AppendFails, AttemptFails, SyncGroup, SyncFails, AppendTooLarge, Commit,
                Abort, WorkerExit, ReplayNext, ReplayRecord, ReplayDone, ReplayTorn,
                ReplayCorrupt, Recovered, Deinit, Reopen, Crash, Restart, vars, workerVars
  <2>3. NoUnpublish => Safe
    OBVIOUS
  <2> HIDE DEF NoUnpublish, Safe
  <2> QED BY <1>1, <1>2, <2>1, <2>2, <2>3, WalTypeOK, PTL DEF Spec
<1> QED BY <1>3, <1>4 DEF OneRollback

(***************************************************************************)
(* A strict group that is reported failed has left no fact behind and put  *)
(* back every fact it replaced, whatever its requests wrote and wherever   *)
(* it failed (rollbackFacts, workerMain 330-333 and 359-364), provided     *)
(* that allocations succeed or callers do not reuse timestamps.            *)
(***************************************************************************)
THEOREM WalFailedGroupLeavesNoFact ==
    ASSUME OneRollback
    PROVE  Spec => []FailedGroupLeavesNoFact
<1>1. CASE Durability = "strict"
  <2>1. UndoInv => FailedGroupLeavesNoFact
    BY DEF UndoInv
  <2> QED BY <1>1, <2>1, UndoInvariant, PTL
<1>2. CASE Durability # "strict"
  <2>1. FailedGroupLeavesNoFact
    BY <1>2 DEF FailedGroupLeavesNoFact
  <2> QED BY <2>1, PTL
<1> QED BY <1>1, <1>2

-----------------------------------------------------------------------------
(* Durable facts in the live map.                                          *)
Covered(f, r) == \A k \in r.keys : f[k] >= r.ts

(* While a strict group is in the writer's hands, the facts it was taken   *)
(* with, to which a failure returns, hold everything promised.             *)
PromisedLive ==
    phase = "open" /\ worker \notin {"unpublish", "rollback"} =>
        \A r \in promised : Covered(facts, r)
BeforeCovers ==
    Writing /\ Durability = "strict" => \A r \in promised : Covered(before, r)

(* A group about to be promised is live, and so is what was replayed.      *)
GroupLive ==
    /\ \A i \in 1..Len(group) :
         \/ Durability = "eventual"
         \/ worker \in {"append", "commit"}
         \/ worker = "publish" /\ i < idx
         => Covered(facts, group[i].rec)
    /\ Durability = "eventual" => \A i \in 1..Len(requests) : Covered(facts, requests[i].rec)
ReplayLive ==
    phase = "replay" => \A i \in 1..Len(file) : i < pos => Covered(facts, file[i])

LiveInv == PromisedLive /\ BeforeCovers /\ GroupLive /\ ReplayLive

LEMMA AcksInvariant == Spec => []AcksWriteNothing
<1>1. Init => AcksWriteNothing
  BY DEF Init, Idle, AcksWriteNothing
<1>2. TypeOK /\ Control /\ AcksWriteNothing /\ [Next]_vars => AcksWriteNothing'
  <2> SUFFICES ASSUME TypeOK, Control, AcksWriteNothing, [Next]_vars PROVE AcksWriteNothing'
    OBVIOUS
  <2> USE DEF phaseVars, liveVars, queueVars, workerVars, fileVars, boundVars, ghostVars
  <2>0. caller \in [Clients -> [pc : CallerStates, rec : Record]]
    BY DEF TypeOK
  <2>1. ASSUME NEW c \in Clients, CallerNext(c) PROVE AcksWriteNothing'
    <3>1. \A d \in Clients : d # c => caller'[d] = caller[d]
      BY <2>1, CallerFrame
    <3>2. caller'[c].pc = "ack" => caller'[c].rec.ts = 0 /\ caller'[c].rec.keys = {}
      <4>1. CASE CallBatch(c) \/ CallCascade(c)
        <5>1. PICK r : caller' = [caller EXCEPT ![c] = [pc |-> "admit", rec |-> r]]
          BY <4>1 DEF CallBatch, CallCascade, Call
        <5> QED BY <2>0, <5>1
      <4>2. CASE CallAck(c)
        <5>1. PICK id : caller' = [caller EXCEPT ![c] = [pc |-> "ack", rec |-> AckRecord(id)]]
          BY <4>2 DEF CallAck, Call
        <5>2. caller'[c].rec = AckRecord(id)
          BY <2>0, <5>1
        <5> QED BY <5>2 DEF AckRecord
      <4>3. CASE AdmitStrict(c)
        BY <2>0, <4>3 DEF AdmitStrict, Moved
      <4>4. CASE Returned(c)
        BY <2>0, <4>4 DEF Returned, Idle
      <4> QED BY <2>1, <4>1, <4>2, <4>3, <4>4 DEF CallerNext, AdmitEventual, AdmitOom,
                 AdmitRefused, Return, AckOk, AckFails
    <3> QED BY <3>1, <3>2 DEF AcksWriteNothing
  <2>2. CASE Commit \/ Abort
    <3>1. PICK S, pc : Signal(S, pc) /\ pc \in {"done", "error"}
      BY <2>2 DEF Commit, Abort
    <3>2. ASSUME NEW c \in Clients PROVE caller'[c] = caller[c] \/ caller'[c].pc = pc
      <4>1. caller[c] \in [pc : CallerStates, rec : Record]
        BY <2>0
      <4>2. caller'[c] = IF c \in S THEN [caller[c] EXCEPT !.pc = pc] ELSE caller[c]
        BY <3>1 DEF Signal
      <4> QED BY <4>1, <4>2
    <3> QED BY <3>1, <3>2 DEF AcksWriteNothing
  <2>3. CASE Reopen \/ Crash
    BY <2>3 DEF Reopen, Crash, Restart, Idle, AcksWriteNothing
  <2>4. CASE ReplayNext \/ Deinit \/ UNCHANGED vars
    <3>1. caller' = caller
      BY <2>4 DEF ReplayNext, ReplayRecord, ReplayDone, ReplayTorn, ReplayCorrupt, Recovered,
                  Deinit, vars
    <3> QED BY <3>1 DEF AcksWriteNothing
  <2>5. CASE WorkerNext /\ ~Commit /\ ~Abort
    <3>1. caller' = caller
      BY <2>5 DEF WorkerNext, Take, Publish, PublishOom, Unpublish, Rollback, RollbackLoop,
                  Relock, AppendRecord, AppendFails, SyncGroup, SyncFails, AppendTooLarge, WorkerExit
    <3> QED BY <3>1 DEF AcksWriteNothing
  <2> QED BY <2>1, <2>2, <2>3, <2>4, <2>5 DEF Next
<1> QED BY <1>1, <1>2, WalTypeOK, PTL DEF Spec

Raised(f, g) == \A k \in Keys : g[k] >= f[k]

LEMMA RaisedCovers ==
    ASSUME NEW f \in Facts, NEW g \in Facts, Raised(f, g), NEW r \in Record, Covered(f, r)
    PROVE  Covered(g, r)
<1>1. r.ts \in Nat /\ r.keys \in SUBSET Keys
  BY DEF Record
<1>2. ASSUME NEW k \in r.keys PROVE g[k] >= r.ts
  <2>1. f[k] \in Nat /\ g[k] \in Nat /\ g[k] >= f[k] /\ f[k] >= r.ts
    BY <1>1 DEF Facts, Raised, Covered
  <2> QED BY <1>1, <2>1
<1> QED BY <1>2 DEF Covered

LEMMA PutCovers ==
    ASSUME NEW f \in Facts, NEW r \in Record
    PROVE  Raised(f, Put(f, r.keys, r.ts)) /\ Covered(Put(f, r.keys, r.ts), r)
<1>1. r.ts \in Nat /\ r.keys \in SUBSET Keys
  BY DEF Record
<1> QED BY <1>1, PutRaises DEF Raised, Covered

(* A caller only raises facts, to those of the request it queues, and      *)
(* promises nothing but an acknowledgement.                                *)
LEMMA CallerLive ==
    ASSUME TypeOK, TypeOK', Control, AcksWriteNothing, LiveInv, NEW c \in Clients, CallerNext(c)
    PROVE  LiveInv'
<1> USE DEF phaseVars, liveVars, queueVars, workerVars, fileVars, boundVars, ghostVars
<1>0. /\ facts \in Facts /\ facts' \in Facts /\ caller[c].rec \in Record
      /\ promised \in SUBSET Record
    BY DEF TypeOK
<1>00. /\ \A i \in 1..Len(group) : group[i].rec \in Record
       /\ \A i \in 1..Len(requests) : requests[i].rec \in Record
  <2>1. /\ \A i \in 1..Len(group) : group[i] \in Request
        /\ \A i \in 1..Len(requests) : requests[i] \in Request
    BY ElementOfSeq DEF TypeOK
  <2> QED BY <2>1 DEF Request
<1>1. /\ phase = "open" /\ phase' = "open" /\ UNCHANGED <<group, idx, before>>
      /\ worker' = worker \/ (worker = "none" /\ worker' = "idle")
  BY CallerFrame
<1>2. \/ facts' = facts /\ (requests' = requests \/ Durability # "eventual")
      \/ AdmitEventual(c)
  <2>1. CASE AdmitOom(c)
    <3>1. PICK done, noted \in SUBSET caller[c].rec.keys :
             /\ done \subseteq noted
             /\ facts' = Restore(Put(facts, done, caller[c].rec.ts),
                                 UndoEntry(facts, noted, caller[c].rec.ts))
      BY <2>1 DEF AdmitOom, Interrupted
    <3>2. caller[c].rec.ts \in Nat
      BY <1>0 DEF Record
    <3>3. facts' = facts
      BY <1>0, <3>1, <3>2, RestoreUndoesPut
    <3> QED BY <2>1, <3>3 DEF AdmitOom
  <2> QED BY <2>1 DEF CallerNext, Call, CallBatch, CallCascade, CallAck, AdmitStrict,
                      AdmitRefused, Return, AckOk, AckFails
<1>3. Raised(facts, facts') /\ (AdmitEventual(c) => Covered(facts', caller[c].rec))
  <2>1. CASE AdmitEventual(c)
    BY <1>0, <2>1, PutCovers DEF AdmitEventual
  <2>2. CASE ~AdmitEventual(c)
    BY <1>0, <1>2, <2>2 DEF Raised, Facts
  <2> QED BY <2>1, <2>2
<1>4. \A r \in promised' : r \in promised \/ r.keys = {}
  <2>1. CASE AckOk(c)
    <3>1. promised' = promised \union {caller[c].rec} /\ caller[c].rec.keys = {}
      BY <2>1 DEF AckOk, AckReady, AcksWriteNothing
    <3> QED BY <3>1
  <2> QED BY <2>1 DEF CallerNext, Call, CallBatch, CallCascade, CallAck, AdmitStrict,
                      AdmitEventual, AdmitOom, AdmitRefused, Enqueue, Return, AckFails
<1>5. \A r \in Record : Covered(facts, r) => Covered(facts', r)
  BY <1>0, <1>3, RaisedCovers
<1>6. PromisedLive'
  <2>1. ASSUME NEW r \in promised', worker' \notin {"unpublish", "rollback"}
        PROVE  Covered(facts', r)
    <3>1. CASE r \in promised
      BY <1>0, <1>1, <1>5, <2>1, <3>1 DEF LiveInv, PromisedLive
    <3>2. CASE r.keys = {}
      BY <3>2 DEF Covered
    <3> QED BY <1>4, <3>1, <3>2
  <2> QED BY <2>1 DEF PromisedLive
<1>7. BeforeCovers'
  <2>1. Writing' => Writing
    BY <1>1 DEF Writing
  <2> QED BY <1>1, <1>4, <2>1 DEF LiveInv, BeforeCovers, Covered
<1>8. GroupLive'
  <2>1. \A i \in 1..Len(group) :
             \/ Durability = "eventual"
             \/ worker' \in {"append", "commit"}
             \/ worker' = "publish" /\ i < idx
             => Covered(facts', group[i].rec)
    BY <1>00, <1>1, <1>5 DEF LiveInv, GroupLive
  <2>2. ASSUME Durability = "eventual"
        PROVE  \A i \in 1..Len(requests') : Covered(facts', requests'[i].rec)
    <3>1. CASE requests' = requests
      BY <1>00, <1>5, <2>2, <3>1 DEF LiveInv, GroupLive
    <3>2. CASE AdmitEventual(c)
      <4>1. Enqueue(c)
        BY <3>2 DEF AdmitEventual
      <4>2. /\ Len(requests) \in Nat /\ Len(requests') = Len(requests) + 1
            /\ \A i \in 1..Len(requests) : requests'[i] = requests[i]
            /\ requests'[Len(requests) + 1].rec = caller[c].rec
        BY <4>1, Enqueued
      <4>3. \A i \in 1..Len(requests) : Covered(facts', requests[i].rec)
        BY <1>00, <1>5, <2>2 DEF LiveInv, GroupLive
      <4>4. ASSUME NEW i \in 1..Len(requests') PROVE Covered(facts', requests'[i].rec)
        <5>1. i \in 1..Len(requests) \/ i = Len(requests) + 1
          BY <4>2
        <5> QED BY <1>3, <3>2, <4>2, <4>3, <5>1
      <4> QED BY <4>4
    <3> QED BY <1>2, <2>2, <3>1, <3>2
  <2> QED BY <1>1, <2>1, <2>2 DEF GroupLive
<1>9. ReplayLive'
  BY <1>1 DEF ReplayLive
<1> QED BY <1>6, <1>7, <1>8, <1>9 DEF LiveInv

(* The writer raises facts while it publishes, returns to the facts the    *)
(* group was taken with when it rolls back, and promises what is live.     *)
LEMMA WorkerLive ==
    ASSUME TypeOK, TypeOK', Control, QueueInv, LiveInv, WorkerNext,
           Durability = "strict" => UndoInv /\ UndoInv'
    PROVE  LiveInv'
<1> USE DEF phaseVars, liveVars, queueVars, workerVars, fileVars, boundVars, ghostVars
<1>0. /\ facts \in Facts /\ facts' \in Facts /\ promised \in SUBSET Record
      /\ Len(group) \in Nat /\ Durability \in {"strict", "eventual"}
  BY LenProperties, WalAssumption DEF TypeOK
<1>00. \A i \in 1..Len(group) : group[i] \in Request /\ group[i].rec \in Record
  <2>1. \A i \in 1..Len(group) : group[i] \in Request
    BY ElementOfSeq DEF TypeOK
  <2> QED BY <2>1 DEF Request
<1>1. phase = "open" /\ phase' = "open"
  BY DEF WorkerNext, Take, Publish, PublishOom, Unpublish, Rollback, RollbackLoop, Relock,
         AppendRecord, AppendFails, SyncGroup, SyncFails, AppendTooLarge, Commit, Abort, WorkerExit, Control,
         ReplayQuiet
<1>2. ReplayLive'
  BY <1>1 DEF ReplayLive
<1>3. CASE Take
  <2>1. /\ worker = "idle" /\ UNCHANGED <<facts, promised>> /\ before' = facts
        /\ group' = requests /\ requests' = <<>> /\ idx' = 1
        /\ worker' = IF Durability = "strict" THEN "publish" ELSE "append"
    BY <1>3 DEF Take
  <2>2. Len(requests') = 0
    BY <2>1, EmptySeq
  <2>3. PromisedLive' /\ BeforeCovers'
    BY <1>1, <2>1 DEF LiveInv, PromisedLive, BeforeCovers
  <2>4. GroupLive'
    BY <1>0, <2>1, <2>2 DEF LiveInv, GroupLive
  <2> QED BY <1>2, <2>3, <2>4 DEF LiveInv
<1>4. CASE Publish
  <2> DEFINE r == group[idx].rec
  <2>1. /\ worker = "publish" /\ idx \in 1..Len(group) /\ UNCHANGED <<promised, before, group>>
        /\ facts' = Put(facts, r.keys, r.ts) /\ Durability = "strict"
        /\ \/ worker' = "publish" /\ idx' = idx + 1
           \/ worker' = "append" /\ idx = Len(group)
    BY <1>0, <1>4 DEF Publish, Control, IndexInv, EventualQuiet
  <2>2. r \in Record
    BY <1>00, <2>1
  <2> HIDE DEF r
  <2>3. Raised(facts, facts') /\ Covered(facts', r)
    BY <1>0, <2>1, <2>2, PutCovers
  <2>4. \A q \in Record : Covered(facts, q) => Covered(facts', q)
    BY <1>0, <2>3, RaisedCovers
  <2>5. PromisedLive'
    BY <1>0, <1>1, <2>1, <2>4 DEF LiveInv, PromisedLive
  <2>6. BeforeCovers'
    BY <2>1 DEF LiveInv, BeforeCovers, Writing
  <2>7. ASSUME NEW i \in 1..Len(group), i <= idx PROVE Covered(facts', group[i].rec)
    <3>1. CASE i = idx
      BY <2>3, <3>1 DEF r
    <3>2. CASE i < idx
      BY <1>00, <2>1, <2>4, <3>2 DEF LiveInv, GroupLive
    <3> QED BY <2>1, <2>7, <3>1, <3>2
  <2>8. GroupLive'
    BY <1>0, <2>1, <2>7 DEF GroupLive
  <2> QED BY <1>2, <2>5, <2>6, <2>8 DEF LiveInv
<1>5. CASE PublishOom
  <2>1. /\ worker = "publish" /\ worker' = "unpublish" /\ UNCHANGED <<promised, before>>
        /\ Durability = "strict"
    BY <1>0, <1>5 DEF PublishOom, Control, EventualQuiet
  <2> QED BY <1>2, <2>1 DEF LiveInv, PromisedLive, BeforeCovers, GroupLive, Writing
<1>6. CASE Unpublish \/ Rollback
  <2>1. PICK from \in {"unpublish", "rollback"}, to \in {"relock", "abort"} :
          /\ RollbackLoop(from, to)
          /\ from = "unpublish" <=> to = "relock"
    BY <1>6 DEF Unpublish, Rollback
  <2>2. /\ worker = from /\ UNCHANGED <<promised, before>> /\ Durability = "strict"
        /\ worker' \in {from, to} /\ idx \in Nat
    BY <1>0, <2>1 DEF RollbackLoop, Control, EventualQuiet, TypeOK
  <2>3. BeforeCovers' /\ GroupLive'
    BY <2>2 DEF LiveInv, BeforeCovers, GroupLive, Writing
  <2>4. CASE idx > 0
    <3>1. worker' = from
      BY <2>1, <2>2, <2>4 DEF RollbackLoop
    <3> QED BY <1>2, <2>3, <3>1 DEF LiveInv, PromisedLive
  <2>5. CASE idx = 0
    <3>1. worker' = to
      BY <2>1, <2>5 DEF RollbackLoop
    <3>2. facts' = before'
      <4>1. CASE from = "unpublish"
        <5>1. Undoable(undo, before, idx, facts)
          BY <2>2, <4>1 DEF UndoInv, Unpublishing
        <5> QED BY <2>1, <2>5, <5>1, RollbackUndoable
      <4>2. CASE from = "rollback"
        <5>1. worker' = "abort"
          BY <2>1, <3>1, <4>2
        <5> QED BY <2>2, <5>1 DEF UndoInv, FailedGroupLeavesNoFact
      <4> QED BY <4>1, <4>2
    <3>3. \A q \in promised : Covered(before, q)
      BY <2>2 DEF LiveInv, BeforeCovers, Writing
    <3>4. PromisedLive'
      BY <2>2, <3>2, <3>3 DEF PromisedLive
    <3> QED BY <1>2, <2>3, <3>4 DEF LiveInv
  <2> QED BY <2>2, <2>4, <2>5
<1>7. CASE Relock \/ AppendRecord \/ AppendFails \/ SyncGroup \/ SyncFails \/ AppendTooLarge
  <2>1. /\ UNCHANGED <<facts, promised, before, group, requests>>
        /\ Writing /\ worker \in {"relock", "append"}
        /\ worker' \in {"append", "commit"} => worker = "append"
        /\ worker' # "publish"
    BY <1>7 DEF Relock, AppendRecord, AppendFails, AttemptFails, SyncGroup, SyncFails, AppendTooLarge, Writing
  <2>2. PromisedLive' /\ BeforeCovers'
    BY <1>1, <2>1 DEF LiveInv, PromisedLive, BeforeCovers
  <2>3. GroupLive'
    BY <2>1 DEF LiveInv, GroupLive
  <2> QED BY <1>2, <2>2, <2>3 DEF LiveInv
<1>8. CASE Commit
  <2>1. /\ worker = "commit" /\ worker' = "idle" /\ UNCHANGED <<facts, requests>>
        /\ group' = <<>> /\ promised' = promised \union {group[i].rec : i \in 1..Len(group)}
    BY <1>8 DEF Commit
  <2>2. Len(group') = 0
    BY <2>1, EmptySeq
  <2>3. \A i \in 1..Len(group) : Covered(facts, group[i].rec)
    BY <2>1 DEF LiveInv, GroupLive
  <2>4. PromisedLive'
    BY <1>1, <2>1, <2>3 DEF LiveInv, PromisedLive
  <2>5. BeforeCovers' /\ GroupLive'
    BY <2>1, <2>2 DEF LiveInv, BeforeCovers, GroupLive, Writing
  <2> QED BY <1>2, <2>4, <2>5 DEF LiveInv
<1>9. CASE Abort \/ WorkerExit
  <2>1. /\ worker \in {"abort", "idle"} /\ worker' \in {"idle", "exited"}
        /\ UNCHANGED <<facts, promised>>
        /\ group' = <<>> /\ (requests' = requests \/ requests' = <<>>)
    BY <1>9 DEF Abort, WorkerExit, QueueInv, GroupIdle
  <2>2. Len(group') = 0
    BY <2>1, EmptySeq
  <2>3. requests' = requests \/ Len(requests') = 0
    BY <2>1, EmptySeq
  <2> QED BY <1>1, <1>2, <2>1, <2>2, <2>3 DEF LiveInv, PromisedLive, BeforeCovers, GroupLive,
                                              Writing
<1> QED BY <1>3, <1>4, <1>5, <1>6, <1>7, <1>8, <1>9 DEF WorkerNext

(* Recovery raises facts record by record, and what it promises when it is *)
(* done is in the records it has read.                                     *)
LEMMA OtherLive ==
    ASSUME TypeOK, TypeOK', Control, QueueInv, FileInv, FileInv', LiveInv,
           ReplayNext \/ Deinit \/ Reopen \/ Crash
    PROVE  LiveInv'
<1> USE DEF phaseVars, liveVars, queueVars, workerVars, fileVars, boundVars, ghostVars
<1>0. /\ facts \in Facts /\ facts' \in Facts /\ pos \in Nat \ {0} /\ Len(file) \in Nat
      /\ file \in Seq(Record)
  BY LenProperties DEF TypeOK
<1>1. ASSUME ReplayNext
      PROVE  /\ phase = "replay" /\ worker' = "none"
             /\ BeforeCovers' /\ GroupLive'
  <2>1. phase = "replay" /\ UNCHANGED <<group, requests, worker>>
    BY <1>1 DEF ReplayNext, ReplayRecord, ReplayDone, ReplayTorn, ReplayCorrupt, Recovered
  <2>2. worker = "none" /\ group = <<>> /\ requests = <<>>
    BY <2>1 DEF Control, ReplayQuiet, QueueInv, GroupIdle
  <2>3. Len(group') = 0 /\ Len(requests') = 0
    BY <2>1, <2>2, EmptySeq
  <2> QED BY <2>1, <2>2, <2>3 DEF BeforeCovers, GroupLive, Writing
<1>2. CASE ReplayRecord
  <2> DEFINE r == file[pos]
  <2>1. /\ phase' = "replay" /\ pos \in 1..Len(file) /\ pos' = pos + 1 /\ file' = file
        /\ facts' = Put(facts, r.keys, r.ts)
    BY <1>0, <1>1, <1>2 DEF ReplayRecord, ReplayNext
  <2>2. \A i \in 1..Len(file) : file[i] \in Record
    BY <1>0, ElementOfSeq
  <2>3. r \in Record
    BY <2>1, <2>2
  <2> HIDE DEF r
  <2>4. Raised(facts, facts') /\ Covered(facts', r)
    BY <1>0, <2>1, <2>3, PutCovers
  <2>5. \A q \in Record : Covered(facts, q) => Covered(facts', q)
    BY <1>0, <2>4, RaisedCovers
  <2>6. ASSUME NEW i \in 1..Len(file), i < pos + 1 PROVE Covered(facts', file[i])
    <3>1. CASE i = pos
      BY <2>4, <3>1 DEF r
    <3>2. CASE i < pos
      BY <1>1, <1>2, <2>2, <2>5, <3>2 DEF LiveInv, ReplayLive, ReplayNext
    <3> QED BY <1>0, <2>6, <3>1, <3>2
  <2>7. ReplayLive' /\ PromisedLive'
    BY <2>1, <2>6 DEF ReplayLive, PromisedLive
  <2> QED BY <1>1, <1>2, <2>7 DEF LiveInv, ReplayNext
<1>3. CASE ReplayDone \/ ReplayTorn
  <2>1. phase' = "open" /\ facts' = facts /\ worker' = "none" /\ phase = "replay"
    BY <1>1, <1>3 DEF ReplayDone, ReplayTorn, Recovered, ReplayNext
  <2>2. synced' \in Nat /\ \A i \in 1..synced' : i \in 1..Len(file) /\ i < pos /\ file'[i] = file[i]
    <3>0. synced' \in 0..Len(file')
      BY DEF TypeOK
    <3>1. CASE ReplayDone
      BY <1>0, <3>0, <3>1 DEF ReplayDone
    <3>2. CASE ReplayTorn
      <4>1. pos - 1 \in 0..Len(file) /\ file' = SubSeq(file, 1, pos - 1)
        BY <1>0, <3>2 DEF ReplayTorn
      <4>2. Len(file') = pos - 1 /\ \A i \in 1..(pos - 1) : file'[i] = file[i]
        BY <1>0, <4>1, PrefixProperties
      <4> QED BY <1>0, <3>0, <4>1, <4>2
    <3> QED BY <1>3, <3>1, <3>2
  <2>3. ASSUME NEW q \in promised' PROVE Covered(facts, q)
    <3>1. PICK i \in 1..synced' : file'[i] = q
      BY DEF FileInv, PromisesSynced
    <3>2. i \in 1..Len(file) /\ i < pos /\ file[i] = q
      BY <2>2, <3>1
    <3> QED BY <2>1, <3>2 DEF LiveInv, ReplayLive
  <2>4. PromisedLive' /\ ReplayLive'
    BY <2>1, <2>3 DEF PromisedLive, ReplayLive
  <2> QED BY <1>1, <1>3, <2>4 DEF LiveInv, ReplayNext
<1>4. CASE ReplayCorrupt
  <2>1. PromisedLive' /\ ReplayLive'
    BY <1>4 DEF ReplayCorrupt, PromisedLive, ReplayLive
  <2> QED BY <1>1, <1>4, <2>1 DEF LiveInv, ReplayNext
<1>5. CASE Deinit
  <2>1. /\ UNCHANGED <<phase, pos, facts, promised, before, group, requests, file, idx>>
        /\ worker' = worker \/ (worker = "none" /\ worker' = "exited")
    BY <1>5 DEF Deinit
  <2> QED BY <2>1 DEF LiveInv, PromisedLive, BeforeCovers, GroupLive, ReplayLive, Writing
<1>6. CASE Reopen \/ Crash
  <2>1. phase' = "replay" /\ pos' = 1 /\ worker' = "none" /\ group' = <<>> /\ requests' = <<>>
    BY <1>6 DEF Reopen, Crash, Restart
  <2>2. Len(group') = 0 /\ Len(requests') = 0
    BY <2>1, EmptySeq
  <2> QED BY <2>1, <2>2 DEF LiveInv, PromisedLive, BeforeCovers, GroupLive, ReplayLive, Writing
<1> QED BY <1>2, <1>3, <1>4, <1>5, <1>6 DEF ReplayNext

(***************************************************************************)
(* A fact reported durable stays in the live map, with its timestamp or a  *)
(* newer one, through every later group, rollback and recovery:            *)
(* "a successful sync can then never be followed by a live-state rollback" *)
(* (wal.zig:288-290).  In eventual mode without further conditions on      *)
(* allocations or timestamps; in strict mode as for failed groups.         *)
(***************************************************************************)
THEOREM WalDurableFactsStayLive ==
    ASSUME WholeWritesOrNoAcks, Durability = "eventual" \/ OneRollback
    PROVE  Spec => []DurableFactsStayLive
<1> DEFINE UI == Durability = "strict" => UndoInv
<1>1. Init => LiveInv
  <2>1. SUFFICES ASSUME Init PROVE LiveInv
    OBVIOUS
  <2>2. Len(group) = 0 /\ Len(requests) = 0
    BY <2>1, EmptySeq DEF Init
  <2> QED BY <2>1, <2>2 DEF Init, LiveInv, PromisedLive, BeforeCovers, GroupLive, ReplayLive
<1>2. /\ TypeOK /\ Control /\ QueueInv /\ FileInv /\ UI /\ AcksWriteNothing /\ LiveInv
      /\ [Next]_vars /\ TypeOK' /\ FileInv' /\ UI'
      => LiveInv'
  <2>1. SUFFICES ASSUME TypeOK, Control, QueueInv, FileInv, UI, AcksWriteNothing, LiveInv,
                        [Next]_vars, TypeOK', FileInv', UI'
                 PROVE  LiveInv'
    OBVIOUS
  <2>2. CASE UNCHANGED vars
    BY <2>1, <2>2 DEF vars, phaseVars, liveVars, queueVars, workerVars, fileVars, ghostVars,
                      LiveInv, PromisedLive, BeforeCovers, GroupLive, ReplayLive, Writing
  <2>3. ASSUME NEW c \in Clients, CallerNext(c) PROVE LiveInv'
    BY <2>1, <2>3, CallerLive
  <2>4. CASE WorkerNext
    BY <2>1, <2>4, WorkerLive
  <2>5. CASE ReplayNext \/ Deinit \/ Reopen \/ Crash
    BY <2>1, <2>5, OtherLive
  <2> QED BY <2>1, <2>2, <2>3, <2>4, <2>5 DEF Next
<1>3. LiveInv => DurableFactsStayLive
  BY DEF LiveInv, PromisedLive, DurableFactsStayLive, MutexFree, Covered
<1>4. Spec => []UI
  <2>1. CASE Durability = "strict"
    <3>1. OneRollback
      BY <2>1
    <3>2. UndoInv => UI
      OBVIOUS
    <3> QED BY <2>1, <3>1, <3>2, UndoInvariant, PTL
  <2>2. CASE Durability # "strict"
    <3>1. UI
      BY <2>2
    <3> QED BY <3>1, PTL
  <2> QED BY <2>1, <2>2
<1> HIDE DEF UI
<1> QED BY <1>1, <1>2, <1>3, <1>4, WalTypeOK, QueueInvariant, FileInvariant, AcksInvariant, PTL
        DEF Spec

-----------------------------------------------------------------------------
(* Replaying the journal, record by record.                                *)

ReplayState == [facts : Facts, pending : Seq(PendingDirty), next_id : Nat \ {0}]

LEMMA ApplyType ==
    ASSUME NEW s \in ReplayState, NEW r \in Record
    PROVE  Apply(s, r) \in ReplayState
<1>1. /\ s.facts \in Facts /\ s.pending \in Seq(PendingDirty) /\ s.next_id \in Nat \ {0}
      /\ r.ts \in Nat
  BY DEF ReplayState, Record
<1>2. Put(s.facts, r.keys, r.ts) \in Facts
  BY <1>1, PutType
<1>3. /\ AddPending(s.facts, s.pending, s.next_id, r) \in Seq(PendingDirty)
      /\ NextId(s.facts, s.next_id, r) \in Nat \ {0}
  BY <1>1, AddPendingProperties
<1>4. Acknowledge(AddPending(s.facts, s.pending, s.next_id, r), r) \in Seq(PendingDirty)
  BY <1>3, AcknowledgeProperties
<1> QED BY <1>2, <1>3, <1>4 DEF Apply, ReplayState

LEMMA BlankType == Blank \in ReplayState
  BY EmptyTypes DEF Blank, ReplayState

LEMMA ReplaySteps ==
    ASSUME NEW recs \in Seq(Record)
    PROVE  \E e \in [0..Len(recs) -> ReplayState] :
             /\ e[0] = Blank /\ e[Len(recs)] = Replay(recs)
             /\ \A i \in 1..Len(recs) : e[i] = Apply(e[i - 1], recs[i])
<1> DEFINE n == Len(recs)
           F == [x \in (1..n) \X ReplayState |-> Apply(x[2], recs[x[1]])]
           pick == [s \in SUBSET (1..n) |-> Max(s)]
           R(h) == h = [s \in SUBSET (DOMAIN recs) |->
                          IF s = {} THEN Blank
                          ELSE Apply(h[s \ {Max(s)}], recs[Max(s)])]
<1>1. Replay(recs) = (CHOOSE h : R(h))[DOMAIN recs]
  BY DEF Replay, FoldLeft, MapThenFoldSet
<1>2. n \in Nat /\ DOMAIN recs = 1..n
  BY LenProperties
<1>3. F \in [(1..n) \X ReplayState -> ReplayState]
  <2>1. ASSUME NEW x \in (1..n) \X ReplayState
        PROVE  Apply(x[2], recs[x[1]]) \in ReplayState
    <3>1. recs[x[1]] \in Record /\ x[2] \in ReplayState
      BY ElementOfSeq
    <3> QED BY <3>1, ApplyType
  <2> QED BY <2>1
<1>4. Picks(n, pick)
  <2> SUFFICES ASSUME NEW s \in SUBSET (1..n), s # {} PROVE Max(s) \in s
    BY DEF Picks
  <2> QED BY <1>2, MaxOfPart
<1> HIDE DEF n
<1>5. PICK g : FoldedBy(n, ReplayState, Blank, F, pick, g)
  <2> HIDE DEF F, pick
  <2> QED BY <1>2, <1>3, <1>4, BlankType, FoldExists
<1>6. R(g)
  <2>1. ASSUME NEW s \in SUBSET (1..n), s # {}
        PROVE  g[s] = Apply(g[s \ {Max(s)}], recs[Max(s)])
    <3>1. Max(s) \in s /\ pick[s] = Max(s)
      BY <1>4, <2>1 DEF Picks
    <3>2. <<Max(s), g[s \ {Max(s)}]>> \in (1..n) \X ReplayState
      BY <1>5, <3>1 DEF FoldedBy
    <3> QED BY <1>5, <2>1, <3>1, <3>2 DEF FoldedBy
  <2> QED BY <1>2, <1>5, <2>1 DEF FoldedBy
<1> DEFINE h == CHOOSE h : R(h)
<1>7. R(h)
  <2> HIDE DEF R
  <2> QED BY <1>6
<1> HIDE DEF h
<1>8. h[{}] = Blank /\ \A s \in SUBSET (1..n) :
        s # {} => h[s] = Apply(h[s \ {Max(s)}], recs[Max(s)])
  BY <1>2, <1>7
<1> DEFINE e == [i \in 0..n |-> h[1..i]]
<1>9. e[0] = Blank /\ e[n] = Replay(recs)
  BY <1>1, <1>2, <1>8 DEF h
<1>10. ASSUME NEW i \in 1..n PROVE e[i] = Apply(e[i - 1], recs[i])
  <2>1. e[i - 1] = h[1..(i - 1)] /\ e[i] = h[1..i]
    BY <1>2
  <2>2. Max(1..i) = i /\ (1..i) \ {i} = 1..(i - 1) /\ 1..i # {}
    BY <1>2, IntervalEnds
  <2>3. 1..i \in SUBSET (1..n)
    BY <1>2
  <2> QED BY <1>8, <2>1, <2>2, <2>3
<1>11. e \in [0..n -> ReplayState]
  <2> DEFINE P == {i \in 0..n : e[i] \in ReplayState}
  <2>1. 0 \in P
    BY <1>2, <1>9, BlankType
  <2>2. ASSUME NEW i \in 1..n, i - 1 \in P PROVE i \in P
    <3>1. recs[i] \in Record
      BY ElementOfSeq DEF n
    <3>2. e[i] \in ReplayState
      <4> HIDE DEF e
      <4>1. e[i - 1] \in ReplayState
        BY <2>2
      <4> QED BY <1>10, <3>1, <4>1, ApplyType
    <3> QED BY <3>2
  <2>3. \A i \in 0..n : i \in P
    <3> HIDE DEF P
    <3> QED BY <1>2, <2>1, <2>2, IntervalInduction
  <2> QED BY <2>3
<1> QED
  <2> HIDE DEF e
  <2> QED BY <1>9, <1>10, <1>11 DEF n

(* The state that replaying the first n records of s ends in.              *)
At(s, n) == Replay(Prefix(s, n))

(* It depends on these records alone ...                                   *)
LEMMA AtSame ==
    ASSUME NEW s \in Seq(Record), NEW t \in Seq(Record),
           NEW n \in 0..Len(s), n \in 0..Len(t), \A i \in 1..n : s[i] = t[i]
    PROVE  At(s, n) = At(t, n)
<1>1. SubSeq(s, 1, n) \in Seq(Record) /\ SubSeq(t, 1, n) \in Seq(Record)
  BY PrefixProperties
<1>2. Len(SubSeq(s, 1, n)) = n /\ Len(SubSeq(t, 1, n)) = n
  BY PrefixProperties
<1>3. \A i \in 1..n : SubSeq(s, 1, n)[i] = SubSeq(t, 1, n)[i]
  BY PrefixProperties
<1>4. SubSeq(s, 1, n) = SubSeq(t, 1, n)
  BY <1>1, <1>2, <1>3, SeqEqual
<1> QED BY <1>4 DEF At, Prefix

(* ... and every record takes it one step further.                         *)
LEMMA AtNext ==
    ASSUME NEW s \in Seq(Record), NEW n \in 1..Len(s)
    PROVE  At(s, n) = Apply(At(s, n - 1), s[n])
<1>m. PICK m : m = n - 1
  OBVIOUS
<1> DEFINE a == SubSeq(s, 1, n)
           b == SubSeq(s, 1, m)
<1>0. /\ Len(s) \in Nat /\ n \in 0..Len(s) /\ m \in 0..Len(s) /\ m \in Nat
      /\ n \in 1..Len(s)
  BY <1>m, LenProperties
<1>1. a \in Seq(Record) /\ Len(a) = n /\ \A i \in 1..n : a[i] = s[i]
  BY <1>0, PrefixProperties
<1>2. b \in Seq(Record) /\ Len(b) = m /\ \A i \in 1..m : b[i] = s[i]
  BY <1>0, PrefixProperties
<1>3. At(s, n) = Replay(a) /\ At(s, n - 1) = Replay(b)
  BY <1>m DEF At, Prefix
<1> HIDE DEF a, b
<1>4. PICK e \in [0..n -> ReplayState] :
        /\ e[0] = Blank /\ e[n] = Replay(a)
        /\ \A i \in 1..n : e[i] = Apply(e[i - 1], a[i])
  BY <1>1, ReplaySteps
<1>5. PICK d \in [0..m -> ReplayState] :
        /\ d[0] = Blank /\ d[m] = Replay(b)
        /\ \A i \in 1..m : d[i] = Apply(d[i - 1], b[i])
  BY <1>2, ReplaySteps
<1> DEFINE P == {i \in 0..m : d[i] = e[i]}
<1>6. 0 \in P
  BY <1>0, <1>4, <1>5
<1>7. ASSUME NEW i \in 1..m, i - 1 \in P PROVE i \in P
  <2>1. i \in 1..n /\ a[i] = b[i] /\ i \in 0..m /\ d[i - 1] = e[i - 1]
    BY <1>m, <1>0, <1>1, <1>2, <1>7
  <2>2. e[i] = Apply(e[i - 1], a[i]) /\ d[i] = Apply(d[i - 1], b[i])
    BY <1>4, <1>5, <2>1
  <2> QED BY <2>1, <2>2
<1>8. m \in P
  <2>1. \A i \in 0..m : i \in P
    <3> HIDE DEF P
    <3> QED BY <1>0, <1>6, <1>7, IntervalInduction
  <2> QED BY <1>0, <2>1
<1>9. e[n] = Apply(e[m], a[n]) /\ a[n] = s[n]
  BY <1>m, <1>0, <1>1, <1>4
<1> QED BY <1>3, <1>4, <1>5, <1>8, <1>9

LEMMA AtStart ==
    ASSUME NEW s \in Seq(Record)
    PROVE  At(s, 0) = Blank
<1>1. 0 \in 0..Len(s)
  BY LenProperties
<1>2. SubSeq(s, 1, 0) \in Seq(Record) /\ Len(SubSeq(s, 1, 0)) = 0
  BY <1>1, PrefixProperties
<1>3. PICK e \in [0..0 -> ReplayState] : e[0] = Blank /\ e[0] = Replay(SubSeq(s, 1, 0))
  BY <1>2, ReplaySteps
<1> QED BY <1>3 DEF At, Prefix

(* Recovery counts up, and hands out its ids in order.                     *)
AtSound(a) == a \in ReplayState /\ Increasing(a.pending) /\ Below(a.pending, a.next_id)

LEMMA ApplySound ==
    ASSUME NEW a, AtSound(a), NEW r \in Record
    PROVE  AtSound(Apply(a, r)) /\ Apply(a, r).next_id >= a.next_id
<1> DEFINE q == AddPending(a.facts, a.pending, a.next_id, r)
           n == NextId(a.facts, a.next_id, r)
<1>1. /\ a.facts \in Facts /\ a.pending \in Seq(PendingDirty) /\ a.next_id \in Nat \ {0}
      /\ Increasing(a.pending) /\ Below(a.pending, a.next_id)
  BY DEF AtSound, ReplayState
<1>2. q \in Seq(PendingDirty) /\ n \in Nat \ {0} /\ Increasing(q) /\ Below(q, n)
  BY <1>1, AddPendingProperties
<1>3. Increasing(Acknowledge(q, r)) /\ Below(Acknowledge(q, r), n)
  <2> HIDE DEF q, n
  <2> QED BY <1>2, AcknowledgeProperties
<1>4. Apply(a, r).pending = Acknowledge(q, r) /\ Apply(a, r).next_id = n
  BY DEF Apply
<1>5. Apply(a, r) \in ReplayState
  BY ApplyType DEF AtSound
<1>6. n >= a.next_id
  BY <1>1 DEF NextId
<1> QED
  <2> HIDE DEF q, n
  <2> QED BY <1>3, <1>4, <1>5, <1>6 DEF AtSound

LEMMA AtIsSound ==
    ASSUME NEW s \in Seq(Record)
    PROVE  \A n \in 0..Len(s) : AtSound(At(s, n))
<1> DEFINE P == {n \in 0..Len(s) : AtSound(At(s, n))}
<1>0. Len(s) \in Nat
  BY LenProperties
<1>1. AtSound(Blank)
  <2>1. Blank.pending = <<>> /\ Len(<<>>) = 0
    BY EmptyTypes DEF Blank
  <2> QED BY <2>1, BlankType DEF AtSound, Increasing, Below
<1>2. 0 \in P
  BY <1>0, <1>1, AtStart
<1>3. ASSUME NEW n \in 1..Len(s), n - 1 \in P PROVE n \in P
  <2>1. s[n] \in Record
    BY ElementOfSeq
  <2>2. AtSound(At(s, n - 1)) /\ At(s, n) = Apply(At(s, n - 1), s[n])
    BY <1>3, AtNext
  <2> QED BY <1>0, <2>1, <2>2, ApplySound
<1>4. \A n \in 0..Len(s) : n \in P
  <2> HIDE DEF P
  <2> QED BY <1>0, <1>2, <1>3, IntervalInduction
<1> QED BY <1>4

(* What one record adds to the replayed state.                             *)
AcksId(r, id) == r.kind \in {"cascade", "ack"} /\ r.ack = id
NewEntry(n, r) == [id |-> n, key |-> CHOOSE k \in r.keys : TRUE]

LEMMA AddedEntries ==
    ASSUME NEW f, NEW p \in Seq(PendingDirty), NEW n \in Nat \ {0}, NEW r \in Record
    PROVE  Entries(AddPending(f, p, n, r)) =
             Entries(p) \union (IF Accepted(f, r) THEN {NewEntry(n, r)} ELSE {})
<1>1. CASE ~Accepted(f, r)
  BY <1>1 DEF AddPending
<1>2. CASE Accepted(f, r)
  <2> DEFINE e == NewEntry(n, r)
             q == Append(p, e)
  <2>0. (CHOOSE k \in r.keys : TRUE) \in Keys
    <3>1. \E k \in r.keys : TRUE
      BY <1>2 DEF Accepted, Newer
    <3>2. (CHOOSE k \in r.keys : TRUE) \in r.keys
      BY <3>1
    <3> QED BY <3>2 DEF Record
  <2>1. AddPending(f, p, n, r) = q
    BY <1>2 DEF AddPending, NewEntry
  <2>2. e \in PendingDirty
    BY <2>0 DEF NewEntry, PendingDirty
  <2>3. /\ Len(q) = Len(p) + 1 /\ Len(p) \in Nat
        /\ \A i \in 1..Len(p) : q[i] = p[i]
        /\ q[Len(p) + 1] = e
    <3> HIDE DEF e
    <3> QED BY <2>2, AppendProperties, LenProperties
  <2>4. Entries(q) = Entries(p) \union {e}
    <3> HIDE DEF e, q
    <3> QED BY <2>3 DEF Entries
  <2> QED BY <1>2, <2>1, <2>4
<1> QED BY <1>1, <1>2

LEMMA EntryIds ==
    ASSUME NEW p \in Seq(PendingDirty), NEW n \in Nat, Below(p, n)
    PROVE  \A e \in Entries(p) : e.id \in Nat /\ e.id < n
  BY PendingIdType DEF Entries, Below

LEMMA ApplyEntries ==
    ASSUME NEW a, AtSound(a), NEW r \in Record, NEW e \in Entries(Apply(a, r).pending)
    PROVE  /\ e \in Entries(a.pending) \/ e.id = a.next_id
           /\ ~AcksId(r, e.id)
<1> DEFINE q == AddPending(a.facts, a.pending, a.next_id, r)
<1>1. /\ a.facts \in Facts /\ a.pending \in Seq(PendingDirty) /\ a.next_id \in Nat \ {0}
      /\ Increasing(a.pending) /\ Below(a.pending, a.next_id)
  BY DEF AtSound, ReplayState
<1>2. q \in Seq(PendingDirty) /\ Increasing(q)
  BY <1>1, AddPendingProperties
<1>3. Entries(q) = Entries(a.pending)
                     \union (IF Accepted(a.facts, r) THEN {NewEntry(a.next_id, r)} ELSE {})
  BY <1>1, AddedEntries
<1>4. Apply(a, r).pending = Acknowledge(q, r)
  BY DEF Apply
<1>5. e \in Entries(q) /\ ~(r.kind \in {"cascade", "ack"} /\ e.id = r.ack)
  <2> HIDE DEF q
  <2> QED BY <1>2, <1>4, AcknowledgeEntries
<1> QED BY <1>3, <1>5 DEF AcksId, NewEntry

(* The counter never goes back.                                            *)
LEMMA AtCounts ==
    ASSUME NEW s \in Seq(Record), NEW i \in 0..Len(s)
    PROVE  \A n \in i..Len(s) : At(s, n).next_id >= At(s, i).next_id
<1> DEFINE P == {n \in 0..Len(s) : n >= i => At(s, n).next_id >= At(s, i).next_id}
<1>0. Len(s) \in Nat /\ \A n \in 0..Len(s) : At(s, n).next_id \in Nat /\ AtSound(At(s, n))
  BY LenProperties, AtIsSound DEF AtSound, ReplayState
<1>1. 0 \in P
  BY <1>0
<1>2. ASSUME NEW n \in 1..Len(s), n - 1 \in P PROVE n \in P
  <2>1. s[n] \in Record /\ n - 1 \in 0..Len(s) /\ n \in 0..Len(s)
    BY <1>0, ElementOfSeq
  <2>2. At(s, n) = Apply(At(s, n - 1), s[n])
    BY AtNext
  <2>3. At(s, n).next_id >= At(s, n - 1).next_id
    BY <1>0, <2>1, <2>2, ApplySound
  <2>4. CASE n = i
    BY <1>0, <2>1, <2>4
  <2>5. CASE n # i
    BY <1>0, <1>2, <2>1, <2>3, <2>5
  <2> QED BY <2>4, <2>5
<1>3. \A n \in 0..Len(s) : n \in P
  <2> HIDE DEF P
  <2> QED BY <1>0, <1>1, <1>2, IntervalInduction
<1> QED BY <1>0, <1>3

(* What a record wrote is in the replayed facts, or something newer is.    *)
LEMMA AtCovers ==
    ASSUME NEW s \in Seq(Record), NEW i \in 1..Len(s)
    PROVE  \A n \in i..Len(s) : Covered(At(s, n).facts, s[i])
<1> DEFINE P == {n \in 0..Len(s) : n >= i => Covered(At(s, n).facts, s[i])}
<1>0. Len(s) \in Nat /\ \A n \in 0..Len(s) : At(s, n).facts \in Facts
  BY LenProperties, AtIsSound DEF AtSound, ReplayState
<1>1. 0 \in P
  BY <1>0
<1>2. ASSUME NEW n \in 1..Len(s), n - 1 \in P PROVE n \in P
  <2>1. s[n] \in Record /\ s[i] \in Record /\ n - 1 \in 0..Len(s) /\ n \in 0..Len(s)
    BY <1>0, ElementOfSeq
  <2>2. At(s, n).facts = Put(At(s, n - 1).facts, s[n].keys, s[n].ts)
    BY AtNext DEF Apply
  <2>3. Raised(At(s, n - 1).facts, At(s, n).facts) /\ Covered(At(s, n).facts, s[n])
    BY <1>0, <2>1, <2>2, PutCovers
  <2>4. CASE n = i
    BY <2>1, <2>3, <2>4
  <2>5. CASE n > i
    <3>1. Covered(At(s, n - 1).facts, s[i])
      BY <1>0, <1>2, <2>5
    <3> QED BY <1>0, <2>1, <2>3, <3>1, RaisedCovers
  <2> QED BY <1>0, <2>1, <2>4, <2>5
<1>3. \A n \in 0..Len(s) : n \in P
  <2> HIDE DEF P
  <2> QED BY <1>0, <1>1, <1>2, IntervalInduction
<1> QED BY <1>0, <1>3

(* An id that the counter has passed and no entry bears is gone for good.  *)
Gone(a, id) == id < a.next_id /\ \A e \in Entries(a.pending) : e.id # id

LEMMA GoneStays ==
    ASSUME NEW a, AtSound(a), NEW r \in Record, NEW id \in Nat, Gone(a, id)
    PROVE  Gone(Apply(a, r), id)
<1>1. Apply(a, r).next_id >= a.next_id /\ AtSound(Apply(a, r))
  BY ApplySound
<1>2. a.next_id \in Nat /\ Apply(a, r).next_id \in Nat
  BY <1>1 DEF AtSound, ReplayState
<1>3. ASSUME NEW e \in Entries(Apply(a, r).pending) PROVE e.id # id
  <2>1. e \in Entries(a.pending) \/ e.id = a.next_id
    BY <1>3, ApplyEntries
  <2> QED BY <1>2, <2>1 DEF Gone
<1> QED BY <1>1, <1>2, <1>3 DEF Gone

LEMMA AcknowledgedGone ==
    ASSUME NEW a, AtSound(a), NEW r \in Record, r.kind = "cascade", r.ack < a.next_id
    PROVE  Gone(Apply(a, r), r.ack)
<1>1. Apply(a, r).next_id >= a.next_id /\ AtSound(Apply(a, r))
  BY ApplySound
<1>2. a.next_id \in Nat /\ Apply(a, r).next_id \in Nat /\ r.ack \in Nat
  BY <1>1 DEF AtSound, ReplayState, Record
<1>3. ASSUME NEW e \in Entries(Apply(a, r).pending) PROVE e.id # r.ack
  <2>1. ~AcksId(r, e.id)
    BY <1>3, ApplyEntries
  <2> QED BY <2>1 DEF AcksId
<1> QED BY <1>1, <1>2, <1>3 DEF Gone

(* A cascade acknowledges an id drawn before it: it cannot mean work that  *)
(* is created after it.                                                    *)
AcksOlder(s) ==
    \A j \in 1..Len(s) : s[j].kind = "cascade" => s[j].ack < At(s, j - 1).next_id

LEMMA AtGone ==
    ASSUME NEW s \in Seq(Record), AcksOlder(s), NEW i \in 1..Len(s), s[i].kind = "cascade"
    PROVE  \A n \in i..Len(s) : Gone(At(s, n), s[i].ack)
<1> DEFINE P == {n \in 0..Len(s) : n >= i => Gone(At(s, n), s[i].ack)}
<1>0. Len(s) \in Nat /\ s[i] \in Record /\ s[i].ack \in Nat
  <2>1. Len(s) \in Nat /\ s[i] \in Record
    BY LenProperties, ElementOfSeq
  <2> QED BY <2>1 DEF Record
<1>1. 0 \in P
  BY <1>0
<1>2. ASSUME NEW n \in 1..Len(s), n - 1 \in P PROVE n \in P
  <2>1. s[n] \in Record /\ n - 1 \in 0..Len(s) /\ n \in 0..Len(s)
    BY <1>0, ElementOfSeq
  <2>2. At(s, n) = Apply(At(s, n - 1), s[n]) /\ AtSound(At(s, n - 1))
    BY <2>1, AtNext, AtIsSound
  <2>4. CASE n = i
    <3>1. s[n].ack < At(s, n - 1).next_id
      BY <2>4 DEF AcksOlder
    <3> QED BY <2>1, <2>2, <2>4, <3>1, AcknowledgedGone
  <2>5. CASE n > i
    <3>1. Gone(At(s, n - 1), s[i].ack)
      BY <1>0, <1>2, <2>5
    <3> QED BY <1>0, <2>1, <2>2, <3>1, GoneStays
  <2> QED BY <1>0, <2>1, <2>4, <2>5
<1>3. \A n \in 0..Len(s) : n \in P
  <2> HIDE DEF P
  <2> QED BY <1>0, <1>1, <1>2, IntervalInduction
<1> QED BY <1>0, <1>3

(* Live facts f, counter n and pending list p agree with the replay of the *)
(* first m records of s: the same facts, the same counter, the entries of  *)
(* the replay are live, and a live one it lacks has been acknowledged.     *)
Acked(s, m, id) == \E j \in 1..m : AcksId(s[j], id)
Agree(s, m, f, n, p) ==
    /\ At(s, m).facts = f
    /\ At(s, m).next_id = n
    /\ Entries(At(s, m).pending) \subseteq Entries(p)
    /\ \A e \in Entries(p) \ Entries(At(s, m).pending) : Acked(s, m, e.id)

(* t goes on from the first m records of s.                                *)
Extends(s, t, m) ==
    /\ s \in Seq(Record) /\ t \in Seq(Record)
    /\ m \in 0..Len(s) /\ m \in 0..Len(t)
    /\ \A i \in 1..m : s[i] = t[i]

LEMMA AgreeSame ==
    ASSUME NEW s, NEW t, NEW m, Extends(s, t, m), NEW f, NEW n, NEW p,
           Agree(s, m, f, n, p)
    PROVE  Agree(t, m, f, n, p)
<1>1. At(s, m) = At(t, m)
  BY AtSame DEF Extends
<1>2. \A id : Acked(s, m, id) => Acked(t, m, id)
  BY DEF Acked, Extends
<1> QED BY <1>1, <1>2 DEF Agree

(* One more record, applied on both sides.  Publication does not remove    *)
(* what the record acknowledges from the live list, admission does.        *)
LEMMA AgreeApply ==
    ASSUME NEW s, NEW t, NEW m, Extends(s, t, m), m + 1 <= Len(t),
           NEW f \in Facts, NEW n \in Nat \ {0}, NEW p \in Seq(PendingDirty),
           Increasing(p), Below(p, n), Agree(s, m, f, n, p)
    PROVE  LET r == t[m + 1]
               q == AddPending(f, p, n, r)
           IN  /\ Agree(t, m + 1, Put(f, r.keys, r.ts), NextId(f, n, r), q)
               /\ Agree(t, m + 1, Put(f, r.keys, r.ts), NextId(f, n, r), Acknowledge(q, r))
<1> DEFINE r == t[m + 1]
           q == AddPending(f, p, n, r)
           a == At(s, m)
           b == AddPending(a.facts, a.pending, a.next_id, r)
           New == IF Accepted(f, r) THEN {NewEntry(n, r)} ELSE {}
<1>0. /\ s \in Seq(Record) /\ t \in Seq(Record) /\ m \in Nat /\ m + 1 \in 1..Len(t)
      /\ m \in 0..Len(s) /\ r \in Record
  <2>1. m + 1 \in 1..Len(t) /\ t \in Seq(Record)
    BY LenProperties DEF Extends
  <2> QED BY <2>1, ElementOfSeq, LenProperties DEF Extends
<1>1. At(t, m + 1) = Apply(a, r)
  <2>1. At(t, m) = a
    BY AtSame DEF Extends
  <2>2. At(t, m + 1) = Apply(At(t, (m + 1) - 1), t[m + 1])
    BY <1>0, AtNext
  <2>3. (m + 1) - 1 = m
    BY <1>0
  <2> QED BY <2>1, <2>2, <2>3
<1>2. /\ a.facts = f /\ a.next_id = n /\ a.pending \in Seq(PendingDirty)
      /\ Increasing(a.pending) /\ Below(a.pending, n)
      /\ Entries(a.pending) \subseteq Entries(p)
      /\ \A e \in Entries(p) \ Entries(a.pending) : Acked(s, m, e.id)
  <2>1. AtSound(a)
    BY <1>0, AtIsSound
  <2> HIDE DEF a
  <2>2. a.facts = f /\ a.next_id = n
    BY DEF Agree, a
  <2>3. /\ Entries(a.pending) \subseteq Entries(p)
        /\ \A e \in Entries(p) \ Entries(a.pending) : Acked(s, m, e.id)
    BY DEF Agree, a
  <2> QED BY <2>1, <2>2, <2>3 DEF AtSound, ReplayState
<1> HIDE DEF r
<1>3. Entries(q) = Entries(p) \union New /\ Entries(b) = Entries(a.pending) \union New
  <2> HIDE DEF a
  <2> QED BY <1>0, <1>2, AddedEntries
<1>4. q \in Seq(PendingDirty) /\ b \in Seq(PendingDirty) /\ Increasing(q) /\ Increasing(b)
  <2> HIDE DEF a
  <2> QED BY <1>0, <1>2, AddPendingProperties
<1>5. /\ At(t, m + 1).facts = Put(f, r.keys, r.ts)
      /\ At(t, m + 1).next_id = NextId(f, n, r)
      /\ At(t, m + 1).pending = Acknowledge(b, r)
  BY <1>1, <1>2 DEF Apply
<1> HIDE DEF q, a, b, New
<1>6. /\ Entries(Acknowledge(b, r)) = {e \in Entries(b) : ~AcksId(r, e.id)}
      /\ Entries(Acknowledge(q, r)) = {e \in Entries(q) : ~AcksId(r, e.id)}
  BY <1>4, AcknowledgeEntries DEF AcksId
<1>7. ASSUME NEW id, Acked(s, m, id) \/ AcksId(r, id) PROVE Acked(t, m + 1, id)
  <2>1. CASE Acked(s, m, id)
    BY <1>0, <2>1 DEF Acked, Extends
  <2>2. CASE AcksId(r, id)
    <3>1. m + 1 \in 1..(m + 1)
      BY <1>0
    <3> QED BY <2>2, <3>1 DEF Acked, r
  <2> QED BY <1>7, <2>1, <2>2
<1>8. ASSUME NEW e \in Entries(q) \ Entries(Acknowledge(b, r)) PROVE Acked(t, m + 1, e.id)
  <2>1. e \in Entries(p) \ Entries(a.pending) \/ AcksId(r, e.id)
    BY <1>3, <1>6, <1>8
  <2> QED BY <1>2, <1>7, <2>1
<1>9. /\ Entries(Acknowledge(b, r)) \subseteq Entries(Acknowledge(q, r))
      /\ Entries(Acknowledge(q, r)) \subseteq Entries(q)
  BY <1>2, <1>3, <1>6
<1>10. /\ Agree(t, m + 1, Put(f, r.keys, r.ts), NextId(f, n, r), q)
       /\ Agree(t, m + 1, Put(f, r.keys, r.ts), NextId(f, n, r), Acknowledge(q, r))
  BY <1>5, <1>8, <1>9 DEF Agree
<1> QED BY <1>10 DEF r, q

(* Dropping an acknowledged entry that the replay does not have.           *)
LEMMA AgreeDrops ==
    ASSUME NEW s, NEW m, NEW f, NEW n, NEW p \in Seq(PendingDirty), Increasing(p),
           Agree(s, m, f, n, p), NEW r,
           \A e \in Entries(At(s, m).pending) : ~AcksId(r, e.id)
    PROVE  Agree(s, m, f, n, Acknowledge(p, r))
<1>1. Entries(Acknowledge(p, r)) = {e \in Entries(p) : ~AcksId(r, e.id)}
  BY AcknowledgeEntries DEF AcksId
<1> QED BY <1>1 DEF Agree

(* Prefixes and the records cascades carry.                                *)
LEMMA AcksOlderExtends ==
    ASSUME NEW s, NEW t, NEW m, Extends(s, t, m), AcksOlder(s),
           \A j \in (m + 1)..Len(t) : t[j].kind = "cascade" => t[j].ack < At(t, j - 1).next_id
    PROVE  AcksOlder(t)
<1> SUFFICES ASSUME NEW j \in 1..Len(t), t[j].kind = "cascade"
             PROVE  t[j].ack < At(t, j - 1).next_id
  BY DEF AcksOlder
<1>0. s \in Seq(Record) /\ t \in Seq(Record) /\ Len(s) \in Nat /\ Len(t) \in Nat /\ m \in Nat
  BY LenProperties DEF Extends
<1>1. CASE j <= m
  <2>1. s[j] = t[j] /\ j \in 1..Len(s)
    BY <1>0, <1>1 DEF Extends
  <2>2. j - 1 \in 0..Len(s) /\ j - 1 \in 0..Len(t) /\ \A i \in 1..(j - 1) : s[i] = t[i]
    BY <1>0, <1>1 DEF Extends
  <2>3. At(s, j - 1) = At(t, j - 1)
    BY <1>0, <2>2, AtSame
  <2> QED BY <2>1, <2>3 DEF AcksOlder
<1>2. CASE j > m
  BY <1>0, <1>2
<1> QED BY <1>0, <1>1, <1>2

-----------------------------------------------------------------------------
(* Callers and their requests.                                             *)

(* Records of kind "ack" come from ack alone and are never queued.         *)
KindsApart ==
    /\ \A c \in Clients : caller[c].pc = "ack" <=> caller[c].rec.kind = "ack"
    /\ \A i \in 1..Len(requests) : requests[i].rec.kind # "ack"
    /\ \A i \in 1..Len(group) : group[i].rec.kind # "ack"

(* A strict caller has one request under way, the one it waits for; an     *)
(* eventual caller waits for none.                                         *)
OneRequest ==
    /\ Durability = "strict" =>
         /\ \A i \in 1..Len(group) :
              /\ caller[group[i].client].pc = "wait"
              /\ caller[group[i].client].rec = group[i].rec
         /\ \A i \in 1..Len(requests) :
              /\ caller[requests[i].client].pc = "wait"
              /\ caller[requests[i].client].rec = requests[i].rec
         /\ \A i \in 1..Len(group), j \in 1..Len(requests) :
              group[i].client # requests[j].client
    /\ Durability = "eventual" => \A c \in Clients : caller[c].pc # "wait"

CallInv == KindsApart /\ OneRequest

LEMMA RequestTypes ==
    ASSUME TypeOK
    PROVE  /\ \A i \in 1..Len(requests) : requests[i].client \in Clients
           /\ \A i \in 1..Len(group) : group[i].client \in Clients
           /\ \A i \in 1..Len(requests) : requests[i].rec \in Record
           /\ \A i \in 1..Len(group) : group[i].rec \in Record
           /\ \A c \in Clients : caller[c].rec \in Record
<1>1. /\ \A i \in 1..Len(requests) : requests[i] \in Request
      /\ \A i \in 1..Len(group) : group[i] \in Request
  BY ElementOfSeq DEF TypeOK
<1> QED BY <1>1 DEF TypeOK, Request

LEMMA CallerCalls ==
    ASSUME TypeOK, Control, CallInv, NEW c \in Clients, CallerNext(c)
    PROVE  CallInv'
<1>0. /\ UNCHANGED group /\ \A d \in Clients : d # c => caller'[d] = caller[d]
      /\ Len(requests) \in Nat
  BY CallerFrame, LenProperties DEF TypeOK
<1>1. CASE /\ UNCHANGED requests /\ caller[c].pc # "wait"
           /\ \/ caller'[c] = Idle
              \/ caller'[c].pc = "admit" /\ caller'[c].rec.kind \in {"batch", "cascade"}
              \/ caller'[c].pc = "ack" /\ caller'[c].rec.kind = "ack"
  <2>1. caller'[c].pc # "wait" /\ (caller'[c].pc = "ack" <=> caller'[c].rec.kind = "ack")
    BY <1>1 DEF Idle, NoRecord
  <2>2. KindsApart'
    BY <1>0, <1>1, <2>1 DEF CallInv, KindsApart
  <2>3. OneRequest'
    BY <1>0, <1>1, <2>1, RequestTypes DEF CallInv, OneRequest
  <2> QED BY <2>2, <2>3 DEF CallInv
<1>2. CASE AdmitStrict(c) \/ AdmitEventual(c)
  <2>0. Enqueue(c) /\ caller[c].pc = "admit"
    BY <1>2 DEF AdmitStrict, AdmitEventual, Admissible
  <2>1. /\ Len(requests') = Len(requests) + 1
        /\ \A i \in 1..Len(requests) : requests'[i] = requests[i]
        /\ requests'[Len(requests) + 1].client = c
        /\ requests'[Len(requests) + 1].rec = caller[c].rec
    BY <2>0, Enqueued
  <2>2. \/ Durability = "strict" /\ caller'[c].pc = "wait" /\ caller'[c].rec = caller[c].rec
        \/ Durability = "eventual" /\ caller'[c] = Idle
    BY <1>2 DEF AdmitStrict, AdmitEventual, Moved, Returned, TypeOK
  <2>3. KindsApart'
    <3>1. caller[c].rec.kind # "ack" /\ caller'[c].pc # "ack" /\ caller'[c].rec.kind # "ack"
      BY <2>0, <2>2 DEF CallInv, KindsApart, Idle, NoRecord
    <3>2. \A d \in Clients : caller'[d].pc = "ack" <=> caller'[d].rec.kind = "ack"
      BY <1>0, <3>1 DEF CallInv, KindsApart
    <3>3. \A i \in 1..Len(requests') : requests'[i].rec.kind # "ack"
      BY <1>0, <2>1, <3>1 DEF CallInv, KindsApart
    <3> QED BY <1>0, <3>2, <3>3 DEF CallInv, KindsApart
  <2>4. CASE Durability = "eventual"
    BY <1>0, <2>2, <2>3, <2>4 DEF CallInv, OneRequest, Idle
  <2>5. CASE Durability = "strict"
    <3>1. caller'[c].pc = "wait" /\ caller'[c].rec = caller[c].rec
      BY <2>2, <2>5
    <3>2. ASSUME NEW i \in 1..Len(group)
          PROVE  /\ group[i].client \in Clients /\ group[i].client # c
                 /\ caller'[group[i].client] = caller[group[i].client]
      BY <1>0, <2>0, <2>5, <3>2, RequestTypes DEF CallInv, OneRequest
    <3>3. ASSUME NEW i \in 1..Len(requests)
          PROVE  /\ requests[i].client \in Clients /\ requests[i].client # c
                 /\ caller'[requests[i].client] = caller[requests[i].client]
      BY <1>0, <2>0, <2>5, <3>3, RequestTypes DEF CallInv, OneRequest
    <3>4. \A i \in 1..Len(group') :
            /\ caller'[group'[i].client].pc = "wait"
            /\ caller'[group'[i].client].rec = group'[i].rec
      BY <1>0, <2>5, <3>2 DEF CallInv, OneRequest
    <3>5. ASSUME NEW i \in 1..Len(requests')
          PROVE  /\ caller'[requests'[i].client].pc = "wait"
                 /\ caller'[requests'[i].client].rec = requests'[i].rec
                 /\ \A j \in 1..Len(group) : group[j].client # requests'[i].client
      <4>1. CASE i \in 1..Len(requests)
        BY <1>0, <2>1, <2>5, <3>2, <3>3, <4>1 DEF CallInv, OneRequest
      <4>2. CASE i = Len(requests) + 1
        BY <1>0, <2>1, <2>5, <3>1, <3>2, <4>2
      <4> QED BY <1>0, <2>1, <3>5, <4>1, <4>2
    <3> QED BY <1>0, <2>3, <2>5, <3>4, <3>5 DEF CallInv, OneRequest
  <2> QED BY <2>4, <2>5, WalAssumption
<1>3. CASE CallBatch(c) \/ CallCascade(c) \/ CallAck(c)
  <2>1. \E r : /\ \/ r.kind \in {"batch", "cascade"} /\ Call(c, "admit", r)
                  \/ r.kind = "ack" /\ Call(c, "ack", r)
    BY <1>3 DEF CallBatch, CallCascade, CallAck, BatchRecord, CascadeRecord, AckRecord
  <2>2. PICK r : /\ \/ r.kind \in {"batch", "cascade"} /\ Call(c, "admit", r)
                    \/ r.kind = "ack" /\ Call(c, "ack", r)
    BY <2>1
  <2>3. /\ UNCHANGED requests /\ caller[c].pc = "idle"
        /\ \/ caller'[c].pc = "admit" /\ caller'[c].rec.kind \in {"batch", "cascade"}
           \/ caller'[c].pc = "ack" /\ caller'[c].rec.kind = "ack"
    BY <2>2 DEF Call, queueVars, TypeOK
  <2> QED BY <1>1, <2>3
<1>5. CASE AdmitOom(c) \/ AdmitRefused(c) \/ Return(c) \/ AckOk(c) \/ AckFails(c)
  <2>1. UNCHANGED requests /\ caller[c].pc # "wait"
    BY <1>5 DEF AdmitOom, AdmitRefused, Return, AckReady, AckOk, AckFails, queueVars,
       Admissible
  <2>2. Returned(c)
    BY <1>5 DEF AdmitOom, AdmitRefused, Return, AckOk, AckFails
  <2>3. caller'[c] = Idle
    BY <2>2 DEF Returned, TypeOK
  <2> QED BY <1>1, <2>1, <2>3
<1> QED BY <1>2, <1>3, <1>5 DEF CallerNext

LEMMA SignalProperties ==
    ASSUME TypeOK, NEW S, NEW pc, Signal(S, pc), NEW c \in Clients
    PROVE  /\ caller'[c].rec = caller[c].rec
           /\ caller'[c].pc = IF c \in S THEN pc ELSE caller[c].pc
  BY DEF Signal, TypeOK

LEMMA WorkerCalls ==
    ASSUME TypeOK, Control, CallInv, WorkerNext
    PROVE  CallInv'
<1>1. CASE Take
  <2>1. group' = requests /\ requests' = <<>> /\ caller' = caller /\ Len(<<>>) = 0
    BY <1>1, EmptyTypes DEF Take
  <2> QED BY <2>1 DEF CallInv, KindsApart, OneRequest
<1>2. CASE Commit \/ Abort
  <2> DEFINE S == IF Abort THEN Waiting(group) \union Waiting(requests) ELSE Waiting(group)
             pc == IF Abort THEN "error" ELSE "done"
  <2>0. Signal(S, pc) /\ group' = <<>> /\ (requests' = requests \/ (Abort /\ requests' = <<>>))
    BY <1>2 DEF Commit, Abort, queueVars
  <2>1. ASSUME NEW c \in Clients
        PROVE  /\ caller'[c].rec = caller[c].rec
               /\ caller'[c].pc = IF c \in S THEN pc ELSE caller[c].pc
               /\ c \in S => caller[c].pc = "wait"
    <3>1. c \in S => caller[c].pc = "wait"
      BY DEF Waiting
    <3>2. caller'[c].rec = caller[c].rec /\ caller'[c].pc = IF c \in S THEN pc ELSE caller[c].pc
      <4> HIDE DEF S, pc
      <4> QED BY <2>0, SignalProperties
    <3> QED BY <3>1, <3>2
  <2>2. KindsApart'
    <3>1. \A c \in Clients : caller'[c].pc = "ack" <=> caller'[c].rec.kind = "ack"
      BY <2>1 DEF CallInv, KindsApart
    <3> QED BY <2>0, <3>1, EmptyTypes DEF CallInv, KindsApart
  <2>3. CASE Durability = "eventual"
    BY <2>1, <2>2, <2>3 DEF CallInv, OneRequest
  <2>4. CASE Durability = "strict" /\ requests' = <<>>
    BY <2>0, <2>2, <2>4, EmptyTypes DEF CallInv, OneRequest
  <2>5. CASE Durability = "strict" /\ requests' = requests /\ requests' # <<>>
    <3>1. ~Abort
      BY <2>5 DEF Abort
    <3>2. ASSUME NEW i \in 1..Len(requests)
          PROVE  /\ caller'[requests[i].client].pc = "wait"
                 /\ caller'[requests[i].client].rec = requests[i].rec
      <4>1. requests[i].client \in Clients /\ requests[i].client \notin S
        BY <2>5, <3>1, <3>2, RequestTypes DEF CallInv, OneRequest, Waiting
      <4> QED BY <2>1, <2>5, <3>2, <4>1 DEF CallInv, OneRequest
    <3> QED BY <2>0, <2>2, <2>5, <3>2, EmptyTypes DEF CallInv, OneRequest
  <2> QED BY <2>0, <2>3, <2>4, <2>5, WalAssumption
<1>3. CASE \/ Publish \/ PublishOom \/ Unpublish \/ Relock \/ Rollback \/ AppendRecord
           \/ AppendFails \/ SyncGroup \/ SyncFails \/ AppendTooLarge \/ WorkerExit
  <2>1. UNCHANGED <<requests, group, caller>>
    BY <1>3 DEF Publish, PublishOom, Unpublish, Rollback, RollbackLoop, Relock,
       AppendRecord, AppendFails, SyncGroup, SyncFails, AppendTooLarge, WorkerExit, queueVars
  <2> QED BY <2>1 DEF CallInv, KindsApart, OneRequest
<1> QED BY <1>1, <1>2, <1>3 DEF WorkerNext

LEMMA CallInvariant == Spec => []CallInv
<1>1. Init => CallInv
  <2> SUFFICES ASSUME Init PROVE CallInv
    OBVIOUS
  <2>1. /\ requests = <<>> /\ group = <<>> /\ Len(<<>>) = 0
        /\ \A c \in Clients : caller[c] = Idle
    BY EmptyTypes DEF Init
  <2> QED BY <2>1 DEF CallInv, KindsApart, OneRequest, Idle, NoRecord
<1>2. TypeOK /\ Control /\ CallInv /\ [Next]_vars => CallInv'
  <2> SUFFICES ASSUME TypeOK, Control, CallInv, [Next]_vars PROVE CallInv'
    OBVIOUS
  <2>1. CASE \E c \in Clients : CallerNext(c)
    BY <2>1, CallerCalls
  <2>2. CASE WorkerNext
    BY <2>2, WorkerCalls
  <2>3. CASE ReplayNext \/ Deinit \/ UNCHANGED vars
    <3>1. UNCHANGED <<requests, group, caller>>
      BY <2>3 DEF ReplayNext, ReplayRecord, ReplayDone, ReplayTorn, ReplayCorrupt,
         Recovered, Deinit, vars, queueVars, workerVars
    <3> QED BY <3>1 DEF CallInv, KindsApart, OneRequest
  <2>4. CASE Reopen \/ Crash
    <3>1. /\ requests' = <<>> /\ group' = <<>> /\ Len(<<>>) = 0
          /\ \A c \in Clients : caller'[c] = Idle
      BY <2>4, EmptyTypes DEF Reopen, Crash, Restart
    <3> QED BY <3>1 DEF CallInv, KindsApart, OneRequest, Idle, NoRecord
  <2> QED BY <2>1, <2>2, <2>3, <2>4 DEF Next
<1> QED BY <1>1, <1>2, WalTypeOK, PTL DEF Spec

-----------------------------------------------------------------------------
(* Live state and journal.                                                 *)

(* The writer has not failed and is not about to.                          *)
Running == phase = "open" /\ ~failed /\ ~Failing

(* How much of the history the live state has seen.                        *)
Pub == IF Durability = "eventual" THEN Len(history)
       ELSE IF worker = "publish" THEN Len(file) + idx - 1 ELSE Len(file) + Left

LEMMA RunningFacts ==
    ASSUME TypeOK, Control, FileInv, OrderInv, Running
    PROVE  /\ FileClean /\ Pub \in 0..Len(history) /\ Len(file) <= Len(history)
           /\ \A i \in 1..Len(file) : history[i] = file[i]
           /\ Len(history) = Len(file) + Left + Len(requests)
           /\ \A i \in From..Len(group) : history[Len(file) + 1 + i - From] = group[i].rec
<1>1. FileClean
  <2>1. ~Halted
    BY DEF Running, Failing, Halted
  <2> QED BY <2>1 DEF FileInv, TornLast, FileClean
<1>2. /\ Len(history) = Len(file) + Left + Len(requests)
      /\ \A i \in From..Len(group) : history[Len(file) + 1 + i - From] = group[i].rec
  BY <1>1 DEF Running, OrderInv, RestInOrder
<1>3. /\ Len(group) \in Nat /\ Len(requests) \in Nat /\ Len(file) \in Nat
      /\ Len(history) \in Nat /\ From \in 1..(Len(group) + 1)
  BY FromType
<1>4. ASSUME NEW n \in 1..Len(file) PROVE n <= Len(history) /\ history[n] = file[n]
  <2>1. CleanUpTo(n)
    BY <1>1, <1>3 DEF FileClean, CleanUpTo
  <2> QED BY <2>1 DEF Running, OrderInv, FileInOrder
<1>5. Left \in Nat /\ (worker = "publish" => idx \in 1..Len(group) /\ Left = Len(group))
  BY <1>3 DEF Left, From, Control, IndexInv
<1>6. Pub \in 0..Len(history)
  BY <1>2, <1>3, <1>5 DEF Pub
<1> QED BY <1>1, <1>2, <1>3, <1>4, <1>5, <1>6

LEMMA ExtendsAppend ==
    ASSUME NEW s \in Seq(Record), NEW r \in Record, NEW m \in 0..Len(s)
    PROVE  /\ Extends(s, s, m) /\ Extends(s, Append(s, r), m)
           /\ Len(Append(s, r)) = Len(s) + 1 /\ Append(s, r)[Len(s) + 1] = r
<1>1. /\ Append(s, r) \in Seq(Record) /\ Len(Append(s, r)) = Len(s) + 1
      /\ \A i \in 1..Len(s) : Append(s, r)[i] = s[i]
      /\ Append(s, r)[Len(s) + 1] = r
      /\ Len(s) \in Nat
  BY AppendProperties, LenProperties
<1> QED BY <1>1 DEF Extends

(* A step shows the live state no new record ...                           *)
SeesNothing ==
    /\ Pub' = Pub /\ Extends(history, history', Pub)
    /\ UNCHANGED <<facts, next_id>>

(* ... or the next one, of which it may leave the acknowledgement for      *)
(* later.                                                                  *)
SeesNext ==
    /\ Pub' = Pub + 1 /\ Extends(history, history', Pub) /\ Pub + 1 <= Len(history')
    /\ LET r == history'[Pub + 1]
           q == AddPending(facts, pending, next_id, r)
       IN  /\ facts' = Put(facts, r.keys, r.ts)
           /\ next_id' = NextId(facts, next_id, r)
           /\ pending' = q \/ pending' = Acknowledge(q, r)

(* An ack record changes nothing but the pending list.                     *)
LEMMA AckApplies ==
    ASSUME NEW f \in Facts, NEW p, NEW n, NEW r, r.kind = "ack", r.keys = {}
    PROVE  /\ Put(f, r.keys, r.ts) = f /\ NextId(f, n, r) = n /\ AddPending(f, p, n, r) = p
           /\ Acknowledge(p, r) = RemovePending(p, r.ack)
<1>1. ~Accepted(f, r)
  BY DEF Accepted
<1>2. Put(f, r.keys, r.ts) = f
  BY DEF Put, Newer, Facts
<1> QED BY <1>1, <1>2 DEF NextId, AddPending, Acknowledge

LEMMA CallerSees ==
    ASSUME WholeWritesOrNoAcks, TypeOK, TypeOK', Control, QueueInv, FileInv, OrderInv,
           CallInv, AcksWriteNothing, NEW c \in Clients, CallerNext(c), Running'
    PROVE  /\ Running
           /\ \/ SeesNext
              \/ SeesNothing /\ (pending' = pending \/ Return(c))
<1>0. /\ UNCHANGED <<phase, group, idx, failed>>
      /\ worker' = worker \/ (worker = "none" /\ worker' = "idle")
  BY CallerFrame
<1>1. Running
  BY <1>0 DEF Running, Failing
<1>2. From' = From /\ Left' = Left /\ (worker' = "publish" <=> worker = "publish")
  BY <1>0 DEF From, Left
<1>3. Pub \in 0..Len(history) /\ history \in Seq(Record) /\ caller[c].rec \in Record
  BY <1>1, RunningFacts, RequestTypes DEF TypeOK
<1>4. /\ Extends(history, history, Pub) /\ Extends(history, Append(history, caller[c].rec), Pub)
      /\ Len(Append(history, caller[c].rec)) = Len(history) + 1
      /\ Append(history, caller[c].rec)[Len(history) + 1] = caller[c].rec
  BY <1>3, ExtendsAppend
<1>5. CASE UNCHANGED <<file, history, facts, next_id>> /\ (pending' = pending \/ Return(c))
  <2>1. Pub' = Pub
    BY <1>0, <1>2, <1>5 DEF Pub
  <2> QED BY <1>1, <1>4, <1>5, <2>1 DEF SeesNothing
<1>6. CASE CallBatch(c) \/ CallCascade(c) \/ CallAck(c) \/ AdmitRefused(c) \/ Return(c)
  <2>1. UNCHANGED <<file, history, facts, next_id>> /\ (pending' = pending \/ Return(c))
    BY <1>6 DEF CallBatch, CallCascade, CallAck, Call, AdmitRefused, Return, liveVars, fileVars,
       ghostVars
  <2> QED BY <1>5, <2>1
<1>7. CASE AdmitOom(c)
  <2> DEFINE r == caller[c].rec
  <2>1. PICK done, noted \in SUBSET r.keys :
           /\ Interrupted(r.keys, done, noted)
           /\ facts' = Restore(Put(facts, done, r.ts), UndoEntry(facts, noted, r.ts))
    BY <1>7 DEF AdmitOom
  <2>2. done \in SUBSET noted /\ r.ts \in Nat /\ facts \in Facts
    BY <1>3, <2>1 DEF Interrupted, Record, TypeOK
  <2>3. facts' = facts
    <3> HIDE DEF r
    <3> QED BY <2>1, <2>2, RestoreUndoesPut
  <2>4. UNCHANGED <<file, history, next_id, pending>>
    BY <1>7 DEF AdmitOom, fileVars, ghostVars
  <2> QED BY <1>5, <2>3, <2>4
<1>8. CASE AdmitStrict(c)
  <2>1. /\ UNCHANGED <<file, facts, next_id, pending>> /\ Durability = "strict"
        /\ history' = Append(history, caller[c].rec)
    BY <1>8 DEF AdmitStrict, Enqueue, liveVars, fileVars
  <2>2. Pub' = Pub
    BY <1>0, <1>2, <2>1 DEF Pub
  <2> QED BY <1>1, <1>4, <2>1, <2>2 DEF SeesNothing
<1>9. CASE AdmitEventual(c)
  <2> DEFINE r == caller[c].rec
  <2>1. /\ history' = Append(history, r) /\ Durability = "eventual"
        /\ facts' = Put(facts, r.keys, r.ts)
        /\ next_id' = NextId(facts, next_id, r)
        /\ pending' = Acknowledge(AddPending(facts, pending, next_id, r), r)
    BY <1>9 DEF AdmitEventual, Enqueue
  <2> HIDE DEF r
  <2>2. /\ Pub = Len(history) /\ Pub' = Pub + 1 /\ Extends(history, history', Pub)
        /\ Pub + 1 <= Len(history') /\ history'[Pub + 1] = r
    BY <1>3, <1>4, <2>1 DEF Pub, r
  <2> QED BY <1>1, <2>1, <2>2 DEF SeesNext
<1>10. CASE AckOk(c) \/ AckFails(c)
  <2> DEFINE r == caller[c].rec
  <2>1. AckReady(c) /\ UNCHANGED worker
    BY <1>10 DEF AckOk, AckFails, workerVars
  <2>2. r.kind = "ack" /\ r.keys = {} /\ facts \in Facts
    BY <2>1 DEF AckReady, CallInv, KindsApart, AcksWriteNothing, TypeOK
  <2>3. CASE UNCHANGED <<file, history, facts, next_id, pending>>
    BY <1>5, <2>3
  <2>4. CASE /\ file' = Append(file, r) /\ history' = Append(history, r)
             /\ UNCHANGED <<facts, next_id>>
             /\ pending' = pending \/ pending' = RemovePending(pending, r.ack)
    <3>1. /\ requests = <<>> /\ Len(requests) = 0 /\ Len(group) = 0 /\ From = 1
          /\ worker # "publish"
      BY <2>1, EmptyTypes DEF AckReady, Writing, QueueInv, GroupIdle, From, TypeOK, WorkerStates
    <3>2. Left = 0 /\ Left' = 0 /\ Len(file) \in Nat
      BY <1>2, <3>1, LenProperties DEF Left, TypeOK
    <3>3. Len(history) = Len(file)
      BY <1>1, <3>1, <3>2, RunningFacts
    <3>4. Len(file') = Len(file) + 1
      BY <1>3, <2>4, AppendProperties DEF TypeOK
    <3>5. /\ Pub = Len(history) /\ Pub' = Pub + 1 /\ Extends(history, history', Pub)
          /\ Pub + 1 <= Len(history') /\ history'[Pub + 1] = r
      BY <1>2, <1>3, <1>4, <2>4, <3>1, <3>2, <3>3, <3>4 DEF Pub
    <3>6. /\ Put(facts, r.keys, r.ts) = facts /\ NextId(facts, next_id, r) = next_id
          /\ AddPending(facts, pending, next_id, r) = pending
          /\ Acknowledge(pending, r) = RemovePending(pending, r.ack)
      <4> HIDE DEF r
      <4> QED BY <2>2, AckApplies
    <3> HIDE DEF r
    <3> QED BY <1>1, <2>4, <3>5, <3>6 DEF SeesNext
  <2>5. CASE /\ \E debris \in WriteDebris : file' = file \o debris
             /\ UNCHANGED <<history, facts, next_id, pending>>
    <3>1. PICK debris \in WriteDebris : file' = file \o debris
      BY <2>5
    <3>2. debris = <<>>
      <4>1. "torn" \notin Faults
        BY <2>1 DEF AckReady, WholeWritesOrNoAcks, FileInv, NoAcker
      <4> QED BY <3>1, <4>1, DebrisType
    <3>3. file' = file
      BY <3>1, <3>2, ConcatEmptySeq DEF TypeOK
    <3> QED BY <2>3, <2>5, <3>3
  <2> QED BY <1>10, <2>3, <2>4, <2>5 DEF AckOk, AckFails, liveVars
<1> QED BY <1>6, <1>7, <1>8, <1>9, <1>10 DEF CallerNext

LEMMA WorkerSees ==
    ASSUME TypeOK, TypeOK', Control, QueueInv, FileInv, OrderInv, WorkerNext, Running'
    PROVE  Running /\ (SeesNext \/ (SeesNothing /\ pending' = pending))
<1>0. Take \/ Publish \/ AppendRecord \/ SyncGroup \/ Commit \/ WorkerExit
  <2>1. ~(PublishOom \/ Relock \/ AppendFails \/ SyncFails \/ AppendTooLarge \/ Unpublish \/ Rollback)
    BY DEF Running, Failing, PublishOom, Relock, AppendFails, SyncFails, AppendTooLarge, AttemptFails,
       Unpublish, Rollback, RollbackLoop
  <2>2. ~Abort
    BY DEF Abort, Running
  <2> QED BY <2>1, <2>2 DEF WorkerNext
<1>1. Running
  <2>1. UNCHANGED <<phase, failed>>
    BY <1>0 DEF Take, Publish, AppendRecord, SyncGroup, Commit, WorkerExit, phaseVars, queueVars
  <2>2. worker \in {"idle", "publish", "append", "commit"}
    BY <1>0 DEF Take, Publish, AppendRecord, SyncGroup, Commit, WorkerExit
  <2> QED BY <2>1, <2>2 DEF Running, Failing
<1>2. /\ Pub \in 0..Len(history) /\ Extends(history, history, Pub)
      /\ Len(history) = Len(file) + Left + Len(requests)
      /\ \A i \in From..Len(group) : history[Len(file) + 1 + i - From] = group[i].rec
  <2>1. Pub \in 0..Len(history) /\ history \in Seq(Record)
    BY <1>1, RunningFacts DEF TypeOK
  <2>2. Extends(history, history, Pub)
    BY <2>1 DEF Extends
  <2> QED BY <1>1, <2>1, <2>2, RunningFacts
<1>3. /\ Len(group) \in Nat /\ Len(file) \in Nat /\ Len(requests) \in Nat
      /\ Len(history) \in Nat /\ idx \in Nat
  BY FromType DEF TypeOK
<1>4. CASE Publish
  <2> DEFINE r == group[idx].rec
  <2>1. /\ worker = "publish" /\ idx \in 1..Len(group) /\ Durability # "eventual"
        /\ UNCHANGED <<file, history, group>>
        /\ facts' = Put(facts, r.keys, r.ts)
        /\ next_id' = NextId(facts, next_id, r)
        /\ pending' = AddPending(facts, pending, next_id, r)
        /\ \/ idx' = idx + 1 /\ worker' = "publish"
           \/ idx = Len(group) /\ idx' = 1 /\ worker' = "append"
    BY <1>3, <1>4 DEF Publish, Control, IndexInv, EventualQuiet, fileVars, ghostVars
  <2>2. From = 1 /\ Left = Len(group) /\ Pub = Len(file) + idx - 1
    BY <1>3, <2>1 DEF From, Left, Pub
  <2>3. history[Pub + 1] = r /\ Pub + 1 <= Len(history)
    <3>1. idx \in From..Len(group) /\ Len(file) + 1 + idx - From = Pub + 1
      BY <1>3, <2>1, <2>2
    <3>2. history[Len(file) + 1 + idx - From] = group[idx].rec
      BY <1>2, <3>1
    <3> QED BY <1>2, <1>3, <2>1, <2>2, <3>1, <3>2
  <2>4. Pub' = Pub + 1
    <3>1. CASE worker' = "publish"
      BY <1>3, <2>1, <2>2, <3>1 DEF Pub
    <3>2. CASE worker' = "append"
      <4>1. idx = Len(group) /\ From' = 1 /\ Left' = Len(group)
        BY <1>3, <2>1, <3>2 DEF From, Left
      <4> QED BY <1>3, <2>1, <2>2, <3>2, <4>1 DEF Pub
    <3> QED BY <2>1, <3>1, <3>2
  <2> HIDE DEF r
  <2> QED BY <1>1, <1>2, <2>1, <2>3, <2>4 DEF SeesNext
<1>5. CASE Take \/ AppendRecord \/ SyncGroup \/ Commit \/ WorkerExit
  <2>1. UNCHANGED <<facts, next_id, pending, history>>
    BY <1>5 DEF Take, AppendRecord, SyncGroup, Commit, WorkerExit, liveVars, ghostVars
  <2>2. Pub' = Pub
    <3>1. CASE Durability = "eventual"
      BY <2>1, <3>1 DEF Pub
    <3>2. CASE Durability = "strict" /\ Take
      <4>1. /\ worker' = "publish" /\ worker = "idle" /\ idx' = 1 /\ file' = file
            /\ group = <<>> /\ Len(group) = 0
        BY <3>2, EmptyTypes DEF Take, QueueInv, GroupIdle, fileVars
      <4>2. Left = 0
        BY <4>1 DEF Left, From
      <4> QED BY <1>3, <3>2, <4>1, <4>2 DEF Pub
    <3>3. CASE Durability = "strict" /\ AppendRecord
      <4>1. /\ worker = "append" /\ worker' = "append" /\ idx' = idx + 1 /\ group' = group
            /\ idx \in 1..Len(group) /\ file' = Append(file, group[idx].rec)
        BY <1>3, <3>3 DEF AppendRecord, Control, IndexInv
      <4>2. group[idx].rec \in Record
        BY <4>1, RequestTypes
      <4>3. Len(file') = Len(file) + 1
        BY <4>1, <4>2, AppendProperties DEF TypeOK
      <4>4. Left = Len(group) + 1 - idx /\ Left' = Len(group) + 1 - (idx + 1)
        BY <4>1 DEF Left, From
      <4> QED BY <1>3, <3>3, <4>1, <4>3, <4>4 DEF Pub
    <3>4. CASE Durability = "strict" /\ SyncGroup
      <4>1. /\ worker = "append" /\ worker' = "commit" /\ group' = group /\ file' = file
            /\ idx = Len(group) + 1
        BY <1>3, <3>4 DEF SyncGroup, Control, IndexInv
      <4>2. Left = 0 /\ Left' = 0
        BY <1>3, <4>1 DEF Left, From
      <4> QED BY <1>3, <3>4, <4>1, <4>2 DEF Pub
    <3>5. CASE Durability = "strict" /\ Commit
      <4>1. worker = "commit" /\ worker' = "idle" /\ group' = <<>> /\ file' = file /\ Len(<<>>) = 0
        BY <3>5, EmptyTypes DEF Commit, fileVars
      <4>2. Left = 0 /\ Left' = 0
        BY <1>3, <4>1 DEF Left, From
      <4> QED BY <1>3, <3>5, <4>1, <4>2 DEF Pub
    <3>6. CASE Durability = "strict" /\ WorkerExit
      <4>1. worker = "idle" /\ worker' = "exited" /\ group' = group /\ file' = file
        BY <3>6 DEF WorkerExit, fileVars
      <4>2. Left' = Left
        BY <4>1 DEF Left, From
      <4> QED BY <3>6, <4>1, <4>2 DEF Pub
    <3> QED BY <1>5, <3>1, <3>2, <3>3, <3>4, <3>5, <3>6, WalAssumption
  <2> QED BY <1>1, <1>2, <2>1, <2>2 DEF SeesNothing
<1> QED BY <1>0, <1>4, <1>5

(* Nobody else touches an open log that runs.                              *)
LEMMA OtherSees ==
    ASSUME TypeOK, TypeOK', Control, FileInv, OrderInv, phase = "open", Running',
           ReplayNext \/ Deinit \/ Reopen \/ Crash \/ UNCHANGED vars
    PROVE  Running /\ SeesNothing /\ pending' = pending
<1>1. Deinit \/ UNCHANGED vars
  BY DEF ReplayNext, ReplayRecord, ReplayDone, ReplayTorn, ReplayCorrupt, Reopen, Crash,
     Restart, Running
<1>2. /\ UNCHANGED <<phase, failed, facts, next_id, pending, file, history, group, idx>>
      /\ worker' = worker \/ (worker = "none" /\ worker' = "exited")
  BY <1>1 DEF Deinit, vars, phaseVars, liveVars, queueVars, workerVars, fileVars, ghostVars
<1>3. Running
  BY <1>2 DEF Running, Failing
<1>4. Pub' = Pub
  BY <1>2 DEF Pub, Left, From
<1>5. Pub \in 0..Len(history) /\ history \in Seq(Record)
  BY <1>3, RunningFacts DEF TypeOK
<1>6. Extends(history, history, Pub)
  BY <1>5 DEF Extends
<1> QED BY <1>2, <1>3, <1>4, <1>6 DEF SeesNothing

(* The live state agrees with the replay of what it has seen, and while    *)
(* the journal is replayed it is the replay of what has been read.         *)
Agrees == Running => Agree(history, Pub, facts, next_id, pending)
RecoveryAgrees ==
    phase = "replay" => /\ pos <= Len(file) + 1
                        /\ At(file, pos - 1).facts = facts
                        /\ At(file, pos - 1).next_id = next_id
                        /\ At(file, pos - 1).pending = pending

(* No cascade acknowledges work that is created after it, whether its      *)
(* record is about to be admitted, admitted or on file.                    *)
CallersAckOlder ==
    Running => \A c \in Clients : caller[c].pc = "admit" /\ caller[c].rec.kind = "cascade"
                                    => caller[c].rec.ack < next_id
HistoryAcksOlder == Running => AcksOlder(history)
FileAcksOlder == AcksOlder(file)

(* What a finished cascade acknowledged is gone from the replay for good.  *)
DoneGone ==
    Running => \A c \in Clients : caller[c].pc = "done" /\ caller[c].rec.kind = "cascade"
                                    => Gone(At(history, Pub), caller[c].rec.ack)

AgreeInv == /\ Agrees /\ RecoveryAgrees /\ CallersAckOlder /\ HistoryAcksOlder
            /\ FileAcksOlder /\ DoneGone

(* What the other invariants say, together.                                *)
BaseInv == /\ TypeOK /\ Control /\ QueueInv /\ FileInv /\ OrderInv /\ CallInv
          /\ AcksWriteNothing /\ PendingIdsIncrease /\ IdsBounded

LEMMA StepSees ==
    ASSUME WholeWritesOrNoAcks, BaseInv, TypeOK', [Next]_vars, phase = "open", Running'
    PROVE  /\ Running
           /\ \/ SeesNext
              \/ SeesNothing /\ (pending' = pending \/ \E c \in Clients : Return(c))
<1>1. CASE \E c \in Clients : CallerNext(c)
  BY <1>1, CallerSees DEF BaseInv
<1>2. CASE WorkerNext
  BY <1>2, WorkerSees DEF BaseInv
<1>3. CASE ReplayNext \/ Deinit \/ Reopen \/ Crash \/ UNCHANGED vars
  BY <1>3, OtherSees DEF BaseInv
<1> QED BY <1>1, <1>2, <1>3 DEF Next

LEMMA RunningIds ==
    ASSUME BaseInv, Running
    PROVE  /\ facts \in Facts /\ next_id \in Nat \ {0} /\ pending \in Seq(PendingDirty)
           /\ Increasing(pending) /\ Below(pending, next_id)
           /\ history \in Seq(Record) /\ Pub \in 0..Len(history)
           /\ AtSound(At(history, Pub))
<1>1. Pub \in 0..Len(history) /\ history \in Seq(Record)
  BY RunningFacts DEF BaseInv, TypeOK
<1>2. AtSound(At(history, Pub))
  BY <1>1, AtIsSound
<1>3. Below(pending, next_id)
  BY DEF BaseInv, IdsBounded, Running, Failing, GroupFailing
<1>4. Increasing(pending)
  BY DEF BaseInv, PendingIdsIncrease, Increasing
<1> QED BY <1>1, <1>2, <1>3, <1>4 DEF BaseInv, TypeOK

(* One step further in the history, on both sides.                         *)
LEMMA SeenNext ==
    ASSUME BaseInv, Running, SeesNext, Agrees
    PROVE  /\ Agree(history', Pub', facts', next_id', pending')
           /\ \A id \in Nat : Gone(At(history, Pub), id) => Gone(At(history', Pub'), id)
           /\ next_id' >= next_id /\ next_id' \in Nat /\ next_id \in Nat
<1> DEFINE m == Pub
           t == history'
           r == t[m + 1]
           q == AddPending(facts, pending, next_id, r)
<1>1. /\ facts \in Facts /\ next_id \in Nat \ {0} /\ pending \in Seq(PendingDirty)
      /\ Increasing(pending) /\ Below(pending, next_id)
      /\ history \in Seq(Record) /\ m \in 0..Len(history) /\ AtSound(At(history, m))
  BY RunningIds
<1>2. /\ Pub' = m + 1 /\ Extends(history, t, m) /\ m + 1 <= Len(t)
      /\ facts' = Put(facts, r.keys, r.ts) /\ next_id' = NextId(facts, next_id, r)
      /\ pending' = q \/ pending' = Acknowledge(q, r)
  BY DEF SeesNext
<1>3. Agree(history, m, facts, next_id, pending)
  BY DEF Agrees
<1> HIDE DEF m, t
<1>4. /\ Agree(t, m + 1, Put(facts, r.keys, r.ts), NextId(facts, next_id, r), q)
      /\ Agree(t, m + 1, Put(facts, r.keys, r.ts), NextId(facts, next_id, r),
               Acknowledge(q, r))
  BY <1>1, <1>2, <1>3, AgreeApply
<1>5. t \in Seq(Record) /\ m + 1 \in 1..Len(t) /\ r \in Record /\ (m + 1) - 1 = m
  <2>1. t \in Seq(Record) /\ m + 1 \in 1..Len(t) /\ (m + 1) - 1 = m
    BY <1>1, <1>2, LenProperties DEF Extends
  <2> QED BY <2>1, ElementOfSeq
<1>6. At(t, m + 1) = Apply(At(history, m), r)
  <2>1. At(t, m + 1) = Apply(At(t, (m + 1) - 1), r)
    BY <1>5, AtNext
  <2>2. At(history, m) = At(t, m)
    BY <1>2, AtSame DEF Extends
  <2> QED BY <1>5, <2>1, <2>2
<1>7. ASSUME NEW id \in Nat, Gone(At(history, m), id) PROVE Gone(At(t, m + 1), id)
  <2> HIDE DEF r
  <2> QED BY <1>1, <1>5, <1>6, <1>7, GoneStays
<1>8. next_id' >= next_id /\ next_id' \in Nat
  BY <1>1, <1>2 DEF NextId
<1>9. Agree(t, m + 1, facts', next_id', pending')
  <2> HIDE DEF r, q
  <2> QED BY <1>2, <1>4
<1> QED BY <1>1, <1>2, <1>7, <1>8, <1>9 DEF t, m

LEMMA SeenNothing ==
    ASSUME BaseInv, Running, SeesNothing, Agrees, DoneGone,
           pending' = pending \/ \E c \in Clients : Return(c)
    PROVE  /\ Agree(history', Pub', facts', next_id', pending')
           /\ \A id \in Nat : Gone(At(history, Pub), id) => Gone(At(history', Pub'), id)
           /\ next_id' >= next_id /\ next_id' \in Nat /\ next_id \in Nat
<1>1. /\ next_id \in Nat /\ pending \in Seq(PendingDirty) /\ Increasing(pending)
  BY RunningIds
<1>2. /\ Pub' = Pub /\ Extends(history, history', Pub) /\ facts' = facts /\ next_id' = next_id
  BY DEF SeesNothing
<1>3. Agree(history, Pub, facts, next_id, pending)
  BY DEF Agrees
<1>4. Agree(history, Pub, facts, next_id, pending')
  <2>1. CASE pending' = pending
    BY <1>3, <2>1
  <2>2. CASE \E c \in Clients : Return(c)
    <3>1. PICK c \in Clients : Return(c)
      BY <2>2
    <3>2. CASE caller[c].pc = "done" /\ caller[c].rec.kind = "cascade"
      <4>1. pending' = Acknowledge(pending, caller[c].rec)
        BY <3>1, <3>2 DEF Return
      <4>2. Gone(At(history, Pub), caller[c].rec.ack)
        BY <3>2 DEF DoneGone
      <4>3. \A e \in Entries(At(history, Pub).pending) : ~AcksId(caller[c].rec, e.id)
        BY <4>2 DEF Gone, AcksId
      <4> QED BY <1>1, <1>3, <4>1, <4>3, AgreeDrops
    <3>3. CASE ~(caller[c].pc = "done" /\ caller[c].rec.kind = "cascade")
      <4>1. caller[c].rec.kind # "ack"
        BY <3>1 DEF Return, BaseInv, CallInv, KindsApart
      <4>2. pending' = pending
        BY <3>1, <3>3, <4>1 DEF Return, Acknowledge
      <4> QED BY <1>3, <4>2
    <3> QED BY <3>2, <3>3
  <2> QED BY <2>1, <2>2
<1>5. Agree(history', Pub, facts, next_id, pending')
  BY <1>2, <1>4, AgreeSame
<1>6. At(history', Pub) = At(history, Pub)
  BY <1>2, AtSame DEF Extends
<1> QED BY <1>1, <1>2, <1>5, <1>6

(* When recovery is done the live state is the replay of the whole file.   *)
LEMMA RecoveredAgrees ==
    ASSUME BaseInv, TypeOK', phase # "open", [Next]_vars, Running', RecoveryAgrees, FileAcksOlder
    PROVE  /\ Agree(history', Pub', facts', next_id', pending')
           /\ AcksOlder(history')
           /\ \A c \in Clients : caller'[c].pc = "idle"
<1>1. ReplayDone \/ ReplayTorn
  <2>1. ~(\E c \in Clients : CallerNext(c))
    BY CallerFrame DEF BaseInv
  <2>2. ~WorkerNext
    BY DEF WorkerNext, Take, Publish, PublishOom, Unpublish, Rollback, RollbackLoop,
       Relock, AppendRecord, AppendFails, SyncGroup, SyncFails, AppendTooLarge, Commit, Abort,
       WorkerExit, BaseInv, Control, ReplayQuiet
  <2>3. ~(Deinit \/ Reopen \/ Crash \/ UNCHANGED vars \/ ReplayRecord \/ ReplayCorrupt)
    BY DEF Deinit, Reopen, Crash, Restart, vars, phaseVars, ReplayRecord, ReplayCorrupt, Running
  <2> QED BY <2>1, <2>2, <2>3 DEF Next, ReplayNext
<1>2. /\ phase = "replay" /\ worker = "none" /\ group = <<>> /\ Len(<<>>) = 0
      /\ \A c \in Clients : caller[c].pc = "idle"
  BY <1>1, EmptyTypes DEF ReplayDone, ReplayTorn, BaseInv, Control, ReplayQuiet, QueueInv,
     GroupIdle
<1>3. /\ history' = file' /\ UNCHANGED <<facts, pending, next_id, worker, group, caller, pos>>
  BY <1>1 DEF ReplayDone, ReplayTorn, Recovered, liveVars, workerVars
<1>4. /\ file \in Seq(Record) /\ Len(file) \in Nat /\ pos \in Nat \ {0} /\ pos - 1 \in 0..Len(file)
      /\ At(file, pos - 1).facts = facts /\ At(file, pos - 1).next_id = next_id
      /\ At(file, pos - 1).pending = pending
  <2>1. file \in Seq(Record) /\ Len(file) \in Nat /\ pos \in Nat \ {0}
    BY LenProperties DEF BaseInv, TypeOK
  <2> QED BY <1>2, <2>1 DEF RecoveryAgrees
<1>5. /\ Extends(file, file', pos - 1) /\ Len(file') = pos - 1
  <2>1. CASE ReplayDone
    BY <1>4, <2>1 DEF ReplayDone, Extends, fileVars
  <2>2. CASE ReplayTorn
    <3>1. file' = SubSeq(file, 1, pos - 1)
      BY <2>2 DEF ReplayTorn
    <3>2. file' \in Seq(Record) /\ Len(file') = pos - 1 /\ \A i \in 1..(pos - 1) : file'[i] = file[i]
      BY <1>4, <3>1, PrefixProperties
    <3> QED BY <1>4, <3>2 DEF Extends
  <2> QED BY <1>1, <2>1, <2>2
<1>6. Pub' = pos - 1
  <2>1. Left' = 0
    BY <1>2, <1>3 DEF Left, From
  <2> QED BY <1>2, <1>3, <1>4, <1>5, <2>1 DEF Pub
<1>7. Agree(file, pos - 1, facts, next_id, pending)
  BY <1>4 DEF Agree
<1>8. Agree(file', pos - 1, facts, next_id, pending)
  BY <1>5, <1>7, AgreeSame
<1>9. AcksOlder(file')
  <2>1. \A j \in ((pos - 1) + 1)..Len(file') :
          file'[j].kind = "cascade" => file'[j].ack < At(file', j - 1).next_id
    BY <1>4, <1>5
  <2> QED BY <1>5, <2>1, AcksOlderExtends DEF FileAcksOlder
<1> QED BY <1>2, <1>3, <1>6, <1>8, <1>9

(* A record appended to the history acknowledges something older than it.  *)
LEMMA HistoryStep ==
    ASSUME BaseInv, TypeOK', phase = "open", [Next]_vars, Running, Running',
           Agrees, CallersAckOlder, HistoryAcksOlder
    PROVE  AcksOlder(history')
<1>1. /\ history \in Seq(Record) /\ Pub \in 0..Len(history) /\ Len(history) \in Nat
      /\ next_id \in Nat /\ At(history, Pub).next_id = next_id
  BY RunningIds, LenProperties DEF Agrees, Agree
<1>2. CASE history' = history
  BY <1>2 DEF HistoryAcksOlder
<1>3. ASSUME NEW r \in Record, history' = Append(history, r),
             r.kind = "cascade" => r.ack < next_id
      PROVE  AcksOlder(history')
  <2> DEFINE m == Len(history)
  <2>1. /\ Extends(history, history', m) /\ Len(history') = m + 1 /\ history'[m + 1] = r
    BY <1>1, <1>3, ExtendsAppend
  <2>2. At(history', m) = At(history, m)
    BY <2>1, AtSame DEF Extends
  <2>3. At(history, m).next_id >= next_id /\ At(history, m).next_id \in Nat
    <3>1. m \in Pub..Len(history) /\ m \in 0..Len(history)
      BY <1>1
    <3>2. At(history, m).next_id >= At(history, Pub).next_id
      BY <1>1, <3>1, AtCounts
    <3>3. AtSound(At(history, m))
      BY <1>1, <3>1, AtIsSound
    <3> QED BY <1>1, <3>2, <3>3 DEF AtSound, ReplayState
  <2>4. ASSUME NEW j \in (m + 1)..Len(history'), history'[j].kind = "cascade"
        PROVE  history'[j].ack < At(history', j - 1).next_id
    <3>1. j = m + 1 /\ j - 1 = m /\ r.ack \in Nat
      BY <1>1, <2>1, <2>4 DEF Record
    <3> QED BY <1>1, <1>3, <2>1, <2>2, <2>3, <2>4, <3>1
  <2> HIDE DEF m
  <2> QED BY <2>1, <2>4, AcksOlderExtends DEF HistoryAcksOlder
<1>4. CASE \E c \in Clients : CallerNext(c)
  <2>1. PICK c \in Clients : CallerNext(c)
    BY <1>4
  <2>2. caller[c].rec \in Record
    BY RequestTypes DEF BaseInv
  <2>3. CASE AdmitStrict(c) \/ AdmitEventual(c)
    <3>1. history' = Append(history, caller[c].rec) /\ caller[c].pc = "admit"
      BY <2>3 DEF AdmitStrict, AdmitEventual, Admissible, Enqueue
    <3>2. caller[c].rec.kind = "cascade" => caller[c].rec.ack < next_id
      BY <3>1 DEF CallersAckOlder
    <3> QED BY <1>3, <2>2, <3>1, <3>2
  <2>4. CASE AckOk(c) \/ AckFails(c)
    <3>1. /\ caller[c].pc = "ack"
          /\ history' = history \/ history' = Append(history, caller[c].rec)
      BY <2>4 DEF AckOk, AckFails, AckReady
    <3>2. caller[c].rec.kind = "ack"
      BY <3>1 DEF BaseInv, CallInv, KindsApart
    <3> QED BY <1>2, <1>3, <2>2, <3>1, <3>2
  <2>5. CASE ~(AdmitStrict(c) \/ AdmitEventual(c) \/ AckOk(c) \/ AckFails(c))
    <3>1. history' = history
      BY <2>1, <2>5 DEF CallerNext, CallBatch, CallCascade, CallAck, Call, AdmitOom,
         AdmitRefused, Return, ghostVars
    <3> QED BY <1>2, <3>1
  <2> QED BY <2>3, <2>4, <2>5
<1>5. CASE WorkerNext
  <2>1. ~Abort
    BY DEF Abort, Running
  <2>2. history' = history
    BY <1>5, <2>1 DEF WorkerNext, Take, Publish, PublishOom, Unpublish, Rollback, RollbackLoop,
       Relock, AppendRecord, AppendFails, SyncGroup, SyncFails, AppendTooLarge, Commit, WorkerExit, ghostVars
  <2> QED BY <1>2, <2>2
<1>6. CASE ReplayNext \/ Deinit \/ Reopen \/ Crash \/ UNCHANGED vars
  <2>1. Deinit \/ UNCHANGED vars
    BY <1>6 DEF ReplayNext, ReplayRecord, ReplayDone, ReplayTorn, ReplayCorrupt, Reopen,
       Crash, Restart, Running
  <2>2. history' = history
    BY <2>1 DEF Deinit, vars, ghostVars
  <2> QED BY <1>2, <2>2
<1> QED BY <1>4, <1>5, <1>6 DEF Next

(* The file gains records of the history, acknowledgements and torn        *)
(* entries, and loses a tail.                                              *)
LEMMA FileStep ==
    ASSUME BaseInv, TypeOK', [Next]_vars, HistoryAcksOlder, FileAcksOlder
    PROVE  AcksOlder(file')
<1>0. file \in Seq(Record) /\ Len(file) \in Nat /\ file' \in Seq(Record)
  BY LenProperties DEF BaseInv, TypeOK
<1>1. CASE file' = file
  BY <1>1 DEF FileAcksOlder
<1>2. ASSUME NEW s \in Seq(Record), AcksOlder(s), NEW r \in Record, r.kind # "cascade",
             file' = Append(s, r)
      PROVE  AcksOlder(file')
  <2> DEFINE m == Len(s)
  <2>0. m \in Nat /\ m \in 0..Len(s)
    BY LenProperties
  <2>1. Extends(s, file', m) /\ Len(file') = m + 1 /\ file'[m + 1] = r
    BY <1>2, <2>0, ExtendsAppend
  <2>2. \A j \in (m + 1)..Len(file') :
          file'[j].kind = "cascade" => file'[j].ack < At(file', j - 1).next_id
    BY <1>2, <2>0, <2>1
  <2> HIDE DEF m
  <2> QED BY <1>2, <2>1, <2>2, AcksOlderExtends
<1>3. ASSUME NEW n \in 0..Len(file)
      PROVE  SubSeq(file, 1, n) \in Seq(Record) /\ AcksOlder(SubSeq(file, 1, n))
  <2> DEFINE t == SubSeq(file, 1, n)
  <2>1. t \in Seq(Record) /\ Len(t) = n /\ \A i \in 1..n : t[i] = file[i]
    BY <1>0, <1>3, PrefixProperties
  <2> HIDE DEF t
  <2>2. Extends(file, t, n)
    BY <1>0, <2>1 DEF Extends
  <2>3. \A j \in (n + 1)..Len(t) : t[j].kind = "cascade" => t[j].ack < At(t, j - 1).next_id
    BY <1>0, <2>1
  <2>4. AcksOlder(t)
    BY <2>2, <2>3, AcksOlderExtends DEF FileAcksOlder
  <2> QED BY <2>1, <2>4 DEF t
<1>4. ASSUME NEW debris \in WriteDebris, file' = file \o debris PROVE AcksOlder(file')
  <2>1. CASE debris = <<>>
    BY <1>0, <1>1, <1>4, <2>1, ConcatEmptySeq
  <2>2. CASE debris = <<Torn>>
    <3>1. file' = Append(file, Torn)
      BY <1>0, <1>4, <2>2, AppendIsConcat, RecordTypes
    <3>2. Torn.kind # "cascade" /\ Torn \in Record
      BY RecordTypes DEF Torn, NoRecord
    <3> QED BY <1>0, <1>2, <3>1, <3>2 DEF FileAcksOlder
  <2> QED BY <1>4, <2>1, <2>2, DebrisType
<1>5. CASE \E c \in Clients : CallerNext(c)
  <2>1. PICK c \in Clients : CallerNext(c)
    BY <1>5
  <2>2. CASE AckOk(c) \/ AckFails(c)
    <3>1. /\ caller[c].pc = "ack"
          /\ \/ \E debris \in WriteDebris : file' = file \o debris
             \/ file' = Append(file, caller[c].rec)
      BY <2>2 DEF AckOk, AckFails, AckReady
    <3>2. caller[c].rec.kind = "ack" /\ caller[c].rec \in Record
      BY <3>1, RequestTypes DEF BaseInv, CallInv, KindsApart
    <3>3. caller[c].rec.kind # "cascade"
      BY <3>2
    <3> QED BY <1>0, <1>2, <1>4, <3>1, <3>2, <3>3 DEF FileAcksOlder
  <2>3. CASE ~(AckOk(c) \/ AckFails(c))
    <3>1. file' = file
      BY <2>1, <2>3 DEF CallerNext, CallBatch, CallCascade, CallAck, Call, AdmitStrict,
         AdmitEventual, Enqueue, AdmitOom, AdmitRefused, Return, fileVars
    <3> QED BY <1>1, <3>1
  <2> QED BY <2>2, <2>3
<1>6. CASE AppendRecord
  <2>1. /\ worker = "append" /\ idx \in 1..Len(group) /\ file' = Append(file, group[idx].rec)
        /\ From = idx /\ Running
    <3>1. worker = "append" /\ file' = Append(file, group[idx].rec) /\ idx <= Len(group)
      BY <1>6 DEF AppendRecord
    <3>2. idx \in 1..Len(group)
      BY <3>1, LenProperties DEF BaseInv, Control, IndexInv, TypeOK
    <3>3. Running
      BY <3>1 DEF Running, Failing, BaseInv, Control, ReplayQuiet, FailedQuiet, TypeOK
    <3> QED BY <3>1, <3>2, <3>3 DEF From
  <2> DEFINE m == Len(file)
  <2>2. /\ Len(history) = m + Left + Len(requests) /\ m \in Nat /\ Len(requests) \in Nat
        /\ \A i \in 1..m : history[i] = file[i]
        /\ history[m + 1 + idx - From] = group[idx].rec
        /\ Len(group) \in Nat /\ m <= Len(history)
    <3>1. idx \in From..Len(group)
      BY <2>1
    <3> QED BY <2>1, <3>1, RunningFacts, FromType DEF BaseInv
  <2>3. history[m + 1] = group[idx].rec /\ m + 1 <= Len(history)
    BY <2>1, <2>2 DEF Left
  <2>4. /\ Len(file') = m + 1 /\ file'[m + 1] = group[idx].rec
        /\ \A i \in 1..m : file'[i] = file[i]
    <3>1. group[idx].rec \in Record
      BY <2>1, RequestTypes DEF BaseInv
    <3> QED BY <2>1, <3>1, FileAppended DEF BaseInv
  <2>5. Extends(history, file', m + 1)
    <3>1. history \in Seq(Record) /\ Len(history) \in Nat
      BY LenProperties DEF BaseInv, TypeOK
    <3> HIDE DEF m
    <3>2. \A i \in 1..(m + 1) : history[i] = file'[i]
      BY <2>2, <2>3, <2>4
    <3> QED BY <1>0, <2>2, <2>3, <2>4, <3>1, <3>2 DEF Extends
  <2>6. \A j \in ((m + 1) + 1)..Len(file') :
          file'[j].kind = "cascade" => file'[j].ack < At(file', j - 1).next_id
    BY <2>2, <2>4
  <2> HIDE DEF m
  <2> QED BY <2>1, <2>5, <2>6, AcksOlderExtends DEF HistoryAcksOlder
<1>7. CASE AppendFails
  BY <1>4, <1>7 DEF AppendFails
<1>8. CASE WorkerNext /\ ~AppendRecord /\ ~AppendFails
  <2>1. file' = file
    BY <1>8 DEF WorkerNext, Take, Publish, PublishOom, Unpublish, Rollback, RollbackLoop,
       Relock, SyncGroup, SyncFails, AppendTooLarge, Commit, Abort, WorkerExit, fileVars
  <2> QED BY <1>1, <2>1
<1>9. CASE ReplayTorn
  <2>0. pos \in Nat \ {0} /\ pos <= Len(file)
    BY <1>9 DEF ReplayTorn, BaseInv, TypeOK
  <2>1. file' = SubSeq(file, 1, pos - 1) /\ pos - 1 \in 0..Len(file)
    BY <1>0, <1>9, <2>0 DEF ReplayTorn
  <2> QED BY <1>3, <2>1
<1>10. CASE Crash
  <2>1. PICK n \in synced..Len(file) : \/ file' = SubSeq(file, 1, n)
                                       \/ file' = Append(SubSeq(file, 1, n), Torn)
    BY <1>10 DEF Crash
  <2>2. n \in 0..Len(file)
    BY <1>0, <2>1 DEF BaseInv, TypeOK
  <2>3. SubSeq(file, 1, n) \in Seq(Record) /\ AcksOlder(SubSeq(file, 1, n))
    BY <1>3, <2>2
  <2>4. Torn.kind # "cascade" /\ Torn \in Record
    BY RecordTypes DEF Torn, NoRecord
  <2> QED BY <1>2, <2>1, <2>3, <2>4
<1>11. CASE ReplayRecord \/ ReplayDone \/ ReplayCorrupt \/ Deinit \/ Reopen \/ UNCHANGED vars
  <2>1. file' = file
    BY <1>11 DEF ReplayRecord, ReplayDone, ReplayCorrupt, Deinit, Reopen, vars, fileVars
  <2> QED BY <1>1, <2>1
<1> QED BY <1>5, <1>6, <1>7, <1>8, <1>9, <1>10, <1>11 DEF Next, ReplayNext

(* A caller about to be admitted holds the record it called with.          *)
LEMMA AdmitStep ==
    ASSUME BaseInv, [Next]_vars, Running, NEW c \in Clients,
           caller'[c].pc = "admit", caller'[c].rec.kind = "cascade"
    PROVE  caller'[c] = caller[c] \/ caller'[c].rec.ack < next_id
<1>1. CASE \E d \in Clients : CallerNext(d)
  <2>1. PICK d \in Clients : CallerNext(d)
    BY <1>1
  <2>2. CASE d # c
    BY <2>1, <2>2, CallerFrame DEF BaseInv
  <2>3. CASE d = c
    <3>1. CallBatch(c) \/ CallCascade(c)
      <4>1. ~(CallAck(c) \/ AdmitStrict(c) \/ AdmitEventual(c) \/ AdmitOom(c)
              \/ AdmitRefused(c) \/ Return(c) \/ AckOk(c) \/ AckFails(c))
        BY DEF CallAck, Call, AdmitStrict, AdmitEventual, AdmitOom, AdmitRefused, Return,
           AckOk, AckFails, Moved, Returned, Idle, BaseInv, TypeOK
      <4> QED BY <2>1, <2>3, <4>1 DEF CallerNext
    <3>2. CASE CallBatch(c)
      <4>1. PICK k, t, z : Call(c, "admit", BatchRecord(k, t, z))
        BY <3>2 DEF CallBatch
      <4>2. caller'[c].rec = BatchRecord(k, t, z)
        BY <4>1 DEF Call, BaseInv, TypeOK
      <4> QED BY <4>2 DEF BatchRecord
    <3>3. CASE CallCascade(c)
      <4>1. PICK S \in SUBSET Keys, t \in Timestamps, id \in PendingIds, z \in Sizes :
              Call(c, "admit", CascadeRecord(S, t, id, z))
        BY <3>3 DEF CallCascade
      <4>2. caller'[c].rec = CascadeRecord(S, t, id, z)
        BY <4>1 DEF Call, BaseInv, TypeOK
      <4>3. caller'[c].rec.ack = id
        BY <4>2 DEF CascadeRecord
      <4>4. Below(pending, next_id)
        BY RunningIds
      <4> QED BY <4>3, <4>4 DEF PendingIds, Below
    <3> QED BY <3>1, <3>2, <3>3
  <2> QED BY <2>2, <2>3
<1>2. CASE WorkerNext
  <2>1. CASE Commit \/ Abort
    <3>1. PICK S, pc : Signal(S, pc) /\ pc \in {"done", "error"}
      BY <2>1 DEF Commit, Abort
    <3>2. c \notin S
      BY <3>1, SignalProperties DEF BaseInv
    <3> QED BY <3>1, <3>2 DEF Signal
  <2>2. CASE ~Commit /\ ~Abort
    BY <1>2, <2>2 DEF WorkerNext, Take, Publish, PublishOom, Unpublish, Rollback, RollbackLoop,
       Relock, AppendRecord, AppendFails, SyncGroup, SyncFails, AppendTooLarge, WorkerExit
  <2> QED BY <2>1, <2>2
<1>3. CASE ReplayNext \/ Deinit \/ UNCHANGED vars
  BY <1>3 DEF ReplayNext, ReplayRecord, ReplayDone, ReplayTorn, ReplayCorrupt, Recovered,
     Deinit, vars
<1>4. CASE Reopen \/ Crash
  BY <1>4 DEF Reopen, Crash, Restart, Idle
<1> QED BY <1>1, <1>2, <1>3, <1>4 DEF Next

(* A strict cascade is reported done when its record is on file, so its    *)
(* acknowledgement has been replayed.                                      *)
LEMMA DoneStep ==
    ASSUME BaseInv, [Next]_vars, Running, HistoryAcksOlder, NEW c \in Clients,
           caller'[c].pc = "done", caller'[c].rec.kind = "cascade"
    PROVE  \/ caller'[c] = caller[c]
           \/ /\ caller'[c].rec = caller[c].rec
              /\ Gone(At(history, Pub), caller[c].rec.ack)
<1>1. CASE \E d \in Clients : CallerNext(d)
  <2>1. PICK d \in Clients : CallerNext(d)
    BY <1>1
  <2>2. CASE d # c
    BY <2>1, <2>2, CallerFrame DEF BaseInv
  <2>3. CASE d = c
    BY <2>1, <2>3 DEF CallerNext, CallBatch, CallCascade, CallAck, Call, AdmitStrict,
       AdmitEventual, AdmitOom, AdmitRefused, Return, AckOk, AckFails, Moved, Returned, Idle,
       BaseInv, TypeOK
  <2> QED BY <2>2, <2>3
<1>2. CASE Commit
  <2>1. Signal(Waiting(group), "done") /\ worker = "commit"
    BY <1>2 DEF Commit
  <2>2. CASE c \notin Waiting(group)
    BY <2>1, <2>2 DEF Signal
  <2>3. CASE c \in Waiting(group)
    <3>1. PICK i \in 1..Len(group) : group[i].client = c
      BY <2>3 DEF Waiting
    <3>2. Durability = "strict"
      BY <2>3, WalAssumption DEF Waiting, BaseInv, CallInv, OneRequest
    <3>3. caller[c].rec = group[i].rec /\ caller'[c].rec = caller[c].rec
      BY <2>1, <3>1, <3>2, SignalProperties DEF BaseInv, CallInv, OneRequest
    <3>4. PICK j \in 1..synced : file[j] = group[i].rec
      BY <2>1, <3>1 DEF BaseInv, FileInv, GroupWritten
    <3>5. /\ j \in 1..Len(file) /\ Len(file) \in Nat /\ history \in Seq(Record)
          /\ Len(history) \in Nat
      BY LenProperties DEF BaseInv, TypeOK
    <3>6. history[j] = file[j] /\ Len(file) <= Len(history)
      BY <3>5, RunningFacts DEF BaseInv
    <3>7. Pub = Len(file)
      <4>1. Len(group) \in Nat /\ Left = 0
        BY <2>1, FromType DEF Left, From, BaseInv
      <4> QED BY <2>1, <3>2, <3>5, <4>1 DEF Pub
    <3>8. history[j] = caller[c].rec /\ history[j].kind = "cascade"
      BY <3>3, <3>4, <3>6
    <3>9. j \in 1..Len(history) /\ Pub \in j..Len(history)
      BY <3>5, <3>6, <3>7
    <3>10. Gone(At(history, Pub), history[j].ack)
      BY <3>5, <3>8, <3>9, AtGone DEF HistoryAcksOlder
    <3> QED BY <3>3, <3>8, <3>10
  <2> QED BY <2>2, <2>3
<1>3. CASE Abort
  <2>1. PICK S : Signal(S, "error")
    BY <1>3 DEF Abort
  <2>2. c \notin S
    BY <2>1, SignalProperties DEF BaseInv
  <2> QED BY <2>1, <2>2 DEF Signal
<1>4. CASE WorkerNext /\ ~Commit /\ ~Abort
  BY <1>4 DEF WorkerNext, Take, Publish, PublishOom, Unpublish, Rollback, RollbackLoop,
     Relock, AppendRecord, AppendFails, SyncGroup, SyncFails, AppendTooLarge, WorkerExit
<1>5. CASE ReplayNext \/ Deinit \/ UNCHANGED vars
  BY <1>5 DEF ReplayNext, ReplayRecord, ReplayDone, ReplayTorn, ReplayCorrupt, Recovered,
     Deinit, vars
<1>6. CASE Reopen \/ Crash
  BY <1>6 DEF Reopen, Crash, Restart, Idle
<1> QED BY <1>1, <1>2, <1>3, <1>4, <1>5, <1>6 DEF Next

(* Recovery reads record by record.                                        *)
LEMMA RecoveryStep ==
    ASSUME BaseInv, TypeOK', [Next]_vars, RecoveryAgrees
    PROVE  RecoveryAgrees'
<1> SUFFICES ASSUME phase' = "replay"
             PROVE  /\ pos' <= Len(file') + 1
                    /\ At(file', pos' - 1).facts = facts'
                    /\ At(file', pos' - 1).next_id = next_id'
                    /\ At(file', pos' - 1).pending = pending'
  BY DEF RecoveryAgrees
<1>1. file' \in Seq(Record) /\ Len(file') \in Nat /\ file \in Seq(Record) /\ Len(file) \in Nat
  BY LenProperties DEF TypeOK, BaseInv
<1>2. CASE Reopen \/ Crash
  <2>1. pos' = 1 /\ facts' = EmptyFacts /\ pending' = <<>> /\ next_id' = 1
    BY <1>2 DEF Reopen, Crash, Restart
  <2>2. At(file', pos' - 1) = Blank
    BY <1>1, <2>1, AtStart
  <2> QED BY <1>1, <2>1, <2>2 DEF Blank
<1>3. CASE ReplayRecord
  <2> DEFINE r == file[pos]
  <2>1. /\ phase = "replay" /\ pos <= Len(file) /\ file' = file /\ pos' = pos + 1
        /\ facts' = Put(facts, r.keys, r.ts)
        /\ pending' = Acknowledge(AddPending(facts, pending, next_id, r), r)
        /\ next_id' = NextId(facts, next_id, r)
    BY <1>3 DEF ReplayRecord, fileVars
  <2>2. pos \in 1..Len(file) /\ pos' - 1 = pos
    BY <1>1, <2>1 DEF BaseInv, TypeOK
  <2>3. At(file, pos) = Apply(At(file, pos - 1), r)
    BY <1>1, <2>2, AtNext
  <2>4. /\ At(file, pos - 1).facts = facts /\ At(file, pos - 1).next_id = next_id
        /\ At(file, pos - 1).pending = pending
    BY <2>1 DEF RecoveryAgrees
  <2> HIDE DEF r
  <2>5. /\ At(file, pos).facts = facts' /\ At(file, pos).next_id = next_id'
        /\ At(file, pos).pending = pending'
    BY <2>1, <2>3, <2>4 DEF Apply
  <2> QED BY <1>1, <2>1, <2>2, <2>5
<1>4. CASE UNCHANGED vars
  BY <1>4 DEF RecoveryAgrees, vars, phaseVars, liveVars, fileVars
<1>5. ~(\E c \in Clients : CallerNext(c))
  BY CallerFrame DEF BaseInv
<1>6. ~WorkerNext
  <2>1. WorkerNext => phase' = phase /\ worker # "none"
    BY DEF WorkerNext, Take, Publish, PublishOom, Unpublish, Rollback, RollbackLoop,
       Relock, AppendRecord, AppendFails, SyncGroup, SyncFails, AppendTooLarge, Commit, Abort, WorkerExit,
       phaseVars
  <2> QED BY <2>1 DEF BaseInv, Control, ReplayQuiet
<1>7. ~(ReplayDone \/ ReplayTorn \/ ReplayCorrupt \/ Deinit)
  BY DEF ReplayDone, ReplayTorn, ReplayCorrupt, Recovered, Deinit, phaseVars
<1> QED BY <1>2, <1>3, <1>4, <1>5, <1>6, <1>7 DEF Next, ReplayNext

LEMMA AgreeStep ==
    ASSUME WholeWritesOrNoAcks, BaseInv, TypeOK', [Next]_vars, AgreeInv
    PROVE  AgreeInv'
<1>0. /\ Agrees /\ RecoveryAgrees /\ CallersAckOlder /\ HistoryAcksOlder
      /\ FileAcksOlder /\ DoneGone
  BY DEF AgreeInv
<1>1. RecoveryAgrees' /\ FileAcksOlder'
  <2>1. AcksOlder(file')
    BY <1>0, FileStep
  <2> QED BY <1>0, <2>1, RecoveryStep DEF FileAcksOlder
<1>2. CASE ~Running'
  BY <1>1, <1>2 DEF AgreeInv, Agrees, CallersAckOlder, HistoryAcksOlder, DoneGone
<1>3. CASE Running' /\ phase # "open"
  <2>1. /\ Agree(history', Pub', facts', next_id', pending') /\ AcksOlder(history')
        /\ \A c \in Clients : caller'[c].pc = "idle"
    BY <1>0, <1>3, RecoveredAgrees
  <2>2. Agrees'
    BY <2>1 DEF Agrees
  <2>3. CallersAckOlder' /\ DoneGone' /\ HistoryAcksOlder'
    BY <2>1 DEF CallersAckOlder, DoneGone, HistoryAcksOlder
  <2> QED BY <1>1, <2>2, <2>3 DEF AgreeInv
<1>4. CASE Running' /\ phase = "open"
  <2>1. /\ Running
        /\ \/ SeesNext
           \/ SeesNothing /\ (pending' = pending \/ \E c \in Clients : Return(c))
    BY <1>4, StepSees
  <2>2. /\ Agree(history', Pub', facts', next_id', pending')
        /\ \A id \in Nat : Gone(At(history, Pub), id) => Gone(At(history', Pub'), id)
        /\ next_id' >= next_id /\ next_id' \in Nat /\ next_id \in Nat
    <3>1. CASE SeesNext
      BY <1>0, <2>1, <3>1, SeenNext
    <3>2. CASE SeesNothing /\ (pending' = pending \/ \E c \in Clients : Return(c))
      BY <1>0, <2>1, <3>2, SeenNothing
    <3> QED BY <2>1, <3>1, <3>2
  <2>3. Agrees'
    BY <2>2 DEF Agrees
  <2>4. HistoryAcksOlder'
    <3>1. AcksOlder(history')
      BY <1>0, <1>4, <2>1, HistoryStep
    <3> QED BY <3>1 DEF HistoryAcksOlder
  <2>5. CallersAckOlder'
    <3> SUFFICES ASSUME NEW c \in Clients, caller'[c].pc = "admit",
                        caller'[c].rec.kind = "cascade"
                 PROVE  caller'[c].rec.ack < next_id'
      BY DEF CallersAckOlder
    <3>1. caller'[c] = caller[c] \/ caller'[c].rec.ack < next_id
      BY <2>1, AdmitStep
    <3>2. caller'[c].rec.ack < next_id
      BY <1>0, <2>1, <3>1 DEF CallersAckOlder
    <3>3. caller'[c].rec.ack \in Nat
      BY DEF TypeOK, Record
    <3> QED BY <2>2, <3>2, <3>3
  <2>6. DoneGone'
    <3> SUFFICES ASSUME NEW c \in Clients, caller'[c].pc = "done",
                        caller'[c].rec.kind = "cascade"
                 PROVE  Gone(At(history', Pub'), caller'[c].rec.ack)
      BY DEF DoneGone
    <3>1. Gone(At(history, Pub), caller'[c].rec.ack)
      <4>1. \/ caller'[c] = caller[c]
            \/ caller'[c].rec = caller[c].rec /\ Gone(At(history, Pub), caller[c].rec.ack)
        BY <1>0, <2>1, DoneStep
      <4> QED BY <1>0, <2>1, <4>1 DEF DoneGone
    <3>2. caller'[c].rec.ack \in Nat
      BY DEF TypeOK, Record
    <3> QED BY <2>2, <3>1, <3>2
  <2> QED BY <1>1, <2>3, <2>4, <2>5, <2>6 DEF AgreeInv
<1> QED BY <1>2, <1>3, <1>4

LEMMA BaseInvariant ==
    ASSUME WholeWritesOrNoAcks
    PROVE  Spec => []BaseInv
<1>1. TypeOK /\ Control /\ QueueInv /\ FileInv /\ OrderInv /\ CallInv
        /\ AcksWriteNothing /\ PendingIdsIncrease /\ IdsBounded => BaseInv
  BY DEF BaseInv
<1> QED BY <1>1, WalTypeOK, QueueInvariant, FileInvariant, OrderInvariant, CallInvariant,
           AcksInvariant, IdsInvariant, PTL

LEMMA AgreeInvariant ==
    ASSUME WholeWritesOrNoAcks
    PROVE  Spec => []AgreeInv
<1>1. Init => AgreeInv
  <2> SUFFICES ASSUME Init PROVE AgreeInv
    OBVIOUS
  <2>1. /\ phase = "open" /\ facts = EmptyFacts /\ pending = <<>> /\ next_id = 1
        /\ file = <<>> /\ history = <<>> /\ group = <<>> /\ worker = "none"
        /\ \A c \in Clients : caller[c].pc = "idle"
    BY DEF Init, Idle
  <2>2. Len(<<>>) = 0 /\ <<>> \in Seq(Record)
    BY EmptyTypes
  <2>3. Pub = 0
    <3>1. Left = 0
      BY <2>1, <2>2 DEF Left, From
    <3> QED BY <2>1, <2>2, <3>1 DEF Pub
  <2>4. At(history, 0) = Blank
    BY <2>1, <2>2, AtStart
  <2>5. Agree(history, 0, facts, next_id, pending)
    BY <2>1, <2>4 DEF Agree, Blank
  <2>6. AcksOlder(file) /\ AcksOlder(history)
    BY <2>1, <2>2 DEF AcksOlder
  <2> QED BY <2>1, <2>3, <2>5, <2>6 DEF AgreeInv, Agrees, RecoveryAgrees, CallersAckOlder,
             HistoryAcksOlder, FileAcksOlder, DoneGone
<1>2. BaseInv /\ TypeOK' /\ [Next]_vars /\ AgreeInv => AgreeInv'
  BY AgreeStep
<1>3. BaseInv => TypeOK
  BY DEF BaseInv
<1> QED BY <1>1, <1>2, <1>3, BaseInvariant, PTL DEF Spec

(***************************************************************************)
(* Every record the log reported durable survives every crash from which   *)
(* the journal opens, in every behaviour: whatever part of the file is     *)
(* left, recovery ends with its facts or newer ones, and the work that a   *)
(* durable cascade finished does not come back (wal.zig:142 "Appends one   *)
(* durable transaction").  The journal opens unless it holds a field above *)
(* MaxFieldSize (getBytes).  With calls of ack, which goes on writing      *)
(* after a failure, writes must be whole.                                  *)
(***************************************************************************)
THEOREM WalDurablePromises ==
    ASSUME WholeWritesOrNoAcks
    PROVE  Spec => []DurablePromises
<1>1. BaseInv /\ AgreeInv => DurablePromises
  <2> SUFFICES ASSUME BaseInv, AgreeInv PROVE DurablePromises
    OBVIOUS
  <2>0. /\ TypeOK /\ TornLast /\ CleanRecords /\ AcksOlder(file)
        /\ CorruptIsWide /\ \A r \in promised : \E i \in 1..synced : file[i] = r
    BY DEF BaseInv, FileInv, AgreeInv, FileAcksOlder, PromisesSynced
  <2>1. file \in Seq(Record) /\ Len(file) \in Nat /\ synced \in 0..Len(file)
    BY <2>0, LenProperties DEF TypeOK
  <2>2. ASSUME NEW R \in CrashStates, NEW r \in promised
        PROVE  /\ \A k \in r.keys : R.facts[k] >= r.ts
               /\ r.kind = "cascade" => \A i \in DOMAIN R.pending : R.pending[i].id # r.ack
    <3>1. PICK n \in synced..Len(file) : R = Replay(Image(n))
      BY DEF CrashStates
    <3>2. n \in 0..Len(file)
      BY <2>1
    <3>3. PICK m \in 0..Len(file) : /\ Image(n) = Prefix(file, m)
                                    /\ m = n \/ (m < n /\ file[m + 1].kind = "torn")
      BY <2>0, <3>2, ImageIs
    <3>4. R = At(file, m)
      BY <3>1, <3>3 DEF At
    <3>5. PICK i \in 1..synced : file[i] = r
      BY <2>0
    <3>6. i \in 1..Len(file) /\ file[i].kind # "torn"
      BY <2>0, <2>1, <3>5 DEF CleanRecords
    <3>7. m \in i..Len(file)
      <4>1. CASE m = n
        BY <2>1, <3>1, <3>6, <4>1
      <4>2. CASE m < n /\ file[m + 1].kind = "torn"
        <5>1. m + 1 \in 1..Len(file)
          BY <2>1, <3>2, <4>2
        <5>2. m + 1 = Len(file) /\ i # m + 1
          BY <2>0, <3>6, <4>2, <5>1 DEF TornLast
        <5> QED BY <2>1, <3>6, <5>2
      <4> QED BY <3>3, <4>1, <4>2
    <3>8. Covered(At(file, m).facts, file[i])
      BY <2>1, <3>6, <3>7, AtCovers
    <3>9. ASSUME r.kind = "cascade", NEW j \in DOMAIN R.pending PROVE R.pending[j].id # r.ack
      <4>1. Gone(At(file, m), file[i].ack)
        BY <2>0, <2>1, <3>5, <3>6, <3>7, <3>9, AtGone
      <4>2. AtSound(At(file, m))
        BY <2>1, AtIsSound
      <4>3. R.pending \in Seq(PendingDirty)
        BY <3>4, <4>2 DEF AtSound, ReplayState
      <4>4. R.pending[j] \in Entries(R.pending)
        BY <3>9, <4>3, LenProperties DEF Entries
      <4> QED BY <3>4, <3>5, <4>1, <4>4 DEF Gone
    <3> QED BY <3>4, <3>5, <3>8, <3>9 DEF Covered
  <2> QED BY <2>0, <2>2 DEF DurablePromises
<1> QED BY <1>1, BaseInvariant, AgreeInvariant, PTL

(* In a steady state the journal to come is what the live state has seen.  *)
LEMMA RecordsIs ==
    ASSUME NEW q \in Seq(Request)
    PROVE  /\ Records(q) \in Seq(Record) /\ Len(Records(q)) = Len(q)
           /\ \A i \in 1..Len(q) : Records(q)[i] = q[i].rec
<1>1. Len(q) \in Nat /\ \A i \in 1..Len(q) : q[i].rec \in Record
  <2>1. Len(q) \in Nat /\ \A i \in 1..Len(q) : q[i] \in Request
    BY LenProperties, ElementOfSeq
  <2> QED BY <2>1 DEF Request
<1> QED BY <1>1, IsASeq, LenProperties DEF Records

LEMMA JournalIs ==
    ASSUME BaseInv, Steady
    PROVE  /\ Running /\ Pub \in 0..Len(history) /\ history \in Seq(Record)
           /\ Journal = Prefix(history, Pub)
<1>0. /\ TypeOK /\ Control /\ QueueInv /\ FileInv /\ OrderInv
      /\ worker \in {"none", "idle", "append", "commit", "exited"}
  BY DEF BaseInv, Steady
<1>1. Running
  BY DEF Steady, Running, Failing
<1>2. /\ FileClean /\ Pub \in 0..Len(history) /\ Len(file) <= Len(history)
      /\ \A i \in 1..Len(file) : history[i] = file[i]
      /\ Len(history) = Len(file) + Left + Len(requests)
      /\ \A i \in From..Len(group) : history[Len(file) + 1 + i - From] = group[i].rec
  BY <1>0, <1>1, RunningFacts
<1>3. \A i \in 1..Len(requests) : history[Len(file) + Left + i] = requests[i].rec
  BY <1>0, <1>1, <1>2 DEF Running, OrderInv, RestInOrder
<1>4. /\ Len(group) \in Nat /\ Len(requests) \in Nat /\ Len(file) \in Nat
      /\ Len(history) \in Nat /\ From \in 1..(Len(group) + 1)
      /\ file \in Seq(Record) /\ history \in Seq(Record)
      /\ group \in Seq(Request) /\ requests \in Seq(Request)
  BY <1>0, FromType DEF TypeOK
<1> DEFINE u == Unwritten
           a == Records(u)
           b == IF Durability = "eventual" THEN Records(requests) ELSE <<>>
           t == SubSeq(history, 1, Pub)
<1>5. /\ u \in Seq(Request) /\ Len(u) = Left
      /\ \A i \in 1..Left : u[i] = group[From + i - 1]
  <2>1. CASE worker = "append"
    <3>1. u = SubSeq(group, From, Len(group)) /\ Left = Len(group) - From + 1
      BY <1>4, <2>1 DEF Unwritten, From, Left
    <3> HIDE DEF u
    <3>2. CASE From <= Len(group)
      <4>1. From \in 1..(Len(group) + 1) /\ Len(group) \in (From - 1)..Len(group)
        BY <1>4
      <4> QED BY <1>4, <3>1, <4>1, SubSeqProperties
    <3>3. CASE From = Len(group) + 1
      <4>1. From \in 1..(Len(group) + 1) /\ Len(group) \in (From - 1)..Len(group)
        BY <1>4, <3>3
      <4> QED BY <1>4, <3>1, <3>3, <4>1, SubSeqProperties
    <3> QED BY <1>4, <3>2, <3>3
  <2>2. CASE worker # "append"
    <3>1. u = <<>> /\ Len(<<>>) = 0 /\ <<>> \in Seq(Request)
      BY <2>2, EmptyTypes DEF Unwritten
    <3>2. Left = 0
      <4>1. CASE worker = "commit"
        BY <1>4, <4>1 DEF Left, From
      <4>2. CASE worker \in {"none", "idle", "exited"}
        BY <1>0, <3>1, <4>2 DEF Left, From, QueueInv, GroupIdle
      <4> QED BY <1>0, <2>2, <4>1, <4>2
    <3> QED BY <3>1, <3>2
  <2> QED BY <2>1, <2>2
<1> HIDE DEF u
<1>6. Left \in Nat /\ From \in Nat
  BY <1>4 DEF Left
<1>7. /\ a \in Seq(Record) /\ Len(a) = Left
      /\ \A i \in 1..Left : a[i] = history[Len(file) + i]
  <2>1. a \in Seq(Record) /\ Len(a) = Left /\ \A i \in 1..Left : a[i] = u[i].rec
    BY <1>5, RecordsIs
  <2>2. ASSUME NEW i \in 1..Left PROVE u[i].rec = history[Len(file) + i]
    <3>1. From + i - 1 \in From..Len(group)
      BY <1>4, <1>6 DEF Left
    <3>2. history[Len(file) + 1 + (From + i - 1) - From] = group[From + i - 1].rec
      BY <1>2, <3>1
    <3>3. Len(file) + 1 + (From + i - 1) - From = Len(file) + i
      BY <1>4, <1>6
    <3> QED BY <1>5, <3>2, <3>3
  <2> HIDE DEF a
  <2> QED BY <2>1, <2>2
<1>8. /\ b \in Seq(Record) /\ Pub = Len(file) + Left + Len(b) /\ Len(b) \in Nat
      /\ \A i \in 1..Len(b) : b[i] = history[Len(file) + Left + i]
  <2>1. CASE Durability = "eventual"
    <3>1. Pub = Len(file) + Left + Len(requests)
      BY <1>2, <2>1 DEF Pub
    <3> QED BY <1>3, <1>4, <2>1, <3>1, RecordsIs
  <2>2. CASE Durability # "eventual"
    <3>1. Pub = Len(file) + Left
      BY <1>0, <2>2 DEF Pub
    <3>2. b = <<>> /\ Len(<<>>) = 0 /\ <<>> \in Seq(Record)
      BY <2>2, EmptyTypes
    <3> HIDE DEF b
    <3>3. b \in Seq(Record) /\ Len(b) = 0 /\ \A i \in 1..0 : FALSE
      BY <3>2
    <3> QED BY <1>4, <1>6, <3>1, <3>3
  <2> QED BY <2>1, <2>2
<1>9. Journal = (file \o a) \o b
  BY DEF Journal, u
<1> HIDE DEF a, b
<1>10. /\ file \o a \in Seq(Record) /\ Len(file \o a) = Len(file) + Left
       /\ \A i \in 1..(Len(file) + Left) : (file \o a)[i] = history[i]
  <2>1. /\ file \o a \in Seq(Record) /\ Len(file \o a) = Len(file) + Len(a)
        /\ \A i \in 1..(Len(file) + Len(a)) :
             (file \o a)[i] = IF i <= Len(file) THEN file[i] ELSE a[i - Len(file)]
    BY <1>4, <1>7, ConcatProperties
  <2>2. ASSUME NEW i \in 1..(Len(file) + Left), i > Len(file)
        PROVE  a[i - Len(file)] = history[i]
    <3>1. i - Len(file) \in 1..Left /\ Len(file) + (i - Len(file)) = i
      BY <1>4, <1>6, <2>2
    <3>2. a[i - Len(file)] = history[Len(file) + (i - Len(file))]
      BY <1>7, <3>1
    <3> QED BY <3>1, <3>2
  <2> QED BY <1>2, <1>4, <1>6, <1>7, <2>1, <2>2
<1> DEFINE d == file \o a
<1>11. /\ Journal \in Seq(Record) /\ Len(Journal) = Pub
       /\ \A i \in 1..Pub : Journal[i] = history[i]
  <2>1. d \in Seq(Record) /\ Len(d) = Len(file) + Left /\ Journal = d \o b
        /\ \A i \in 1..(Len(file) + Left) : d[i] = history[i]
    BY <1>9, <1>10
  <2> HIDE DEF d
  <2>2. /\ Journal \in Seq(Record) /\ Len(Journal) = Len(d) + Len(b)
        /\ \A i \in 1..(Len(d) + Len(b)) :
             Journal[i] = IF i <= Len(d) THEN d[i] ELSE b[i - Len(d)]
    BY <1>8, <2>1, ConcatProperties
  <2>3. ASSUME NEW i \in 1..Pub, i > Len(d)
        PROVE  b[i - Len(d)] = history[i]
    <3>1. i - Len(d) \in 1..Len(b) /\ Len(file) + Left + (i - Len(d)) = i
      BY <1>4, <1>6, <1>8, <2>1, <2>3
    <3>2. b[i - Len(d)] = history[Len(file) + Left + (i - Len(d))]
      BY <1>8, <3>1
    <3> QED BY <3>1, <3>2
  <2> QED BY <1>4, <1>6, <1>8, <2>1, <2>2, <2>3
<1>12. t \in Seq(Record) /\ Len(t) = Pub /\ \A i \in 1..Pub : t[i] = history[i]
  BY <1>2, <1>4, PrefixProperties
<1>13. Journal = t
  <2> HIDE DEF t
  <2> QED BY <1>11, <1>12, SeqEqual
<1> QED BY <1>1, <1>2, <1>4, <1>13 DEF Prefix

(***************************************************************************)
(* While no group has failed, replaying the journal to come (what is on    *)
(* file, what the writer still appends, what is queued), if recovery can   *)
(* read it, yields the live facts and the live id counter, and pending     *)
(* work that is live and in order; a live entry it lacks has its           *)
(* acknowledgement in the journal.                                         *)
(* So the ids that cascade and ack records carry mean the same work on     *)
(* replay as they did live, in both modes and for every schedule           *)
(* (workerMain, flushCascade, recover).                                    *)
(***************************************************************************)
THEOREM WalReplayAgreement ==
    ASSUME WholeWritesOrNoAcks
    PROVE  Spec => []ReplayAgreement
<1>1. BaseInv /\ AgreeInv => ReplayAgreement
  <2> SUFFICES ASSUME BaseInv, AgreeInv, Steady, Readable(Journal) PROVE ReplayAgreement
    BY DEF ReplayAgreement
  <2> DEFINE J == Journal
             R == Replay(J)
             replayed == ToSet(R.pending)
             acked == {J[i].ack : i \in {j \in DOMAIN J : J[j].kind \in {"cascade", "ack"}}}
  <2>1. /\ Running /\ Pub \in 0..Len(history) /\ history \in Seq(Record)
        /\ J = SubSeq(history, 1, Pub)
    BY JournalIs DEF Prefix
  <2>2. R = At(history, Pub)
    BY <2>1 DEF At, Prefix
  <2>3. Agree(history, Pub, facts, next_id, pending) /\ AtSound(At(history, Pub))
    BY <2>1, RunningIds DEF AgreeInv, Agrees
  <2>4. J \in Seq(Record) /\ Len(J) = Pub /\ \A i \in 1..Pub : J[i] = history[i]
    BY <2>1, PrefixProperties
  <2> HIDE DEF J, R
  <2>5. R.pending \in Seq(PendingDirty) /\ pending \in Seq(PendingDirty) /\ Increasing(R.pending)
    BY <2>2, <2>3 DEF AtSound, ReplayState, BaseInv, TypeOK
  <2>6. ToSet(R.pending) = Entries(R.pending) /\ ToSet(pending) = Entries(pending)
    BY <2>5, LenProperties DEF ToSet, Entries
  <2>7. R.facts = facts /\ R.next_id = next_id /\ replayed \subseteq ToSet(pending)
    BY <2>2, <2>3, <2>6 DEF Agree
  <2>8. \A i, j \in DOMAIN R.pending : i < j => R.pending[i].id < R.pending[j].id
    BY <2>5, LenProperties DEF Increasing
  <2>9. ASSUME NEW p \in ToSet(pending) \ replayed PROVE p.id \in acked
    <3>1. Acked(history, Pub, p.id)
      BY <2>2, <2>3, <2>6, <2>9 DEF Agree
    <3>2. PICK j \in 1..Pub : history[j].kind \in {"cascade", "ack"} /\ history[j].ack = p.id
      BY <3>1 DEF Acked, AcksId
    <3>3. j \in DOMAIN J /\ J[j].kind \in {"cascade", "ack"} /\ J[j].ack = p.id
      BY <2>4, <3>2, LenProperties
    <3> QED BY <3>3
  <2> QED BY <2>7, <2>8, <2>9 DEF ReplayAgreement, J, R
<1> QED BY <1>1, BaseInvariant, AgreeInvariant, PTL
=============================================================================
