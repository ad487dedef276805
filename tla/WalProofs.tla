----------------------------- MODULE WalProofs -----------------------------
(***************************************************************************)
(* Theorems about the write-ahead log, for every set of clients and keys,  *)
(* both durability modes and every combination of bounds and faults.       *)
(***************************************************************************)
EXTENDS WalProperties, SequenceLemmas

-----------------------------------------------------------------------------
(* The operators the actions are built from.                               *)

Increasing(p) == \A i, j \in 1..Len(p) : i < j => p[i].id < p[j].id
Below(p, n) == \A i \in 1..Len(p) : p[i].id < n

LEMMA PendingIdType ==
    ASSUME NEW p \in Seq(PendingDirty)
    PROVE  \A i \in 1..Len(p) : p[i].id \in Nat
<1>1. \A i \in 1..Len(p) : p[i] \in PendingDirty
  BY ElementOfSeq
<1> QED BY <1>1 DEF PendingDirty

(* removePending keeps the type, the order and every bound of the ids.     *)
LEMMA RemovePendingProperties ==
    ASSUME NEW p \in Seq(PendingDirty), NEW id
    PROVE  /\ RemovePending(p, id) \in Seq(PendingDirty)
           /\ Increasing(p) => Increasing(RemovePending(p, id))
           /\ \A n \in Nat : Below(p, n) => Below(RemovePending(p, id), n)
<1> DEFINE I == {i \in 1..Len(p) : p[i].id = id}
<1>1. CASE I = {}
  <2>1. RemovePending(p, id) = p
    BY <1>1 DEF RemovePending, RemoveFirstMatch
  <2> QED BY <2>1
<1>2. CASE I # {}
  <2>0. I \subseteq Nat
    OBVIOUS
  <2>1. Min(I) \in I
    <3> HIDE DEF I
    <3> QED BY <1>2, <2>0, MinIsLeast
  <2>2. RemovePending(p, id) = RemoveAt(p, Min(I))
    BY <1>2 DEF RemovePending, RemoveFirstMatch, SelectInSeq
  <2> DEFINE m == Min(I)
             q == RemoveAt(p, m)
  <2>3. m \in 1..Len(p)
    BY <2>1
  <2> HIDE DEF m
  <2>4. /\ q \in Seq(PendingDirty)
        /\ Len(q) = Len(p) - 1
        /\ \A j \in 1..(Len(p) - 1) : q[j] = IF j < m THEN p[j] ELSE p[j + 1]
    BY <2>3, RemoveAtProperties
  <2>5. \A j \in 1..Len(p) : p[j].id \in Nat
    BY PendingIdType
  <2> HIDE DEF q
  <2>6. Increasing(p) => Increasing(q)
    <3>1. SUFFICES ASSUME Increasing(p), NEW i \in 1..Len(q), NEW j \in 1..Len(q),
                          i < j
                   PROVE  q[i].id < q[j].id
      BY DEF Increasing
    <3> DEFINE up(x) == IF x < m THEN x ELSE x + 1
    <3>2. q[i] = p[up(i)] /\ q[j] = p[up(j)]
      BY <2>4
    <3>3. up(i) \in 1..Len(p) /\ up(j) \in 1..Len(p) /\ up(i) < up(j)
      BY <2>3, <2>4, <3>1
    <3> HIDE DEF up
    <3> QED BY <3>1, <3>2, <3>3 DEF Increasing
  <2>7. \A n \in Nat : Below(p, n) => Below(q, n)
    BY <2>3, <2>4 DEF Below
  <2> QED BY <2>2, <2>4, <2>6, <2>7 DEF m, q
<1> QED BY <1>1, <1>2

LEMMA AcknowledgeProperties ==
    ASSUME NEW p \in Seq(PendingDirty), NEW r
    PROVE  /\ Acknowledge(p, r) \in Seq(PendingDirty)
           /\ Increasing(p) => Increasing(Acknowledge(p, r))
           /\ \A n \in Nat : Below(p, n) => Below(Acknowledge(p, r), n)
BY RemovePendingProperties DEF Acknowledge

(* A new entry takes the counter's value, so it goes last in the order.    *)
LEMMA AddPendingProperties ==
    ASSUME NEW f \in Facts, NEW p \in Seq(PendingDirty), NEW n \in Nat \ {0},
           NEW r \in Record
    PROVE  /\ AddPending(f, p, n, r) \in Seq(PendingDirty)
           /\ NextId(f, n, r) \in Nat \ {0}
           /\ Increasing(p) /\ Below(p, n)
                => /\ Increasing(AddPending(f, p, n, r))
                   /\ Below(AddPending(f, p, n, r), NextId(f, n, r))
<1>1. CASE ~Accepted(f, r)
  BY <1>1 DEF AddPending, NextId
<1>2. CASE Accepted(f, r)
  <2> DEFINE e == [id |-> n, key |-> CHOOSE k \in r.keys : TRUE]
  <2>1. PICK k \in r.keys : TRUE
    BY <1>2 DEF Accepted, Newer
  <2>2. (CHOOSE x \in r.keys : TRUE) \in Keys
    BY <2>1 DEF Record
  <2>3. e \in PendingDirty /\ e.id = n
    BY <2>2 DEF PendingDirty
  <2> HIDE DEF e
  <2> DEFINE q == Append(p, e)
  <2>4. /\ q \in Seq(PendingDirty) /\ Len(q) = Len(p) + 1
        /\ \A i \in 1..Len(p) : q[i] = p[i]
        /\ q[Len(p) + 1] = e
    BY <2>3, AppendProperties
  <2>5. \A i \in 1..Len(p) : p[i].id \in Nat
    BY PendingIdType
  <2> HIDE DEF q
  <2>6. AddPending(f, p, n, r) = q /\ NextId(f, n, r) = n + 1
    BY <1>2 DEF AddPending, NextId, q, e
  <2>7. Increasing(p) /\ Below(p, n) => Increasing(q) /\ Below(q, n + 1)
    <3>1. SUFFICES ASSUME Increasing(p), Below(p, n)
                   PROVE  Increasing(q) /\ Below(q, n + 1)
      OBVIOUS
    <3>2. ASSUME NEW i \in 1..Len(p) PROVE q[i].id < n
      BY <3>1, <2>4 DEF Below
    <3>3. Below(q, n + 1)
      <4>1. ASSUME NEW i \in 1..Len(q) PROVE q[i].id < n + 1
        <5>1. CASE i \in 1..Len(p)
          BY <5>1, <3>2, <2>4, <2>5
        <5>2. CASE i = Len(p) + 1
          BY <5>2, <2>3, <2>4
        <5> QED BY <5>1, <5>2, <2>4
      <4> QED BY <4>1 DEF Below
    <3>4. ASSUME NEW i \in 1..Len(q), NEW j \in 1..Len(q), i < j
          PROVE  q[i].id < q[j].id
      <4>1. i \in 1..Len(p)
        BY <3>4, <2>4
      <4>2. CASE j \in 1..Len(p)
        BY <3>1, <3>4, <4>1, <4>2, <2>4 DEF Increasing
      <4>3. CASE j = Len(p) + 1
        BY <4>1, <4>3, <3>2, <2>3, <2>4
      <4> QED BY <4>2, <4>3, <2>4
    <3> QED BY <3>3, <3>4 DEF Increasing
  <2> QED BY <2>4, <2>6, <2>7
<1> QED BY <1>1, <1>2

LEMMA PopPendingProperties ==
    ASSUME NEW p \in Seq(PendingDirty), NEW n \in Nat
    PROVE  /\ PopPending(p, n) \in Seq(PendingDirty)
           /\ Increasing(p) => Increasing(PopPending(p, n))
<1>1. CASE ~(Len(p) > n)
  BY <1>1 DEF PopPending
<1>2. CASE Len(p) > n
  <2> DEFINE q == SubSeq(p, 1, n)
  <2>1. \A i \in 1..n : p[i] \in PendingDirty
    BY <1>2, ElementOfSeq
  <2>2. q \in Seq(PendingDirty) /\ Len(q) = n /\ \A i \in 1..n : q[i] = p[i]
    BY <2>1, SubSeqProperties
  <2> HIDE DEF q
  <2>3. Increasing(p) => Increasing(q)
    BY <1>2, <2>2 DEF Increasing
  <2> QED BY <1>2, <2>2, <2>3 DEF PopPending, q
<1> QED BY <1>1, <1>2

LEMMA PutType ==
    ASSUME NEW f \in Facts, NEW S, NEW t \in Nat
    PROVE  Put(f, S, t) \in Facts
BY DEF Facts, Put

LEMMA RestoreType ==
    ASSUME NEW f \in Facts, NEW u \in FactUndo
    PROVE  Restore(f, u) \in Facts /\ Consume(f, u) \in FactUndo
BY DEF Facts, Restore, Consume, FactUndo, Absent

LEMMA UndoEntryType ==
    ASSUME NEW f \in Facts, NEW S \in SUBSET Keys, NEW t \in Nat
    PROVE  UndoEntry(f, S, t) \in FactUndo
BY DEF Facts, UndoEntry, FactUndo, Absent

LEMMA RecordTypes ==
    /\ NoRecord \in Record /\ Torn \in Record
    /\ \A k \in Keys, t \in Nat, z \in Sizes : BatchRecord(k, t, z) \in Record
    /\ \A S \in SUBSET Keys, t \in Nat, id \in Nat, z \in Sizes :
           CascadeRecord(S, t, id, z) \in Record
    /\ \A id \in Nat : AckRecord(id) \in Record
<1>1. Sizes \subseteq SizeClasses /\ "fits" \in SizeClasses
  BY WalAssumption DEF SizeClasses
<1> QED BY <1>1 DEF NoRecord, Torn, BatchRecord, CascadeRecord, AckRecord, Record, Kinds

LEMMA IdleType == Idle \in [pc : CallerStates, rec : Record]
BY RecordTypes DEF Idle, CallerStates

LEMMA ReturnedType ==
    ASSUME TypeOK, NEW c \in Clients, Returned(c)
    PROVE  caller' \in [Clients -> [pc : CallerStates, rec : Record]]
BY IdleType DEF Returned, TypeOK

LEMMA DebrisType ==
    ASSUME NEW debris \in WriteDebris
    PROVE  /\ debris \in Seq(Record)
           /\ debris = <<>> \/ ("torn" \in Faults /\ debris = <<Torn>>)
<1>1. debris = <<>> \/ ("torn" \in Faults /\ debris = <<Torn>>)
  BY DEF WriteDebris
<1>2. <<>> \in Seq(Record)
  BY EmptySeq
<1>3. Append(<<>>, Torn) \in Seq(Record)
  BY <1>2, RecordTypes, AppendProperties
<1>4. Append(<<>>, Torn) = <<Torn>>
  OBVIOUS
<1> QED BY <1>1, <1>2, <1>3, <1>4

(* A truncated sequence.                                                   *)
LEMMA PrefixProperties ==
    ASSUME NEW S, NEW s \in Seq(S), NEW n \in 0..Len(s)
    PROVE  /\ SubSeq(s, 1, n) \in Seq(S)
           /\ Len(SubSeq(s, 1, n)) = n
           /\ \A i \in 1..n : SubSeq(s, 1, n)[i] = s[i]
<1>1. \A i \in 1..n : s[i] \in S
  BY ElementOfSeq
<1> QED BY <1>1, SubSeqProperties

-----------------------------------------------------------------------------
(* Type correctness.                                                       *)

LEMMA EmptyTypes ==
    /\ EmptyFacts \in Facts
    /\ [c \in Clients |-> Idle] \in [Clients -> [pc : CallerStates, rec : Record]]
    /\ [len |-> 0, next |-> 1] \in [len : Nat, next : Nat \ {0}]
    /\ \A S : <<>> \in Seq(S) /\ Len(<<>>) = 0
<1>1. EmptyFacts \in Facts
  BY DEF EmptyFacts, Facts, Absent
<1>2. [c \in Clients |-> Idle] \in [Clients -> [pc : CallerStates, rec : Record]]
  BY IdleType
<1> QED BY <1>1, <1>2, EmptySeq

LEMMA InitTypeOK == Init => TypeOK
<1> SUFFICES ASSUME Init PROVE TypeOK
  OBVIOUS
<1>1. /\ pending \in Seq(PendingDirty) /\ requests \in Seq(Request)
      /\ group \in Seq(Request) /\ undo \in Seq(FactUndo)
      /\ file \in Seq(Record) /\ history \in Seq(Record)
      /\ Len(file) = 0
  BY EmptyTypes DEF Init
<1>2. synced \in 0..Len(file)
  BY <1>1 DEF Init
<1>3. facts \in Facts /\ before \in Facts /\ saved \in [len : Nat, next : Nat \ {0}]
  BY EmptyTypes DEF Init
<1>4. caller \in [Clients -> [pc : CallerStates, rec : Record]]
  BY EmptyTypes DEF Init
<1> QED BY <1>1, <1>2, <1>3, <1>4 DEF Init, TypeOK, WorkerStates

LEMMA CallTypeOK ==
    ASSUME TypeOK, NEW c \in Clients, CallBatch(c) \/ CallCascade(c) \/ CallAck(c)
    PROVE  TypeOK'
<1> USE DEF phaseVars, liveVars, queueVars, workerVars, fileVars, boundVars, ghostVars
<1>1. \A t \in Timestamps : t \in Nat
  BY DEF TypeOK, Timestamps
<1>2. \A id \in PendingIds : id \in Nat
  BY PendingIdType DEF TypeOK, PendingIds
<1>3. ASSUME NEW pc \in CallerStates, NEW r \in Record, Call(c, pc, r),
             worker' \in WorkerStates
      PROVE  TypeOK'
  <2>1. caller' \in [Clients -> [pc : CallerStates, rec : Record]]
    BY <1>3 DEF Call, TypeOK
  <2> QED BY <1>3, <2>1 DEF Call, TypeOK
<1>4. CASE CallBatch(c)
  BY <1>1, <1>3, <1>4, RecordTypes DEF CallBatch, Start, TypeOK, CallerStates, WorkerStates
<1>5. CASE CallCascade(c)
  BY <1>1, <1>2, <1>3, <1>5, RecordTypes DEF CallCascade, Start, TypeOK, CallerStates, WorkerStates
<1>6. CASE CallAck(c)
  BY <1>2, <1>3, <1>6, RecordTypes DEF CallAck, TypeOK, CallerStates
<1> QED BY <1>4, <1>5, <1>6

LEMMA AdmitTypeOK ==
    ASSUME TypeOK, NEW c \in Clients,
           AdmitStrict(c) \/ AdmitEventual(c) \/ AdmitOom(c) \/ AdmitRefused(c)
    PROVE  TypeOK'
<1> USE DEF phaseVars, liveVars, queueVars, workerVars, fileVars, boundVars, ghostVars
<1> DEFINE r == caller[c].rec
<1>1. r \in Record /\ r.keys \in SUBSET Keys /\ r.ts \in Nat
  BY DEF TypeOK, Record
<1>2. ASSUME Returned(c) PROVE caller' \in [Clients -> [pc : CallerStates, rec : Record]]
  BY <1>2, ReturnedType
<1>3. ASSUME Enqueue(c) PROVE requests' \in Seq(Request) /\ history' \in Seq(Record)
  <2>1. [client |-> c, rec |-> r] \in Request
    BY <1>1 DEF Request
  <2> QED BY <1>1, <1>3, <2>1, AppendProperties DEF Enqueue, TypeOK
<1>4. CASE AdmitStrict(c)
  <2>1. caller' \in [Clients -> [pc : CallerStates, rec : Record]]
    BY <1>4 DEF AdmitStrict, Moved, TypeOK, CallerStates
  <2> QED BY <1>4, <1>3, <2>1 DEF AdmitStrict, Enqueue, TypeOK
<1>5. CASE AdmitEventual(c)
  <2>1. facts' \in Facts
    BY <1>1, <1>5, PutType DEF AdmitEventual, TypeOK
  <2>2. pending' \in Seq(PendingDirty) /\ next_id' \in Nat \ {0}
    BY <1>1, <1>5, AddPendingProperties, AcknowledgeProperties DEF AdmitEventual, TypeOK
  <2> QED BY <1>5, <1>2, <1>3, <2>1, <2>2 DEF AdmitEventual, Enqueue, TypeOK
<1>6. CASE AdmitOom(c)
  <2>1. facts' \in Facts
    <3>1. PICK done, noted \in SUBSET r.keys :
             facts' = Restore(Put(facts, done, r.ts), UndoEntry(facts, noted, r.ts))
      BY <1>6 DEF AdmitOom
    <3> QED BY <1>1, <3>1, PutType, UndoEntryType, RestoreType DEF TypeOK
  <2> QED BY <1>6, <1>2, <2>1 DEF AdmitOom, TypeOK
<1>7. CASE AdmitRefused(c)
  BY <1>7, <1>2 DEF AdmitRefused, TypeOK
<1> QED BY <1>4, <1>5, <1>6, <1>7

LEMMA ReturnTypeOK ==
    ASSUME TypeOK, NEW c \in Clients, Return(c) \/ AckOk(c) \/ AckFails(c)
    PROVE  TypeOK'
<1> USE DEF phaseVars, liveVars, queueVars, workerVars, fileVars, boundVars, ghostVars
<1>1. caller[c].rec \in Record
  BY DEF TypeOK
<1>2. caller' \in [Clients -> [pc : CallerStates, rec : Record]]
  BY ReturnedType DEF Return, AckOk, AckFails
<1>3. CASE Return(c)
  BY <1>2, <1>3, AcknowledgeProperties DEF Return, TypeOK
<1>4. CASE AckOk(c)
  <2>1. pending' \in Seq(PendingDirty)
    BY <1>4, RemovePendingProperties DEF AckOk, TypeOK
  <2>2. /\ file' \in Seq(Record) /\ Len(file') = Len(file) + 1
        /\ history' \in Seq(Record)
    BY <1>1, <1>4, AppendProperties DEF AckOk, TypeOK
  <2> QED BY <1>1, <1>2, <1>4, <2>1, <2>2 DEF AckOk, TypeOK
<1>5. CASE AckFails(c)
  <2>1. /\ file' \in Seq(Record) /\ Len(file') >= Len(file)
        /\ history' \in Seq(Record)
    <3>1. CASE \E debris \in WriteDebris : file' = file \o debris /\ history' = history
      <4>1. PICK debris \in WriteDebris : file' = file \o debris /\ history' = history
        BY <3>1
      <4>2. debris \in Seq(Record) /\ Len(debris) >= 0
        BY DebrisType, LenProperties
      <4> QED BY <4>1, <4>2, ConcatProperties DEF TypeOK
    <3>2. CASE file' = Append(file, caller[c].rec) /\ history' = Append(history, caller[c].rec)
      BY <1>1, <3>2, AppendProperties DEF TypeOK
    <3> QED BY <1>5, <3>1, <3>2 DEF AckFails
  <2> QED BY <1>2, <1>5, <2>1 DEF AckFails, TypeOK
<1> QED BY <1>3, <1>4, <1>5

LEMMA PublishTypeOK ==
    ASSUME TypeOK, idx \in 1..Len(group), Publish \/ PublishOom
    PROVE  TypeOK'
<1> USE DEF phaseVars, liveVars, queueVars, workerVars, fileVars, boundVars, ghostVars
<1> DEFINE r == group[idx].rec
<1>1. r \in Record /\ r.keys \in SUBSET Keys /\ r.ts \in Nat
  <2>1. group[idx] \in Request
    BY ElementOfSeq DEF TypeOK
  <2> QED BY <2>1 DEF Request, Record
<1>2. ASSUME NEW S \in SUBSET r.keys
      PROVE  AddUndo(facts, undo, S, r.ts) \in Seq(FactUndo)
  BY <1>1, UndoEntryType, AppendProperties DEF AddUndo, TypeOK
<1>3. CASE Publish
  <2>1. undo' \in Seq(FactUndo)
    BY <1>2, <1>3 DEF Publish
  <2>2. facts' \in Facts
    BY <1>1, <1>3, PutType DEF Publish, TypeOK
  <2>3. pending' \in Seq(PendingDirty) /\ next_id' \in Nat \ {0}
    BY <1>1, <1>3, AddPendingProperties DEF Publish, TypeOK
  <2>4. idx' \in Nat /\ worker' \in WorkerStates
    BY <1>3 DEF Publish, TypeOK, WorkerStates
  <2> QED BY <1>3, <2>1, <2>2, <2>3, <2>4 DEF Publish, TypeOK
<1>4. CASE PublishOom
  <2>1. PICK done, noted \in SUBSET r.keys :
             /\ undo' = AddUndo(facts, undo, noted, r.ts)
             /\ facts' = Put(facts, done, r.ts)
    BY <1>4 DEF PublishOom
  <2>2. undo' \in Seq(FactUndo) /\ facts' \in Facts
    BY <1>1, <1>2, <2>1, PutType DEF TypeOK
  <2>3. idx' \in Nat
    BY <1>4, <2>2, LenProperties DEF PublishOom
  <2> QED BY <1>4, <2>2, <2>3 DEF PublishOom, TypeOK, WorkerStates
<1> QED BY <1>3, <1>4

LEMMA RollbackTypeOK ==
    ASSUME TypeOK, idx \in 0..Len(undo),
           NEW from, NEW to \in WorkerStates, RollbackLoop(from, to)
    PROVE  TypeOK'
<1> USE DEF phaseVars, liveVars, queueVars, workerVars, fileVars, boundVars, ghostVars
<1>1. CASE idx > 0
  <2>1. undo[idx] \in FactUndo
    BY <1>1, ElementOfSeq DEF TypeOK
  <2>2. facts' \in Facts /\ Consume(facts, undo[idx]) \in FactUndo
    BY <1>1, <2>1, RestoreType DEF RollbackLoop, TypeOK
  <2>3. undo' \in Seq(FactUndo)
    <3>1. undo \in Seq(FactUndo) /\ idx \in 1..Len(undo)
      BY <1>1, LenProperties DEF TypeOK
    <3>2. undo' = [undo EXCEPT ![idx] = Consume(facts, undo[idx])]
      BY <1>1 DEF RollbackLoop
    <3> QED BY <3>1, <3>2, <2>2, ExceptSeq
  <2> QED BY <1>1, <2>2, <2>3 DEF RollbackLoop, TypeOK
<1>2. CASE ~(idx > 0)
  <2>1. saved.len \in Nat /\ saved.next \in Nat \ {0}
    BY DEF TypeOK
  <2>2. pending' \in Seq(PendingDirty) /\ next_id' \in Nat \ {0}
    BY <1>2, <2>1, PopPendingProperties DEF RollbackLoop, TypeOK
  <2> QED BY <1>2, <2>2 DEF RollbackLoop, TypeOK
<1> QED BY <1>1, <1>2

LEMMA WriteTypeOK ==
    ASSUME TypeOK, worker = "append" => idx \in 1..(Len(group) + 1),
           Take \/ Relock \/ AppendRecord \/ AppendFails \/ SyncGroup \/ SyncFails \/ AppendTooLarge
    PROVE  TypeOK'
<1> USE DEF phaseVars, liveVars, queueVars, workerVars, fileVars, boundVars, ghostVars
<1>1. CASE Take
  <2>1. saved' \in [len : Nat, next : Nat \ {0}]
    BY <1>1, LenProperties DEF Take, TypeOK
  <2>2. requests' \in Seq(Request) /\ undo' \in Seq(FactUndo)
    BY <1>1, EmptySeq DEF Take
  <2> QED BY <1>1, <2>1, <2>2 DEF Take, TypeOK, WorkerStates
<1>2. CASE Relock
  BY <1>2, LenProperties DEF Relock, TypeOK, WorkerStates
<1>3. CASE AppendRecord
  <2>1. idx \in 1..Len(group)
    BY <1>3 DEF AppendRecord, TypeOK
  <2>2. group[idx].rec \in Record
    <3>1. group[idx] \in Request
      BY <2>1, ElementOfSeq DEF TypeOK
    <3> QED BY <3>1 DEF Request
  <2>3. file' \in Seq(Record) /\ Len(file') = Len(file) + 1
    BY <1>3, <2>2, AppendProperties DEF AppendRecord, TypeOK
  <2>4. /\ idx' = idx + 1
        /\ UNCHANGED <<phaseVars, liveVars, queueVars, worker, group, attempt, undo,
                       saved, caller, synced, boundVars, ghostVars>>
    BY <1>3 DEF AppendRecord
  <2> QED BY <2>3, <2>4 DEF TypeOK
<1>4. CASE AppendFails
  <2>1. PICK debris \in WriteDebris : file' = file \o debris
    BY <1>4 DEF AppendFails
  <2>2. debris \in Seq(Record) /\ Len(debris) \in Nat
    BY DebrisType, LenProperties
  <2>3. file' \in Seq(Record) /\ Len(file') >= Len(file)
    BY <2>1, <2>2, ConcatProperties DEF TypeOK
  <2>4. /\ AttemptFails
        /\ UNCHANGED <<phaseVars, liveVars, queueVars, group, idx, undo, saved, caller,
                       synced, boundVars, ghostVars>>
    BY <1>4 DEF AppendFails
  <2> QED BY <2>3, <2>4 DEF AttemptFails, TypeOK, WorkerStates
<1>5. CASE SyncGroup
  BY <1>5, LenProperties DEF SyncGroup, TypeOK, WorkerStates
<1>6. CASE SyncFails \/ AppendTooLarge
  <2>1. /\ AttemptFails
        /\ UNCHANGED <<phaseVars, liveVars, queueVars, group, idx, undo, saved, caller,
                       fileVars, boundVars, ghostVars>>
    BY <1>6 DEF SyncFails, AppendTooLarge
  <2> QED BY <2>1 DEF AttemptFails, TypeOK, WorkerStates
<1> QED BY <1>1, <1>2, <1>3, <1>4, <1>5, <1>6

LEMMA FinishTypeOK ==
    ASSUME TypeOK, Commit \/ Abort \/ WorkerExit \/ Deinit
    PROVE  TypeOK'
<1> USE DEF phaseVars, liveVars, queueVars, workerVars, fileVars, boundVars, ghostVars
<1>1. ASSUME NEW S, NEW pc \in CallerStates, Signal(S, pc)
      PROVE  caller' \in [Clients -> [pc : CallerStates, rec : Record]]
  BY <1>1 DEF Signal, TypeOK
<1>2. \A i \in 1..Len(group) : group[i].rec \in Record
  <2>1. \A i \in 1..Len(group) : group[i] \in Request
    BY ElementOfSeq DEF TypeOK
  <2> QED BY <2>1 DEF Request
<1>3. CASE Commit
  <2>1. caller' \in [Clients -> [pc : CallerStates, rec : Record]]
    BY <1>1, <1>3 DEF Commit, CallerStates
  <2>2. promised' \in SUBSET Record
    BY <1>2, <1>3 DEF Commit, TypeOK
  <2>3. group' \in Seq(Request) /\ undo' \in Seq(FactUndo)
    BY <1>3, EmptySeq DEF Commit
  <2> QED BY <1>3, <2>1, <2>2, <2>3 DEF Commit, TypeOK, WorkerStates
<1>4. CASE Abort
  <2>1. caller' \in [Clients -> [pc : CallerStates, rec : Record]]
    BY <1>1, <1>4 DEF Abort, CallerStates
  <2>2. group' \in Seq(Request) /\ undo' \in Seq(FactUndo) /\ requests' \in Seq(Request)
    BY <1>4, EmptySeq DEF Abort
  <2> QED BY <1>4, <2>1, <2>2 DEF Abort, TypeOK, WorkerStates
<1>5. CASE WorkerExit
  BY <1>5 DEF WorkerExit, TypeOK, WorkerStates
<1>6. CASE Deinit
  BY <1>6 DEF Deinit, TypeOK, WorkerStates
<1> QED BY <1>3, <1>4, <1>5, <1>6

LEMMA RestartTypeOK ==
    ASSUME TypeOK, Reopen \/ Crash
    PROVE  TypeOK'
<1> USE DEF phaseVars, liveVars, queueVars, workerVars, fileVars, boundVars, ghostVars
<1>1. Restart
  BY DEF Reopen, Crash
<1>2. /\ pending' \in Seq(PendingDirty) /\ requests' \in Seq(Request)
      /\ group' \in Seq(Request) /\ undo' \in Seq(FactUndo)
      /\ facts' \in Facts /\ saved' \in [len : Nat, next : Nat \ {0}]
      /\ caller' \in [Clients -> [pc : CallerStates, rec : Record]]
  BY <1>1, EmptyTypes DEF Restart
<1>3. file' \in Seq(Record) /\ synced' \in 0..Len(file')
  <2>1. CASE Reopen
    BY <2>1 DEF Reopen, TypeOK
  <2>2. CASE Crash
    <3>1. PICK n \in synced..Len(file) :
             \/ file' = SubSeq(file, 1, n)
             \/ file' = Append(SubSeq(file, 1, n), Torn)
      BY <2>2 DEF Crash
    <3>2. n \in 0..Len(file)
      BY LenProperties DEF TypeOK
    <3>3. SubSeq(file, 1, n) \in Seq(Record)
      BY <3>2, PrefixProperties DEF TypeOK
    <3>4. file' \in Seq(Record)
      BY <3>1, <3>3, RecordTypes, AppendProperties
    <3>5. Len(file') \in Nat /\ synced' = Len(file')
      BY <2>2, <3>4, LenProperties DEF Crash
    <3> QED BY <3>4, <3>5
  <2> QED BY <2>1, <2>2
<1>4. /\ pos' \in Nat \ {0} /\ next_id' \in Nat \ {0}
      /\ idx' \in Nat /\ attempt' \in Nat
  BY <1>1 DEF Restart
<1>5. /\ phase' \in {"replay", "open", "corrupt"} /\ worker' \in WorkerStates
  BY <1>1 DEF Restart, WorkerStates
<1>6. failed' \in BOOLEAN /\ stopping' \in BOOLEAN
  BY <1>1, Zenon DEF Restart
<1>7. /\ issued' \in Nat /\ restarts' \in Nat /\ history' \in Seq(Record)
      /\ promised' \in SUBSET Record /\ before' \in Facts
  BY <1>1 DEF Restart, TypeOK
<1> QED BY <1>2, <1>3, <1>4, <1>5, <1>6, <1>7 DEF TypeOK

LEMMA ReplayTypeOK ==
    ASSUME TypeOK, ReplayNext
    PROVE  TypeOK'
<1> USE DEF phaseVars, liveVars, queueVars, workerVars, fileVars, boundVars, ghostVars
<1>1. CASE ReplayRecord
  <2> DEFINE r == file[pos]
  <2>1. r \in Record /\ r.ts \in Nat
    <3>1. pos \in 1..Len(file)
      BY <1>1, LenProperties DEF ReplayRecord, TypeOK
    <3>2. r \in Record
      BY <3>1, ElementOfSeq DEF TypeOK
    <3> QED BY <3>2 DEF Record
  <2>2. facts' \in Facts
    BY <1>1, <2>1, PutType DEF ReplayRecord, TypeOK
  <2>3. pending' \in Seq(PendingDirty) /\ next_id' \in Nat \ {0}
    BY <1>1, <2>1, AddPendingProperties, AcknowledgeProperties DEF ReplayRecord, TypeOK
  <2> QED BY <1>1, <2>2, <2>3 DEF ReplayRecord, TypeOK
<1>2. ASSUME Recovered, file' \in Seq(Record), synced' \in 0..Len(file')
      PROVE  TypeOK'
  <2>1. \A i \in 1..synced' : file'[i] \in Record
    BY <1>2, ElementOfSeq
  <2>2. promised' \in SUBSET Record
    BY <1>2, <2>1 DEF Recovered, TypeOK
  <2> QED BY <1>2, <2>2 DEF Recovered, TypeOK
<1>3. CASE ReplayDone
  BY <1>2, <1>3 DEF ReplayDone, TypeOK
<1>4. CASE ReplayTorn
  <2>1. pos - 1 \in 0..Len(file)
    BY <1>4, LenProperties DEF ReplayTorn, TypeOK
  <2>2. file' \in Seq(Record) /\ Len(file') = pos - 1
    BY <1>4, <2>1, PrefixProperties DEF ReplayTorn, TypeOK
  <2>3. synced' \in 0..Len(file')
    BY <1>4, <2>1, <2>2 DEF ReplayTorn, TypeOK
  <2> QED BY <1>2, <1>4, <2>2, <2>3 DEF ReplayTorn
<1>5. CASE ReplayCorrupt
  BY <1>5 DEF ReplayCorrupt, TypeOK
<1> QED BY <1>1, <1>3, <1>4, <1>5 DEF ReplayNext

-----------------------------------------------------------------------------
(* Control invariants: where the writer's index points, and which actors   *)
(* are quiet when.                                                         *)

IndexInv ==
    /\ worker = "publish" => idx \in 1..Len(group)
    /\ worker = "append" => idx \in 1..(Len(group) + 1)
    /\ worker \in {"unpublish", "rollback"} => idx \in 0..Len(undo)

(* Recovery runs alone.                                                    *)
ReplayQuiet ==
    phase # "open" => /\ worker = "none" /\ ~failed /\ requests = <<>>
                      /\ \A c \in Clients : caller[c].pc = "idle"

(* After a terminal failure nothing is queued or written again.            *)
FailedQuiet == failed => requests = <<>> /\ worker \in {"none", "idle", "exited"}

(* Eventual requests are published by their callers, never by the writer.  *)
EventualQuiet ==
    Durability = "eventual" =>
        undo = <<>> /\ worker \notin {"publish", "unpublish", "rollback"}

Control == IndexInv /\ ReplayQuiet /\ FailedQuiet /\ EventualQuiet

LEMMA InitControl == Init => Control
BY DEF Init, Control, IndexInv, ReplayQuiet, FailedQuiet, EventualQuiet

LEMMA CallerControl ==
    ASSUME TypeOK, Control, NEW c \in Clients, CallerNext(c)
    PROVE  Control'
<1> USE DEF phaseVars, liveVars, queueVars, workerVars, fileVars, boundVars, ghostVars
<1>1. /\ phase = "open" /\ phase' = "open"
      /\ UNCHANGED <<group, idx, undo, failed>>
      /\ worker' = worker \/ (worker = "none" /\ worker' = "idle")
  BY DEF CallerNext, Call, CallBatch, CallCascade, CallAck, Start, AdmitStrict,
         AdmitEventual, AdmitOom, AdmitRefused, Enqueue, Admissible, Return, AckReady, AckOk,
         AckFails, Control, ReplayQuiet
<1>2. failed => requests' = requests
  BY DEF CallerNext, Call, CallBatch, CallCascade, CallAck, AdmitStrict, Admissible,
         AdmitEventual, AdmitOom, AdmitRefused, Enqueue, Return, AckOk, AckFails
<1> QED BY <1>1, <1>2
        DEF Control, IndexInv, ReplayQuiet, FailedQuiet, EventualQuiet

LEMMA WorkerControl ==
    ASSUME TypeOK, Control, WorkerNext
    PROVE  Control'
<1> USE DEF phaseVars, liveVars, queueVars, workerVars, fileVars, boundVars, ghostVars
<1>0. phase = "open" /\ phase' = "open"
  BY DEF WorkerNext, Take, Publish, PublishOom, Unpublish, Rollback, RollbackLoop,
         Relock, AppendRecord, AppendFails, SyncGroup, SyncFails, AppendTooLarge, Commit, Abort,
         WorkerExit, Control, ReplayQuiet
<1>1. ReplayQuiet'
  BY <1>0 DEF ReplayQuiet
<1>2. FailedQuiet'
  BY DEF WorkerNext, Take, Publish, PublishOom, Unpublish, Rollback, RollbackLoop,
         Relock, AppendRecord, AppendFails, SyncGroup, SyncFails, AppendTooLarge, Commit, Abort,
         WorkerExit, Control, FailedQuiet
<1>3. EventualQuiet'
  BY DEF WorkerNext, Take, Publish, PublishOom, Unpublish, Rollback, RollbackLoop,
         Relock, AppendRecord, AppendFails, AttemptFails, SyncGroup, SyncFails, AppendTooLarge, Commit,
         Abort, WorkerExit, Control, EventualQuiet
<1>4. IndexInv'
  <2>1. CASE Take
    <3>1. Len(requests) \in Nat \ {0}
      BY <2>1, EmptySeq DEF Take, TypeOK
    <3> QED BY <2>1, <3>1 DEF Take, IndexInv
  <2>2. CASE Publish
    <3>1. /\ worker = "publish" /\ group' = group
          /\ IF idx < Len(group) THEN idx' = idx + 1 /\ worker' = worker
                                 ELSE idx' = 1 /\ worker' = "append"
      BY <2>2 DEF Publish
    <3>2. Len(group) \in Nat /\ idx \in 1..Len(group)
      BY <3>1, LenProperties DEF Control, IndexInv, TypeOK
    <3> QED BY <3>1, <3>2 DEF IndexInv
  <2>3. CASE PublishOom
    <3>1. undo' \in Seq(FactUndo)
      BY <2>3, PublishTypeOK DEF PublishOom, Control, IndexInv, TypeOK
    <3> QED BY <2>3, <3>1, LenProperties DEF PublishOom, IndexInv
  <2>4. ASSUME NEW from \in {"unpublish", "rollback"}, NEW to \in {"relock", "abort"},
               RollbackLoop(from, to)
        PROVE  IndexInv'
    <3>1. CASE idx > 0
      <4>1. undo' = [undo EXCEPT ![idx] = Consume(facts, undo[idx])]
        BY <2>4, <3>1 DEF RollbackLoop
      <4>2. Len(undo') = Len(undo)
        BY <4>1 DEF TypeOK
      <4> QED BY <2>4, <3>1, <4>2 DEF RollbackLoop, Control, IndexInv, TypeOK
    <3>2. CASE ~(idx > 0)
      BY <2>4, <3>2 DEF RollbackLoop, IndexInv
    <3> QED BY <3>1, <3>2
  <2>5. CASE Relock
    BY <2>5, LenProperties DEF Relock, IndexInv, TypeOK
  <2>6. CASE AppendRecord
    BY <2>6, LenProperties DEF AppendRecord, Control, IndexInv, TypeOK
  <2>7. CASE AppendFails \/ SyncFails \/ AppendTooLarge
    BY <2>7, LenProperties DEF AppendFails, SyncFails, AppendTooLarge, AttemptFails, IndexInv, TypeOK
  <2>8. CASE SyncGroup \/ Commit \/ Abort \/ WorkerExit
    BY <2>8 DEF SyncGroup, Commit, Abort, WorkerExit, IndexInv
  <2> QED BY <2>1, <2>2, <2>3, <2>4, <2>5, <2>6, <2>7, <2>8
          DEF WorkerNext, Unpublish, Rollback
<1> QED BY <1>1, <1>2, <1>3, <1>4 DEF Control

LEMMA OtherControl ==
    ASSUME TypeOK, Control, ReplayNext \/ Deinit \/ Reopen \/ Crash
    PROVE  Control'
<1> USE DEF phaseVars, liveVars, queueVars, workerVars, fileVars, boundVars, ghostVars
<1>1. CASE ReplayNext
  BY <1>1 DEF ReplayNext, ReplayRecord, ReplayDone, ReplayTorn, ReplayCorrupt, Recovered,
              Control, IndexInv, ReplayQuiet, FailedQuiet, EventualQuiet
<1>2. CASE Deinit
  BY <1>2 DEF Deinit, Control, IndexInv, ReplayQuiet, FailedQuiet, EventualQuiet
<1>3. CASE Reopen \/ Crash
  <2>1. Restart
    BY <1>3 DEF Reopen, Crash
  <2> QED BY <2>1 DEF Restart, Idle, Control, IndexInv, ReplayQuiet, FailedQuiet, EventualQuiet
<1> QED BY <1>1, <1>2, <1>3

LEMMA ControlStep == TypeOK /\ Control /\ [Next]_vars => TypeOK' /\ Control'
<1> SUFFICES ASSUME TypeOK, Control, [Next]_vars PROVE TypeOK' /\ Control'
  OBVIOUS
<1>1. CASE UNCHANGED vars
  BY <1>1 DEF vars, phaseVars, liveVars, queueVars, workerVars, fileVars, boundVars,
              ghostVars, TypeOK, Control, IndexInv, ReplayQuiet, FailedQuiet, EventualQuiet
<1>2. ASSUME NEW c \in Clients, CallerNext(c) PROVE TypeOK' /\ Control'
  BY <1>2, CallTypeOK, AdmitTypeOK, ReturnTypeOK, CallerControl DEF CallerNext
<1>3. CASE WorkerNext
  <2>1. TypeOK'
    <3>1. CASE Publish \/ PublishOom
      BY <3>1, PublishTypeOK DEF Publish, PublishOom, Control, IndexInv
    <3>2. CASE Unpublish \/ Rollback
      BY <3>2, RollbackTypeOK
         DEF Unpublish, Rollback, RollbackLoop, Control, IndexInv, WorkerStates
    <3>3. CASE Take \/ Relock \/ AppendRecord \/ AppendFails \/ SyncGroup \/ SyncFails \/ AppendTooLarge
      BY <3>3, WriteTypeOK DEF Control, IndexInv
    <3>4. CASE Commit \/ Abort \/ WorkerExit
      BY <3>4, FinishTypeOK
    <3> QED BY <1>3, <3>1, <3>2, <3>3, <3>4 DEF WorkerNext
  <2> QED BY <1>3, <2>1, WorkerControl
<1>4. CASE ReplayNext \/ Deinit \/ Reopen \/ Crash
  BY <1>4, ReplayTypeOK, FinishTypeOK, RestartTypeOK, OtherControl
<1> QED BY <1>1, <1>2, <1>3, <1>4 DEF Next

(***************************************************************************)
(* Every variable keeps its type in every behaviour, and the writer's      *)
(* index never leaves the group or the undo list it walks: no step of      *)
(* workerMain reads past the end of either.                                *)
(***************************************************************************)
THEOREM WalTypeOK == Spec => [](TypeOK /\ Control)
<1>1. Init => TypeOK /\ Control
  BY InitTypeOK, InitControl
<1> QED BY <1>1, ControlStep, PTL DEF Spec

-----------------------------------------------------------------------------
(* The pending list.  rollbackPending resets the counter even when removed *)
(* entries have let published ones slip below the saved length, so ids may *)
(* reach the counter once a strict group is failing; nothing draws an id   *)
(* from it any more.                                                       *)
GroupFailing == worker \in {"relock", "rollback", "abort"}
IdsBounded ==
    Below(pending, next_id) \/ (Durability = "strict" /\ (failed \/ GroupFailing))

LEMMA CallerIds ==
    ASSUME TypeOK, Control, PendingIdsIncrease, IdsBounded,
           NEW c \in Clients, CallerNext(c)
    PROVE  PendingIdsIncrease' /\ IdsBounded'
<1> USE DEF phaseVars, liveVars, queueVars, workerVars, fileVars, boundVars, ghostVars
<1>0. Increasing(pending) /\ pending \in Seq(PendingDirty) /\ next_id \in Nat \ {0}
  BY DEF PendingIdsIncrease, Increasing, TypeOK
<1>1. SUFFICES Increasing(pending') /\ IdsBounded'
  BY DEF PendingIdsIncrease, Increasing
<1>2. failed' = failed /\ (GroupFailing' <=> GroupFailing)
  BY DEF CallerNext, Call, CallBatch, CallCascade, CallAck, Start, AdmitStrict, Enqueue,
         AdmitEventual, AdmitOom, AdmitRefused, Return, AckOk, AckFails, GroupFailing
<1>3. CASE UNCHANGED <<pending, next_id>>
  BY <1>0, <1>2, <1>3 DEF IdsBounded
<1>4. CASE AdmitEventual(c)
  <2> DEFINE r == caller[c].rec
             p == AddPending(facts, pending, next_id, r)
             n == NextId(facts, next_id, r)
  <2>1. r \in Record /\ facts \in Facts
    BY DEF TypeOK
  <2>2. Below(pending, next_id)
    BY <1>4, WalAssumption DEF IdsBounded, AdmitEventual
  <2>3. p \in Seq(PendingDirty) /\ n \in Nat \ {0} /\ Increasing(p) /\ Below(p, n)
    BY <1>0, <2>1, <2>2, AddPendingProperties
  <2>4. pending' = Acknowledge(p, r) /\ next_id' = n
    BY <1>4 DEF AdmitEventual
  <2> HIDE DEF p, n, r
  <2>5. Increasing(pending') /\ Below(pending', next_id')
    BY <2>3, <2>4, AcknowledgeProperties
  <2> QED BY <2>5 DEF IdsBounded, Below
<1>5. CASE Return(c) \/ AckOk(c)
  <2>1. PICK r : pending' = pending \/ pending' = Acknowledge(pending, r)
                 \/ pending' = RemovePending(pending, r.ack)
    BY <1>5 DEF Return, AckOk
  <2>2. Increasing(pending') /\ (Below(pending, next_id) => Below(pending', next_id))
    BY <1>0, <2>1, AcknowledgeProperties, RemovePendingProperties
  <2>3. next_id' = next_id
    BY <1>5 DEF Return, AckOk
  <2> QED BY <1>2, <2>2, <2>3 DEF IdsBounded, Below
<1> QED BY <1>3, <1>4, <1>5
        DEF CallerNext, Call, CallBatch, CallCascade, CallAck, AdmitStrict, AdmitOom,
            AdmitRefused, AckFails

LEMMA WorkerIds ==
    ASSUME TypeOK, Control, PendingIdsIncrease, IdsBounded, WorkerNext
    PROVE  PendingIdsIncrease' /\ IdsBounded'
<1> USE DEF phaseVars, liveVars, queueVars, workerVars, fileVars, boundVars, ghostVars
<1>0. Increasing(pending) /\ pending \in Seq(PendingDirty) /\ next_id \in Nat \ {0}
  BY DEF PendingIdsIncrease, Increasing, TypeOK
<1>1. SUFFICES Increasing(pending') /\ IdsBounded'
  BY DEF PendingIdsIncrease, Increasing
<1>2. CASE Publish
  <2> DEFINE r == group[idx].rec
  <2>1. r \in Record /\ facts \in Facts
    <3>1. group[idx] \in Request
      BY <1>2, ElementOfSeq DEF Publish, TypeOK, Control, IndexInv
    <3> QED BY <3>1 DEF Request, TypeOK
  <2>2. Below(pending, next_id)
    BY <1>2 DEF IdsBounded, Publish, Control, FailedQuiet, GroupFailing
  <2>3. pending' = AddPending(facts, pending, next_id, r) /\ next_id' = NextId(facts, next_id, r)
    BY <1>2 DEF Publish
  <2> HIDE DEF r
  <2>4. Increasing(pending') /\ Below(pending', next_id')
    BY <1>0, <2>1, <2>2, <2>3, AddPendingProperties
  <2> QED BY <2>4 DEF IdsBounded, Below
<1>3. ASSUME NEW from \in {"unpublish", "rollback"}, NEW to \in {"relock", "abort"},
             RollbackLoop(from, to)
      PROVE  Increasing(pending') /\ IdsBounded'
  <2>1. CASE idx > 0
    BY <1>0, <1>3, <2>1 DEF RollbackLoop, IdsBounded, Below, GroupFailing
  <2>2. CASE ~(idx > 0)
    <3>1. pending' = PopPending(pending, saved.len) /\ saved.len \in Nat
      BY <1>3, <2>2 DEF RollbackLoop, TypeOK
    <3>2. Increasing(pending')
      BY <1>0, <3>1, PopPendingProperties
    <3>3. Durability = "strict" /\ GroupFailing'
      BY <1>3, <2>2, WalAssumption DEF RollbackLoop, Control, EventualQuiet, GroupFailing
    <3> QED BY <3>2, <3>3 DEF IdsBounded, GroupFailing
  <2> QED BY <2>1, <2>2
<1>4. CASE Take \/ PublishOom \/ Relock \/ AppendRecord \/ AppendFails \/ SyncGroup
           \/ SyncFails \/ AppendTooLarge \/ Commit \/ Abort \/ WorkerExit
  <2>1. UNCHANGED <<pending, next_id>>
    BY <1>4 DEF Take, PublishOom, Relock, AppendRecord, AppendFails, SyncGroup, SyncFails, AppendTooLarge,
                Commit, Abort, WorkerExit
  <2>2. failed \/ GroupFailing => failed' \/ GroupFailing'
    BY <1>4 DEF Take, PublishOom, Relock, AppendRecord, AppendFails, SyncGroup, SyncFails, AppendTooLarge,
                Commit, Abort, WorkerExit, GroupFailing
  <2> QED BY <1>0, <2>1, <2>2 DEF IdsBounded, Below
<1> QED BY <1>2, <1>3, <1>4 DEF WorkerNext, Unpublish, Rollback

LEMMA OtherIds ==
    ASSUME TypeOK, Control, PendingIdsIncrease, IdsBounded,
           ReplayNext \/ Deinit \/ Reopen \/ Crash
    PROVE  PendingIdsIncrease' /\ IdsBounded'
<1> USE DEF phaseVars, liveVars, queueVars, workerVars, fileVars, boundVars, ghostVars
<1>0. Increasing(pending) /\ pending \in Seq(PendingDirty) /\ next_id \in Nat \ {0}
  BY DEF PendingIdsIncrease, Increasing, TypeOK
<1>1. SUFFICES Increasing(pending') /\ IdsBounded'
  BY DEF PendingIdsIncrease, Increasing
<1>2. CASE ReplayRecord
  <2> DEFINE r == file[pos]
             p == AddPending(facts, pending, next_id, r)
             n == NextId(facts, next_id, r)
  <2>1. r \in Record /\ facts \in Facts
    <3>1. pos \in 1..Len(file)
      BY <1>2, LenProperties DEF ReplayRecord, TypeOK
    <3> QED BY <3>1, ElementOfSeq DEF TypeOK
  <2>2. Below(pending, next_id)
    BY <1>2 DEF IdsBounded, ReplayRecord, Control, ReplayQuiet, GroupFailing
  <2>3. p \in Seq(PendingDirty) /\ n \in Nat \ {0} /\ Increasing(p) /\ Below(p, n)
    BY <1>0, <2>1, <2>2, AddPendingProperties
  <2>4. pending' = Acknowledge(p, r) /\ next_id' = n
    BY <1>2 DEF ReplayRecord
  <2> HIDE DEF p, n, r
  <2>5. Increasing(pending') /\ Below(pending', next_id')
    BY <2>3, <2>4, AcknowledgeProperties
  <2> QED BY <2>5 DEF IdsBounded, Below
<1>3. CASE ReplayDone \/ ReplayTorn \/ ReplayCorrupt \/ Deinit
  <2>1. UNCHANGED <<pending, next_id, failed>> /\ (GroupFailing' <=> GroupFailing)
    BY <1>3 DEF ReplayDone, ReplayTorn, ReplayCorrupt, Recovered, Deinit, GroupFailing
  <2> QED BY <1>0, <2>1 DEF IdsBounded, Below
<1>4. CASE Reopen \/ Crash
  <2>1. pending' = <<>>
    BY <1>4 DEF Reopen, Crash, Restart
  <2>2. Len(pending') = 0
    BY <2>1, EmptySeq
  <2> QED BY <2>2 DEF Increasing, IdsBounded, Below
<1> QED BY <1>2, <1>3, <1>4 DEF ReplayNext

LEMMA IdsInvariant == Spec => [](PendingIdsIncrease /\ IdsBounded)
<1> DEFINE IInv == PendingIdsIncrease /\ IdsBounded
<1>1. Init => IInv
  <2>1. SUFFICES ASSUME Init PROVE IInv
    OBVIOUS
  <2>2. Len(pending) = 0
    BY <2>1, EmptySeq DEF Init
  <2> QED BY <2>2 DEF PendingIdsIncrease, IdsBounded, Below
<1>2. TypeOK /\ Control /\ IInv /\ [Next]_vars => IInv'
  <2>1. SUFFICES ASSUME TypeOK, Control, IInv, [Next]_vars PROVE IInv'
    OBVIOUS
  <2>2. CASE UNCHANGED vars
    BY <2>1, <2>2 DEF vars, liveVars, queueVars, workerVars, PendingIdsIncrease,
                      IdsBounded, Below, GroupFailing
  <2>3. ASSUME NEW c \in Clients, CallerNext(c) PROVE IInv'
    BY <2>1, <2>3, CallerIds
  <2>4. CASE WorkerNext
    BY <2>1, <2>4, WorkerIds
  <2>5. CASE ReplayNext \/ Deinit \/ Reopen \/ Crash
    BY <2>1, <2>5, OtherIds
  <2> QED BY <2>1, <2>2, <2>3, <2>4, <2>5 DEF Next
<1> QED BY <1>1, <1>2, WalTypeOK, PTL DEF Spec

(***************************************************************************)
(* The ids of the pending list strictly increase in every behaviour: an id *)
(* names one entry and nextPendingFor hands work out oldest first, in both *)
(* durability modes, under every fault, through rollback, crash and        *)
(* recovery.                                                               *)
(***************************************************************************)
THEOREM WalPendingIdsIncrease == Spec => []PendingIdsIncrease
BY IdsInvariant, PTL

-----------------------------------------------------------------------------
(* The journal file.  A torn entry is last in the file, and nothing is     *)
(* appended after it before recovery has met it: a crash cut it short      *)
(* (and recovery may have given up on an earlier, oversized record), or    *)
(* the writer failed while writing it and writes no more.  ack alone would *)
(* go on, so this needs whole writes or no calls of ack.                   *)
WholeWritesOrNoAcks == "torn" \notin Faults \/ ~Acks
Halted ==
    \/ phase # "open"
    \/ "torn" \in Faults /\ (failed \/ worker \in {"relock", "rollback", "abort"})
TornLast ==
    \A i \in 1..Len(file) : file[i].kind = "torn" => i = Len(file) /\ Halted
NoAcker == ~Acks => \A c \in Clients : caller[c].pc # "ack"
ReplayedClean ==
    phase = "replay" => \A i \in 1..Len(file) : i < pos => file[i].kind # "torn"
CleanRecords ==
    /\ \A c \in Clients : caller[c].rec.kind # "torn"
    /\ \A i \in 1..Len(requests) : requests[i].rec.kind # "torn"
    /\ \A i \in 1..Len(group) : group[i].rec.kind # "torn"
    /\ \A r \in promised : r.kind # "torn"

(* What the writer has appended of its group is in the file; when it       *)
(* reports the group, fsync has covered all of it.                         *)
GroupWritten ==
    /\ worker = "append" =>
         \A i \in 1..Len(group) : i < idx => \E j \in 1..Len(file) : file[j] = group[i].rec
    /\ worker = "commit" =>
         \A i \in 1..Len(group) : \E j \in 1..synced : file[j] = group[i].rec

FileInv == /\ TornLast /\ NoAcker /\ ReplayedClean /\ CleanRecords
           /\ GroupWritten /\ PromisesSynced

(* The invariant when a step leaves the file and the promises alone.       *)
LEMMA FileKept ==
    ASSUME TypeOK, FileInv, UNCHANGED <<phase, pos, file, synced, promised>>,
           Halted => Halted', NoAcker', CleanRecords', GroupWritten'
    PROVE  FileInv'
BY DEF FileInv, TornLast, ReplayedClean, PromisesSynced, CorruptIsWide

LEMMA FileAppended ==
    ASSUME TypeOK, NEW r \in Record, file' = Append(file, r)
    PROVE  /\ Len(file') = Len(file) + 1
           /\ \A i \in 1..Len(file) : file'[i] = file[i]
           /\ file'[Len(file) + 1] = r
BY AppendProperties DEF TypeOK

LEMMA NewRecordsClean ==
    /\ NoRecord.kind # "torn"
    /\ \A k, t, z : BatchRecord(k, t, z).kind # "torn"
    /\ \A S, t, id, z : CascadeRecord(S, t, id, z).kind # "torn"
    /\ \A id : AckRecord(id).kind # "torn"
BY DEF NoRecord, BatchRecord, CascadeRecord, AckRecord

LEMMA CallerFile ==
    ASSUME WholeWritesOrNoAcks, TypeOK, Control, FileInv, NEW c \in Clients, CallerNext(c)
    PROVE  FileInv'
<1> USE DEF phaseVars, liveVars, queueVars, workerVars, fileVars, boundVars, ghostVars
<1>1. UNCHANGED <<group, idx>> /\ (worker' = worker \/ worker' \notin {"append", "commit"})
  BY DEF CallerNext, Call, CallBatch, CallCascade, CallAck, Start, AdmitStrict, Enqueue,
         AdmitEventual, AdmitOom, AdmitRefused, Return, AckOk, AckFails
<1>a. Halted => Halted'
  BY DEF CallerNext, Call, CallBatch, CallCascade, CallAck, Start, AdmitStrict, Enqueue,
         AdmitEventual, AdmitOom, AdmitRefused, Return, AckOk, AckFails, Halted
<1>b. NoAcker'
  <2>1. CASE CallBatch(c) \/ CallCascade(c)
    <3>1. PICK r : caller' = [caller EXCEPT ![c] = [pc |-> "admit", rec |-> r]]
      BY <2>1 DEF CallBatch, CallCascade, Call
    <3> QED BY <3>1 DEF FileInv, NoAcker, TypeOK
  <2>2. CASE CallAck(c)
    BY <2>2 DEF CallAck, NoAcker
  <2>3. CASE AdmitStrict(c)
    BY <2>3 DEF AdmitStrict, Moved, FileInv, NoAcker, TypeOK
  <2>4. CASE Returned(c)
    BY <2>4 DEF Returned, Idle, FileInv, NoAcker, TypeOK
  <2> QED BY <2>1, <2>2, <2>3, <2>4
          DEF CallerNext, AdmitEventual, AdmitOom, AdmitRefused, Return, AckOk, AckFails
<1>2. \A d \in Clients : caller'[d].rec.kind # "torn"
  <2>1. CASE CallBatch(c) \/ CallCascade(c) \/ CallAck(c)
    <3>1. PICK pc, r : caller' = [caller EXCEPT ![c] = [pc |-> pc, rec |-> r]]
                       /\ r.kind # "torn"
      BY <2>1, NewRecordsClean DEF CallBatch, CallCascade, CallAck, Call
    <3> QED BY <3>1 DEF FileInv, CleanRecords, TypeOK
  <2>2. CASE AdmitStrict(c)
    BY <2>2 DEF AdmitStrict, Moved, FileInv, CleanRecords, TypeOK
  <2>3. CASE Returned(c)
    BY <2>3, NewRecordsClean DEF Returned, Idle, FileInv, CleanRecords, TypeOK
  <2> QED BY <2>1, <2>2, <2>3
          DEF CallerNext, AdmitEventual, AdmitOom, AdmitRefused, Return, AckOk, AckFails
<1>3. \A i \in 1..Len(requests') : requests'[i].rec.kind # "torn"
  <2>1. CASE UNCHANGED requests
    BY <2>1 DEF FileInv, CleanRecords
  <2>2. CASE Enqueue(c)
    <3> DEFINE q == [client |-> c, rec |-> caller[c].rec]
    <3>1. q \in Request
      BY DEF Request, TypeOK
    <3>2. /\ Len(requests') = Len(requests) + 1 /\ Len(requests) \in Nat
          /\ \A i \in 1..Len(requests) : requests'[i] = requests[i]
          /\ requests'[Len(requests) + 1] = q
      BY <2>2, <3>1, AppendProperties, LenProperties DEF Enqueue, TypeOK
    <3>3. q.rec.kind # "torn"
      BY DEF FileInv, CleanRecords
    <3>4. ASSUME NEW i \in 1..Len(requests') PROVE requests'[i].rec.kind # "torn"
      <4>1. CASE i \in 1..Len(requests)
        BY <3>2, <4>1 DEF FileInv, CleanRecords
      <4>2. CASE i = Len(requests) + 1
        BY <3>2, <3>3, <4>2
      <4> QED BY <3>2, <4>1, <4>2
    <3> QED BY <3>4
  <2> QED BY <2>1, <2>2
          DEF CallerNext, Call, CallBatch, CallCascade, CallAck, AdmitStrict, AdmitEventual,
              AdmitOom, AdmitRefused, Return, AckOk, AckFails
<1>4. CASE UNCHANGED <<phase, pos, file, synced, promised>>
  <2>1. CleanRecords'
    BY <1>1, <1>2, <1>3, <1>4 DEF FileInv, CleanRecords
  <2>2. GroupWritten'
    BY <1>1, <1>4 DEF FileInv, GroupWritten
  <2> QED BY <1>a, <1>b, <1>4, <2>1, <2>2, FileKept
<1>c. AckReady(c) => "torn" \notin Faults
  BY DEF AckReady, WholeWritesOrNoAcks, FileInv, NoAcker
<1>5. ASSUME AckReady(c), file' = Append(file, caller[c].rec),
             UNCHANGED <<phase, pos, worker>>,
             \/ UNCHANGED <<synced, promised>>
             \/ synced' = Len(file) + 1 /\ promised' = promised \union {caller[c].rec}
      PROVE  FileInv'
  <2> DEFINE r == caller[c].rec
  <2>1. r \in Record /\ r.kind # "torn" /\ Len(file) \in Nat /\ synced \in 0..Len(file)
    BY LenProperties DEF FileInv, CleanRecords, TypeOK
  <2>2. /\ Len(file') = Len(file) + 1
        /\ \A i \in 1..Len(file) : file'[i] = file[i]
        /\ file'[Len(file) + 1] = r
    BY <1>5, <2>1, FileAppended
  <2>3. phase = "open" /\ ~Writing
    BY <1>5 DEF AckReady, Control, ReplayQuiet
  <2> HIDE DEF r
  <2>4. TornLast'
    <3>1. ASSUME NEW i \in 1..Len(file') PROVE file'[i].kind # "torn"
      <4>1. CASE i \in 1..Len(file)
        BY <1>c, <1>5, <2>2, <2>3, <4>1 DEF FileInv, TornLast, Halted
      <4>2. CASE i = Len(file) + 1
        BY <2>1, <2>2, <4>2
      <4> QED BY <2>1, <2>2, <4>1, <4>2
    <3> QED BY <3>1 DEF TornLast
  <2>5. ReplayedClean' /\ GroupWritten'
    BY <1>5, <2>3 DEF ReplayedClean, GroupWritten, Writing
  <2>6. CleanRecords'
    BY <1>1, <1>2, <1>3, <1>5, <2>1 DEF FileInv, CleanRecords, r
  <2>7. PromisesSynced'
    <3>1. ASSUME NEW q \in promised PROVE \E i \in 1..synced' : file'[i] = q
      <4>1. PICK i \in 1..synced : file[i] = q
        BY DEF FileInv, PromisesSynced, CorruptIsWide
      <4>2. i \in 1..synced' /\ i \in 1..Len(file)
        BY <1>5, <2>1
      <4> QED BY <2>2, <4>1, <4>2
    <3>2. promised' # promised => \E i \in 1..synced' : file'[i] = r
      BY <1>5, <2>1, <2>2
    <3> QED BY <1>5, <2>3, <3>1, <3>2 DEF PromisesSynced, CorruptIsWide, r
  <2> QED BY <1>b, <2>4, <2>5, <2>6, <2>7 DEF FileInv
<1>6. CASE AckOk(c)
  BY <1>5, <1>6 DEF AckOk
<1>7. CASE AckFails(c)
  <2>1. CASE \E debris \in WriteDebris : file' = file \o debris
    <3>1. file' = file \o <<>>
      BY <1>c, <1>7, <2>1, DebrisType DEF AckFails
    <3>2. file' = file
      BY <3>1, ConcatEmptySeq DEF TypeOK
    <3> QED BY <1>4, <1>7, <3>2 DEF AckFails
  <2>2. CASE file' = Append(file, caller[c].rec)
    BY <1>5, <1>7, <2>2 DEF AckFails
  <2> QED BY <1>7, <2>1, <2>2 DEF AckFails
<1> QED BY <1>4, <1>6, <1>7
        DEF CallerNext, Call, CallBatch, CallCascade, CallAck, AdmitStrict, AdmitEventual,
            Enqueue, AdmitOom, AdmitRefused, Return

LEMMA WorkerFile ==
    ASSUME WholeWritesOrNoAcks, TypeOK, Control, FileInv, WorkerNext
    PROVE  FileInv'
<1> USE DEF phaseVars, liveVars, queueVars, workerVars, fileVars, boundVars, ghostVars
<1>1. CASE Take \/ Publish \/ PublishOom \/ Unpublish \/ Relock \/ Rollback \/ WorkerExit
  <2>1. UNCHANGED <<phase, pos, file, synced, promised>> /\ caller' = caller
    BY <1>1 DEF Take, Publish, PublishOom, Unpublish, Relock, Rollback, RollbackLoop, WorkerExit
  <2>2. CleanRecords'
    <3>1. CASE Take
      <4>1. \A i \in 1..Len(group') : group'[i].rec.kind # "torn"
        BY <3>1 DEF Take, FileInv, CleanRecords
      <4>2. Len(requests') = 0
        BY <3>1, EmptySeq DEF Take
      <4> QED BY <2>1, <4>1, <4>2 DEF FileInv, CleanRecords
    <3>2. CASE ~Take
      BY <1>1, <2>1, <3>2 DEF Publish, PublishOom, Unpublish, Relock, Rollback, RollbackLoop,
                              WorkerExit, FileInv, CleanRecords
    <3> QED BY <3>1, <3>2
  <2>3. worker' \in {"append", "commit"} => worker' = "append" /\ idx' = 1
    BY <1>1 DEF Take, Publish, PublishOom, Unpublish, Relock, Rollback, RollbackLoop, WorkerExit
  <2>4. GroupWritten'
    BY <2>3 DEF GroupWritten
  <2>5. NoAcker'
    BY <2>1 DEF FileInv, NoAcker
  <2>6. Halted => Halted'
    BY <1>1 DEF Take, Publish, PublishOom, Unpublish, Relock, Rollback, RollbackLoop,
                WorkerExit, Halted
  <2> QED BY <2>1, <2>2, <2>4, <2>5, <2>6, FileKept
<1>2. CASE AppendRecord
  <2> DEFINE r == group[idx].rec
  <2>1. r \in Record /\ r.kind # "torn"
    <3>1. idx \in 1..Len(group)
      BY <1>2, LenProperties DEF AppendRecord, Control, IndexInv, TypeOK
    <3>2. group[idx] \in Request
      BY <3>1, ElementOfSeq DEF TypeOK
    <3> QED BY <3>1, <3>2 DEF Request, FileInv, CleanRecords
  <2>2. /\ Len(file') = Len(file) + 1
        /\ \A i \in 1..Len(file) : file'[i] = file[i]
        /\ file'[Len(file) + 1] = r
    BY <1>2, <2>1, FileAppended DEF AppendRecord
  <2>3. phase = "open" /\ ~Halted /\ Len(file) \in Nat /\ idx \in Nat
    BY <1>2, LenProperties DEF AppendRecord, Control, ReplayQuiet, FailedQuiet, Halted, TypeOK
  <2> HIDE DEF r
  <2>4. TornLast'
    <3>1. ASSUME NEW i \in 1..Len(file') PROVE file'[i].kind # "torn"
      <4>1. CASE i \in 1..Len(file)
        BY <2>2, <2>3, <4>1 DEF FileInv, TornLast
      <4>2. CASE i = Len(file) + 1
        BY <2>1, <2>2, <4>2
      <4> QED BY <2>2, <2>3, <4>1, <4>2
    <3> QED BY <3>1 DEF TornLast
  <2>5. ReplayedClean' /\ CleanRecords' /\ NoAcker'
    BY <1>2, <2>3 DEF AppendRecord, FileInv, ReplayedClean, CleanRecords, NoAcker
  <2>6. GroupWritten'
    <3>1. ASSUME NEW i \in 1..Len(group), i < idx + 1
          PROVE  \E j \in 1..Len(file') : file'[j] = group[i].rec
      <4>1. CASE i < idx
        <5>1. PICK j \in 1..Len(file) : file[j] = group[i].rec
          BY <1>2, <4>1 DEF AppendRecord, FileInv, GroupWritten
        <5>2. j \in 1..Len(file') /\ file'[j] = group[i].rec
          BY <2>2, <2>3, <5>1
        <5> QED BY <5>2
      <4>2. CASE i = idx
        BY <2>2, <2>3, <4>2 DEF r
      <4> QED BY <2>3, <3>1, <4>1, <4>2
    <3> QED BY <1>2, <3>1 DEF AppendRecord, GroupWritten
  <2>7. PromisesSynced'
    BY <1>2, <2>2, <2>3 DEF AppendRecord, FileInv, PromisesSynced, CorruptIsWide, TypeOK
  <2> QED BY <2>4, <2>5, <2>6, <2>7 DEF FileInv
<1>3. CASE AppendFails \/ SyncFails \/ AppendTooLarge
  <2>1. /\ UNCHANGED <<phase, pos, synced, promised, requests, group, caller>>
        /\ worker' = "relock" /\ worker = "append"
    BY <1>3 DEF AppendFails, SyncFails, AppendTooLarge, AttemptFails
  <2>2. phase = "open" /\ ~Halted /\ Len(file) \in Nat /\ synced \in 0..Len(file)
    BY <2>1, LenProperties DEF Control, ReplayQuiet, FailedQuiet, Halted, TypeOK
  <2>3. CleanRecords' /\ GroupWritten' /\ NoAcker' /\ ReplayedClean'
    BY <2>1, <2>2 DEF FileInv, CleanRecords, GroupWritten, NoAcker, ReplayedClean
  <2>4. CASE file' = file
    BY <2>1, <2>2, <2>3, <2>4, FileKept
  <2>5. CASE "torn" \in Faults /\ file' = file \o <<Torn>>
    <3>1. file' = Append(file, Torn)
      BY <2>5, AppendIsConcat, RecordTypes DEF TypeOK
    <3>2. /\ Len(file') = Len(file) + 1
          /\ \A i \in 1..Len(file) : file'[i] = file[i]
      BY <3>1, RecordTypes, FileAppended
    <3>3. TornLast'
      <4>1. Halted'
        BY <2>1, <2>5 DEF Halted
      <4>2. ASSUME NEW i \in 1..Len(file'), file'[i].kind = "torn" PROVE i = Len(file')
        BY <2>2, <3>2, <4>2 DEF FileInv, TornLast
      <4> QED BY <4>1, <4>2 DEF TornLast
    <3>4. PromisesSynced'
      BY <2>1, <2>2, <3>2 DEF FileInv, PromisesSynced, CorruptIsWide
    <3> QED BY <2>3, <3>3, <3>4 DEF FileInv
  <2>6. file' = file \/ ("torn" \in Faults /\ file' = file \o <<Torn>>)
    <3>1. CASE AppendFails
      <4>1. PICK debris \in WriteDebris : file' = file \o debris
        BY <3>1 DEF AppendFails
      <4>2. debris = <<>> \/ ("torn" \in Faults /\ debris = <<Torn>>)
        BY DEF WriteDebris
      <4> QED BY <4>1, <4>2, ConcatEmptySeq DEF TypeOK
    <3>2. CASE SyncFails \/ AppendTooLarge
      BY <3>2 DEF SyncFails, AppendTooLarge
    <3> QED BY <1>3, <3>1, <3>2
  <2> QED BY <2>4, <2>5, <2>6
<1>4. CASE SyncGroup
  <2>1. UNCHANGED <<phase, pos, file, promised, requests, group, caller>>
    BY <1>4 DEF SyncGroup
  <2>2. Len(file) \in Nat /\ synced \in 0..Len(file) /\ synced' = Len(file)
    BY <1>4, LenProperties DEF SyncGroup, TypeOK
  <2>3. GroupWritten'
    <3>1. \A i \in 1..Len(group) : i < idx
      BY <1>4, LenProperties DEF SyncGroup, TypeOK
    <3> QED BY <1>4, <3>1 DEF SyncGroup, FileInv, GroupWritten
  <2>4. PromisesSynced'
    BY <2>1, <2>2 DEF FileInv, PromisesSynced, CorruptIsWide
  <2>5. ~Halted
    BY <1>4 DEF SyncGroup, Control, ReplayQuiet, FailedQuiet, Halted
  <2> QED BY <2>1, <2>3, <2>4, <2>5
          DEF FileInv, TornLast, NoAcker, ReplayedClean, CleanRecords
<1>5. CASE Commit
  <2>1. UNCHANGED <<phase, pos, file, synced, requests>>
    BY <1>5 DEF Commit
  <2>2. \A r \in promised' : r \in promised \/ \E i \in 1..Len(group) : r = group[i].rec
    BY <1>5 DEF Commit
  <2>3. PromisesSynced'
    BY <1>5, <2>1, <2>2 DEF Commit, FileInv, PromisesSynced, CorruptIsWide, GroupWritten
  <2>4. CleanRecords'
    <3>1. \A c \in Clients : caller'[c].rec = caller[c].rec
      BY <1>5 DEF Commit, Signal, TypeOK
    <3>2. Len(group') = 0
      BY <1>5, EmptySeq DEF Commit
    <3> QED BY <2>1, <2>2, <3>1, <3>2 DEF FileInv, CleanRecords
  <2>5. GroupWritten'
    BY <1>5 DEF Commit, GroupWritten
  <2>6. NoAcker' /\ ~Halted
    BY <1>5 DEF Commit, Signal, Waiting, FileInv, NoAcker, Control, ReplayQuiet, FailedQuiet,
                Halted, TypeOK
  <2> QED BY <2>1, <2>3, <2>4, <2>5, <2>6 DEF FileInv, TornLast, ReplayedClean
<1>6. CASE Abort
  <2>1. UNCHANGED <<phase, pos, file, synced, promised>>
    BY <1>6 DEF Abort
  <2>2. CleanRecords'
    <3>1. \A c \in Clients : caller'[c].rec = caller[c].rec
      BY <1>6 DEF Abort, Signal, TypeOK
    <3>2. Len(group') = 0 /\ Len(requests') = 0
      BY <1>6, EmptySeq DEF Abort
    <3> QED BY <2>1, <3>1, <3>2 DEF FileInv, CleanRecords
  <2>3. GroupWritten'
    BY <1>6 DEF Abort, GroupWritten
  <2>4. NoAcker'
    BY <1>6 DEF Abort, Signal, FileInv, NoAcker, TypeOK
  <2>5. Halted => Halted'
    BY <1>6 DEF Abort, Halted
  <2> QED BY <2>1, <2>2, <2>3, <2>4, <2>5, FileKept
<1> QED BY <1>1, <1>2, <1>3, <1>4, <1>5, <1>6 DEF WorkerNext

(* Recovery and restarts: the promises lie in the part a crash keeps.      *)
LEMMA OtherFile ==
    ASSUME WholeWritesOrNoAcks, TypeOK, Control, FileInv,
           ReplayNext \/ Deinit \/ Reopen \/ Crash
    PROVE  FileInv'
<1> USE DEF phaseVars, liveVars, queueVars, workerVars, fileVars, boundVars, ghostVars
<1>0. Len(file) \in Nat /\ synced \in 0..Len(file) /\ pos \in Nat \ {0}
  BY LenProperties DEF TypeOK
<1>1. CASE ReplayRecord
  <2>1. UNCHANGED <<phase, file, synced, promised, caller, requests, group, worker, idx>>
    BY <1>1 DEF ReplayRecord
  <2>2. ReplayedClean'
    BY <1>0, <1>1 DEF ReplayRecord, FileInv, ReplayedClean
  <2> QED BY <1>1, <2>1, <2>2 DEF ReplayRecord, FileInv, TornLast, Halted, NoAcker,
                                  CleanRecords, GroupWritten, PromisesSynced, CorruptIsWide
<1>2. CASE ReplayDone \/ ReplayTorn
  <2>1. /\ phase' = "open" /\ promised' = promised \union {file'[i] : i \in 1..synced'}
        /\ UNCHANGED <<caller, requests, group>> /\ worker' = "none"
    BY <1>2 DEF ReplayDone, ReplayTorn, Recovered, Control, ReplayQuiet
  <2>2. /\ Len(file') \in Nat /\ Len(file') <= Len(file) /\ synced' \in 0..Len(file')
        /\ \A i \in 1..Len(file') : file'[i] = file[i] /\ file[i].kind # "torn"
    <3>1. CASE ReplayDone
      BY <1>0, <3>1 DEF ReplayDone, FileInv, ReplayedClean
    <3>2. CASE ReplayTorn
      <4>1. pos - 1 \in 0..Len(file) /\ file' = SubSeq(file, 1, pos - 1)
        BY <1>0, <3>2 DEF ReplayTorn
      <4>2. Len(file') = pos - 1 /\ \A i \in 1..(pos - 1) : file'[i] = file[i]
        BY <4>1, PrefixProperties DEF TypeOK
      <4>3. \A i \in 1..(pos - 1) : file[i].kind # "torn"
        BY <1>0, <3>2, <4>1 DEF ReplayTorn, FileInv, ReplayedClean
      <4> QED BY <1>0, <3>2, <4>1, <4>2, <4>3 DEF ReplayTorn
    <3> QED BY <1>2, <3>1, <3>2
  <2>3. ASSUME NEW q \in promised PROVE \E i \in 1..synced' : file'[i] = q
    <3>1. PICK i \in 1..synced : file[i] = q
      BY DEF FileInv, PromisesSynced, CorruptIsWide
    <3>2. CASE ReplayDone
      BY <3>1, <3>2 DEF ReplayDone
    <3>3. CASE ReplayTorn
      <4>1. file[pos].kind = "torn" /\ pos \in 1..Len(file)
        BY <1>0, <3>3 DEF ReplayTorn
      <4>2. pos = Len(file)
        BY <4>1 DEF FileInv, TornLast
      <4>3. q.kind # "torn"
        BY DEF FileInv, CleanRecords
      <4>4. i # pos
        BY <3>1, <4>1, <4>3
      <4>5. i \in 1..synced' /\ i \in 1..(pos - 1)
        BY <1>0, <3>1, <3>3, <4>2, <4>4 DEF ReplayTorn
      <4>6. file'[i] = file[i]
        BY <1>0, <2>2, <3>3, <4>5, PrefixProperties DEF ReplayTorn, TypeOK
      <4> QED BY <3>1, <4>5, <4>6
    <3> QED BY <1>2, <3>2, <3>3
  <2>4. PromisesSynced'
    BY <2>1, <2>3 DEF PromisesSynced, CorruptIsWide
  <2>5. CleanRecords'
    <3>1. \A r \in promised' : r.kind # "torn"
      BY <2>1, <2>2 DEF FileInv, CleanRecords
    <3> QED BY <2>1, <3>1 DEF FileInv, CleanRecords
  <2>6. TornLast' /\ NoAcker' /\ ReplayedClean' /\ GroupWritten'
    BY <2>1, <2>2 DEF FileInv, TornLast, NoAcker, ReplayedClean, GroupWritten
  <2> QED BY <2>4, <2>5, <2>6 DEF FileInv
<1>3. CASE ReplayCorrupt
  <2>1. /\ UNCHANGED <<file, synced, promised, caller, requests, group, worker, idx>>
        /\ phase' = "corrupt" /\ pos \in 1..Len(file)
    BY <1>0, <1>3 DEF ReplayCorrupt
  <2>2. ReadRefused(file[pos])
    BY <1>0, <1>3, <2>1 DEF ReplayCorrupt, FileInv, TornLast
  <2>3. PromisesSynced'
    BY <2>1, <2>2 DEF FileInv, PromisesSynced, CorruptIsWide
  <2> QED BY <2>1, <2>3 DEF FileInv, TornLast, Halted, NoAcker, ReplayedClean, CleanRecords,
                            GroupWritten
<1>4. CASE Deinit
  BY <1>4 DEF Deinit, FileInv, TornLast, Halted, NoAcker, ReplayedClean, CleanRecords,
              GroupWritten, PromisesSynced, CorruptIsWide
<1>5. CASE Reopen \/ Crash
  <2>1. /\ phase' = "replay" /\ pos' = 1 /\ worker' = "none" /\ promised' = promised
        /\ requests' = <<>> /\ group' = <<>>
        /\ caller' = [c \in Clients |-> Idle]
    BY <1>5 DEF Reopen, Crash, Restart
  <2>2. CleanRecords'
    <3>1. Len(requests') = 0 /\ Len(group') = 0
      BY <2>1, EmptySeq
    <3>2. \A c \in Clients : caller'[c].rec.kind # "torn"
      BY <2>1, NewRecordsClean DEF Idle
    <3> QED BY <2>1, <3>1, <3>2 DEF FileInv, CleanRecords
  <2>3. /\ Len(file') \in Nat /\ synced' <= Len(file') /\ synced <= synced' /\ synced' \in Nat
        /\ \A i \in 1..synced : file'[i] = file[i]
        /\ \A i \in 1..Len(file') : file'[i].kind = "torn" => i = Len(file')
    <3>1. CASE Reopen
      BY <1>0, <3>1 DEF Reopen, FileInv, TornLast
    <3>2. CASE Crash
      <4>1. PICK n \in synced..Len(file) :
               \/ file' = SubSeq(file, 1, n)
               \/ n < Len(file) /\ file' = Append(SubSeq(file, 1, n), Torn)
        BY <3>2 DEF Crash
      <4> DEFINE s == SubSeq(file, 1, n)
      <4>2. /\ n \in Nat /\ s \in Seq(Record) /\ Len(s) = n
            /\ \A i \in 1..n : s[i] = file[i]
        BY <1>0, PrefixProperties DEF TypeOK
      <4> HIDE DEF s
      <4>3. \A i \in 1..n : s[i].kind = "torn" => i = n
        BY <1>0, <4>2 DEF FileInv, TornLast
      <4>4. synced' = Len(file')
        BY <3>2 DEF Crash
      <4>5. CASE file' = s
        BY <1>0, <4>2, <4>3, <4>4, <4>5
      <4>6. CASE n < Len(file) /\ file' = Append(s, Torn)
        <5>1. /\ Len(file') = n + 1 /\ file'[n + 1] = Torn
              /\ \A i \in 1..n : file'[i] = s[i]
          BY <4>2, <4>6, RecordTypes, AppendProperties
        <5>2. \A i \in 1..n : s[i].kind # "torn"
          BY <1>0, <4>2, <4>6 DEF FileInv, TornLast
        <5> QED BY <1>0, <4>2, <4>4, <5>1, <5>2
      <4> QED BY <4>1, <4>5, <4>6 DEF s
    <3> QED BY <1>5, <3>1, <3>2
  <2>4. PromisesSynced'
    <3>1. ASSUME NEW q \in promised PROVE \E i \in 1..synced' : file'[i] = q
      <4>1. PICK i \in 1..synced : file[i] = q
        BY DEF FileInv, PromisesSynced, CorruptIsWide
      <4> QED BY <1>0, <2>3, <4>1
    <3> QED BY <2>1, <3>1 DEF PromisesSynced, CorruptIsWide
  <2>5. TornLast' /\ NoAcker' /\ ReplayedClean' /\ GroupWritten'
    BY <2>1, <2>3 DEF TornLast, Halted, NoAcker, ReplayedClean, GroupWritten, Idle
  <2> QED BY <2>2, <2>4, <2>5 DEF FileInv
<1> QED BY <1>1, <1>2, <1>3, <1>4, <1>5 DEF ReplayNext

LEMMA FileInvariant ==
    ASSUME WholeWritesOrNoAcks
    PROVE  Spec => []FileInv
<1>1. Init => FileInv
  <2>1. SUFFICES ASSUME Init PROVE FileInv
    OBVIOUS
  <2>2. Len(file) = 0 /\ Len(requests) = 0 /\ Len(group) = 0
    BY <2>1, EmptySeq DEF Init
  <2>3. \A c \in Clients : caller[c].rec.kind # "torn"
    BY <2>1, NewRecordsClean DEF Init, Idle
  <2> QED BY <2>1, <2>2, <2>3 DEF Init, Idle, FileInv, TornLast, NoAcker, ReplayedClean,
                                  CleanRecords, GroupWritten, PromisesSynced, CorruptIsWide
<1>2. TypeOK /\ Control /\ FileInv /\ [Next]_vars => FileInv'
  <2>1. SUFFICES ASSUME TypeOK, Control, FileInv, [Next]_vars PROVE FileInv'
    OBVIOUS
  <2>2. CASE UNCHANGED vars
    BY <2>1, <2>2 DEF vars, phaseVars, queueVars, workerVars, fileVars, ghostVars, FileInv,
                      TornLast, Halted, NoAcker, ReplayedClean, CleanRecords, GroupWritten, PromisesSynced, CorruptIsWide
  <2>3. ASSUME NEW c \in Clients, CallerNext(c) PROVE FileInv'
    BY <2>1, <2>3, CallerFile
  <2>4. CASE WorkerNext
    BY <2>1, <2>4, WorkerFile
  <2>5. CASE ReplayNext \/ Deinit \/ Reopen \/ Crash
    BY <2>1, <2>5, OtherFile
  <2> QED BY <2>1, <2>2, <2>3, <2>4, <2>5 DEF Next
<1> QED BY <1>1, <1>2, WalTypeOK, PTL DEF Spec

(***************************************************************************)
(* Every record the WAL reported durable stays in the synced part of the   *)
(* journal for ever, in every behaviour: through failed and partial        *)
(* writes, failed syncs, records too large to write, any number of crashes *)
(* that cut the file, and the tail truncation of recover().  And recover() *)
(* fails over nothing but a record with a field above MaxFieldSize, which  *)
(* the WAL writes and reports like any other.  With calls of ack, which    *)
(* goes on writing after a failure, writes must be whole.                  *)
(***************************************************************************)
THEOREM WalPromisesSynced ==
    ASSUME WholeWritesOrNoAcks
    PROVE  Spec => []PromisesSynced
<1>1. FileInv => PromisesSynced
  BY DEF FileInv
<1> QED BY <1>1, FileInvariant, PTL
=============================================================================
