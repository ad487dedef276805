--------------------------- MODULE WalQueueProofs ---------------------------
(***************************************************************************)
(* Theorems about what the write-ahead log holds for its callers: the      *)
(* queue, the writer's group and the journal, in which every admitted      *)
(* record is somewhere and in order.                                       *)
(***************************************************************************)
EXTENDS WalProofs, WalRefinement

-----------------------------------------------------------------------------
(* Who is in the log when.                                                 *)

InGroup(c) ==
    \E i \in 1..Len(group) : group[i].client = c /\ group[i].rec = caller[c].rec
InRequests(c) ==
    \E i \in 1..Len(requests) : requests[i].client = c /\ requests[i].rec = caller[c].rec

Polling == \A c \in Clients : caller[c].pc = "wait" => InGroup(c) \/ InRequests(c)

(* Only a writer at work holds a group.                                    *)
GroupIdle == worker \in {"none", "idle", "exited"} => group = <<>>

(* A writer that was never started has nothing to do, and one that has     *)
(* exited was asked to and left nothing behind.                            *)
Unstarted ==
    worker = "none" => requests = <<>> /\ \A c \in Clients : caller[c].pc # "admit"
Exited == worker = "exited" => stopping /\ requests = <<>>
StopQuiet == stopping => \A c \in Clients : caller[c].pc = "idle"

QueueInv == Polling /\ GroupIdle /\ Unstarted /\ Exited /\ StopQuiet

(* Admission puts the record last in the queue and last in the history.    *)
LEMMA Enqueued ==
    ASSUME TypeOK, NEW c \in Clients, Enqueue(c)
    PROVE  /\ Len(requests) \in Nat /\ Len(history) \in Nat
           /\ Len(requests') = Len(requests) + 1
           /\ \A i \in 1..Len(requests) : requests'[i] = requests[i]
           /\ requests'[Len(requests) + 1].client = c
           /\ requests'[Len(requests) + 1].rec = caller[c].rec
           /\ Len(history') = Len(history) + 1
           /\ \A i \in 1..Len(history) : history'[i] = history[i]
           /\ history'[Len(history) + 1] = caller[c].rec
<1>1. [client |-> c, rec |-> caller[c].rec] \in Request /\ caller[c].rec \in Record
  BY DEF TypeOK, Request
<1> QED BY <1>1, AppendProperties, LenProperties DEF TypeOK, Enqueue

(* What a step of a caller leaves alone.                                   *)
LEMMA CallerFrame ==
    ASSUME TypeOK, Control, NEW c \in Clients, CallerNext(c)
    PROVE  /\ phase = "open" /\ phase' = "open"
           /\ UNCHANGED <<group, idx, undo, saved, failed, stopping, before, restarts>>
           /\ worker' = worker \/ (worker = "none" /\ worker' = "idle")
           /\ \A d \in Clients : d # c => caller'[d] = caller[d]
           /\ caller[c].pc # "idle" \/ ~stopping
<1> USE DEF phaseVars, liveVars, queueVars, workerVars, fileVars, boundVars, ghostVars
<1>1. /\ UNCHANGED <<phase, group, idx, undo, saved, failed, stopping, before, restarts>>
      /\ worker' = worker \/ (worker = "none" /\ worker' = "idle")
  BY DEF CallerNext, Call, CallBatch, CallCascade, CallAck, Start, AdmitStrict,
         AdmitEventual, AdmitOom, AdmitRefused, Enqueue, Return, AckOk, AckFails
<1>2. caller[c].pc # "idle" \/ (phase = "open" /\ ~stopping)
  BY DEF CallerNext, Call, CallBatch, CallCascade, CallAck, AdmitStrict, Admissible,
         AdmitEventual, AdmitOom, AdmitRefused, Return, AckReady, AckOk, AckFails
<1>3. phase = "open"
  BY <1>2 DEF Control, ReplayQuiet
<1>4. \E e : caller' = [caller EXCEPT ![c] = e]
  <2>1. CASE AdmitStrict(c)
    BY <2>1 DEF AdmitStrict, Moved
  <2>2. CASE Returned(c)
    BY <2>2 DEF Returned
  <2> QED BY <2>1, <2>2 DEF CallerNext, Call, CallBatch, CallCascade, CallAck,
         AdmitEventual, AdmitOom, AdmitRefused, Return, AckOk, AckFails
<1>5. \A d \in Clients : d # c => caller'[d] = caller[d]
  BY <1>4 DEF TypeOK
<1> QED BY <1>1, <1>2, <1>3, <1>5

LEMMA CallerQueue ==
    ASSUME TypeOK, Control, QueueInv, NEW c \in Clients, CallerNext(c)
    PROVE  QueueInv'
<1> USE DEF phaseVars, liveVars, queueVars, workerVars, fileVars, boundVars, ghostVars
<1>0. /\ group' = group /\ stopping' = stopping
      /\ worker' = worker \/ (worker = "none" /\ worker' = "idle")
      /\ \A d \in Clients : d # c => caller'[d] = caller[d]
      /\ ~stopping
  BY CallerFrame DEF QueueInv, StopQuiet
<1>1. \/ UNCHANGED requests
      \/ Enqueue(c) /\ caller[c].pc = "admit"
  BY DEF CallerNext, Call, CallBatch, CallCascade, CallAck, AdmitStrict, Admissible,
         AdmitEventual, AdmitOom, AdmitRefused, Return, AckOk, AckFails
<1>2. ASSUME NEW d \in Clients, d # c, InGroup(d) \/ InRequests(d)
      PROVE  InGroup(d)' \/ InRequests(d)'
  <2>1. caller'[d] = caller[d]
    BY <1>0, <1>2
  <2>2. CASE UNCHANGED requests
    BY <1>0, <1>2, <2>1, <2>2 DEF InGroup, InRequests
  <2>3. CASE Enqueue(c)
    BY <1>0, <1>2, <2>1, <2>3, Enqueued DEF InGroup, InRequests
  <2> QED BY <1>1, <2>2, <2>3
<1>3. caller'[c].pc = "wait" => InGroup(c)' \/ InRequests(c)'
  <2>1. CASE AdmitStrict(c)
    <3>1. caller'[c].rec = caller[c].rec
      BY <2>1 DEF AdmitStrict, Moved, TypeOK
    <3>2. Enqueue(c)
      BY <2>1 DEF AdmitStrict
    <3>3. /\ Len(requests) + 1 \in 1..Len(requests')
          /\ requests'[Len(requests) + 1].client = c
          /\ requests'[Len(requests) + 1].rec = caller[c].rec
      BY <3>2, Enqueued
    <3> QED BY <3>1, <3>3 DEF InRequests
  <2>2. CASE CallBatch(c) \/ CallCascade(c) \/ CallAck(c)
    <3>1. PICK r, pc : pc # "wait" /\ caller' = [caller EXCEPT ![c] = [pc |-> pc, rec |-> r]]
      BY <2>2 DEF CallBatch, CallCascade, CallAck, Call
    <3> QED BY <3>1 DEF TypeOK
  <2>3. CASE Returned(c)
    BY <2>3 DEF Returned, Idle, TypeOK
  <2> QED BY <2>1, <2>2, <2>3 DEF CallerNext, AdmitEventual, AdmitOom, AdmitRefused,
                                  Return, AckOk, AckFails
<1>4. Polling'
  BY <1>0, <1>2, <1>3 DEF QueueInv, Polling
<1>5. GroupIdle' /\ Exited' /\ StopQuiet'
  BY <1>0, <1>1 DEF QueueInv, GroupIdle, Exited, StopQuiet
<1>6. Unstarted'
  <2>1. CASE CallBatch(c) \/ CallCascade(c)
    BY <2>1 DEF CallBatch, CallCascade, Start, Unstarted
  <2>2. CASE CallAck(c)
    <3>1. PICK r : caller' = [caller EXCEPT ![c] = [pc |-> "ack", rec |-> r]] /\ UNCHANGED requests
      BY <2>2 DEF CallAck, Call
    <3> QED BY <1>0, <3>1 DEF QueueInv, Unstarted, TypeOK
  <2>3. CASE Returned(c)
    <3>1. caller'[c].pc = "idle"
      BY <2>3 DEF Returned, Idle, TypeOK
    <3> QED BY <1>0, <1>1, <3>1 DEF QueueInv, Unstarted
  <2>4. CASE AdmitStrict(c)
    BY <1>0, <2>4 DEF AdmitStrict, Admissible, QueueInv, Unstarted
  <2> QED BY <2>1, <2>2, <2>3, <2>4 DEF CallerNext, AdmitEventual, AdmitOom, AdmitRefused,
                                        Return, AckOk, AckFails
<1> QED BY <1>4, <1>5, <1>6 DEF QueueInv

LEMMA WorkerQueue ==
    ASSUME TypeOK, Control, QueueInv, WorkerNext
    PROVE  QueueInv'
<1> USE DEF phaseVars, liveVars, queueVars, workerVars, fileVars, boundVars, ghostVars
<1>1. CASE Take
  <2>1. group = <<>> /\ group' = requests /\ requests' = <<>> /\ caller' = caller
        /\ worker = "idle" /\ worker' \in {"publish", "append"} /\ stopping' = stopping
    BY <1>1 DEF Take, QueueInv, GroupIdle
  <2>2. Len(group) = 0
    BY <2>1, EmptySeq
  <2>3. Polling'
    BY <2>1, <2>2 DEF QueueInv, Polling, InGroup, InRequests
  <2> QED BY <2>1, <2>3 DEF QueueInv, GroupIdle, Unstarted, Exited, StopQuiet
<1>2. CASE \/ Publish \/ PublishOom \/ Unpublish \/ Relock \/ Rollback
           \/ AppendRecord \/ AppendFails \/ SyncGroup \/ SyncFails \/ AppendTooLarge
  <2>1. UNCHANGED <<group, requests, caller, stopping>>
        /\ worker' \notin {"none", "idle", "exited"}
    BY <1>2 DEF Publish, PublishOom, Unpublish, Relock, Rollback, RollbackLoop, AppendRecord,
                AppendFails, AttemptFails, SyncGroup, SyncFails, AppendTooLarge
  <2> QED BY <2>1 DEF QueueInv, Polling, InGroup, InRequests, GroupIdle, Unstarted,
                      Exited, StopQuiet
<1>3. CASE Commit \/ Abort
  <2>1. /\ worker' = "idle" /\ group' = <<>> /\ stopping' = stopping
        /\ \/ Commit /\ requests' = requests
           \/ Abort
    BY <1>3 DEF Commit, Abort
  <2>2. ASSUME NEW c \in Clients
        PROVE  /\ caller'[c].pc \in {caller[c].pc, "done", "error"}
               /\ caller'[c].rec = caller[c].rec
               /\ caller'[c].pc = "wait" => /\ c \notin Waiting(group)
                                            /\ Abort => c \notin Waiting(requests)
               /\ caller[c].pc = "idle" => caller'[c].pc = "idle"
    <3> DEFINE S == Waiting(group) \union (IF Abort THEN Waiting(requests) ELSE {})
               pc == IF Abort THEN "error" ELSE "done"
    <3>1. Signal(S, pc)
      <4>1. ~(Commit /\ Abort)
        BY DEF Commit, Abort
      <4>2. Commit => S = Waiting(group) /\ pc = "done"
        BY <4>1
      <4> QED BY <1>3, <4>2 DEF Commit, Abort
    <3>2. \A d \in S : caller[d].pc = "wait"
      BY DEF Waiting
    <3>3. caller'[c] = IF c \in S THEN [caller[c] EXCEPT !.pc = pc] ELSE caller[c]
      BY <3>1 DEF Signal
    <3>4. caller[c] \in [pc : CallerStates, rec : Record]
      BY DEF TypeOK
    <3>5. /\ caller'[c].rec = caller[c].rec
          /\ caller'[c].pc = IF c \in S THEN pc ELSE caller[c].pc
      BY <3>3, <3>4
    <3> QED BY <3>2, <3>5
  <2>3. ASSUME NEW c \in Clients, caller'[c].pc = "wait"
        PROVE  InRequests(c)'
    <3>1. caller[c].pc = "wait"
      BY <2>2, <2>3
    <3>2. ~InGroup(c)
      BY <2>2, <2>3, <3>1 DEF Waiting, InGroup
    <3>3. InRequests(c)
      BY <3>1, <3>2 DEF QueueInv, Polling
    <3>4. ~Abort
      BY <2>2, <2>3, <3>1, <3>3 DEF Waiting, InRequests
    <3> QED BY <2>1, <2>2, <3>3, <3>4 DEF InRequests
  <2> QED BY <2>1, <2>2, <2>3 DEF QueueInv, Polling, GroupIdle, Unstarted, Exited, StopQuiet
<1>4. CASE WorkerExit
  BY <1>4 DEF WorkerExit, QueueInv, Polling, InGroup, InRequests, GroupIdle, Unstarted,
              Exited, StopQuiet
<1> QED BY <1>1, <1>2, <1>3, <1>4 DEF WorkerNext

LEMMA OtherQueue ==
    ASSUME TypeOK, Control, QueueInv, ReplayNext \/ Deinit \/ Reopen \/ Crash
    PROVE  QueueInv'
<1> USE DEF phaseVars, liveVars, queueVars, workerVars, fileVars, boundVars, ghostVars
<1>1. CASE ReplayNext
  <2>1. UNCHANGED <<group, requests, caller, stopping, worker>>
    BY <1>1 DEF ReplayNext, ReplayRecord, ReplayDone, ReplayTorn, ReplayCorrupt, Recovered
  <2> QED BY <2>1 DEF QueueInv, Polling, InGroup, InRequests, GroupIdle, Unstarted,
                      Exited, StopQuiet
<1>2. CASE Deinit
  BY <1>2 DEF Deinit, QueueInv, Polling, InGroup, InRequests, GroupIdle, Unstarted,
              Exited, StopQuiet
<1>3. CASE Reopen \/ Crash
  <2>1. Restart
    BY <1>3 DEF Reopen, Crash
  <2>2. \A c \in Clients : caller'[c].pc = "idle"
    BY <2>1 DEF Restart, Idle
  <2> QED BY <2>1, <2>2 DEF Restart, QueueInv, Polling, GroupIdle, Unstarted, Exited, StopQuiet
<1> QED BY <1>1, <1>2, <1>3

LEMMA QueueInvariant == Spec => []QueueInv
<1>1. Init => QueueInv
  BY DEF Init, Idle, QueueInv, Polling, GroupIdle, Unstarted, Exited, StopQuiet
<1>2. TypeOK /\ Control /\ QueueInv /\ [Next]_vars => QueueInv'
  <2>1. SUFFICES ASSUME TypeOK, Control, QueueInv, [Next]_vars PROVE QueueInv'
    OBVIOUS
  <2>2. CASE UNCHANGED vars
    BY <2>1, <2>2 DEF vars, queueVars, workerVars, QueueInv, Polling, InGroup, InRequests,
                      GroupIdle, Unstarted, Exited, StopQuiet
  <2>3. ASSUME NEW c \in Clients, CallerNext(c) PROVE QueueInv'
    BY <2>1, <2>3, CallerQueue
  <2>4. CASE WorkerNext
    BY <2>1, <2>4, WorkerQueue
  <2>5. CASE ReplayNext \/ Deinit \/ Reopen \/ Crash
    BY <2>1, <2>5, OtherQueue
  <2> QED BY <2>1, <2>2, <2>3, <2>4, <2>5 DEF Next
<1> QED BY <1>1, <1>2, WalTypeOK, PTL DEF Spec

(***************************************************************************)
(* A strict caller is never left polling: while it waits, its request is   *)
(* in the queue or in the writer's group, in every behaviour, also when    *)
(* the writer fails for good and empties the queue (enqueueBatch,          *)
(* flushCascade, workerMain 359-395).                                      *)
(***************************************************************************)
THEOREM WalWaitersAreHeld == Spec => []WaitersAreHeld
<1>1. TypeOK /\ QueueInv => WaitersAreHeld
  <2>1. SUFFICES ASSUME TypeOK, QueueInv, NEW c \in Clients, caller[c].pc = "wait"
                 PROVE  \E i \in 1..Len(group \o requests) :
                          /\ (group \o requests)[i].client = c
                          /\ (group \o requests)[i].rec = caller[c].rec
    BY DEF WaitersAreHeld
  <2>2. /\ Len(group) \in Nat /\ Len(requests) \in Nat
        /\ Len(group \o requests) = Len(group) + Len(requests)
        /\ \A i \in 1..(Len(group) + Len(requests)) :
             (group \o requests)[i] = IF i <= Len(group) THEN group[i]
                                                         ELSE requests[i - Len(group)]
    BY <2>1, ConcatProperties, LenProperties DEF TypeOK
  <2> DEFINE g == group \o requests
  <2> HIDE DEF g
  <2>3. CASE InGroup(c)
    <3>1. PICK i \in 1..Len(group) : group[i].client = c /\ group[i].rec = caller[c].rec
      BY <2>3 DEF InGroup
    <3>2. i \in 1..Len(g) /\ g[i] = group[i]
      BY <2>2, <3>1 DEF g
    <3> QED BY <3>1, <3>2 DEF g
  <2>4. CASE InRequests(c)
    <3>1. PICK i \in 1..Len(requests) :
             requests[i].client = c /\ requests[i].rec = caller[c].rec
      BY <2>4 DEF InRequests
    <3>2. Len(group) + i \in 1..Len(g) /\ g[Len(group) + i] = requests[i]
      BY <2>2, <3>1 DEF g
    <3> QED BY <3>1, <3>2 DEF g
  <2> QED BY <2>1, <2>3, <2>4 DEF QueueInv, Polling
<1> QED BY <1>1, QueueInvariant, WalTypeOK, PTL

-----------------------------------------------------------------------------
(* Where the admitted records are.  The writer appends its group in order; *)
(* From is the position of the first request of the group that the file    *)
(* does not hold yet.                                                      *)
From == IF worker = "append" THEN idx ELSE IF worker = "commit" THEN Len(group) + 1 ELSE 1
Left == Len(group) + 1 - From

InFile(r) == \E i \in 1..Len(file) : file[i] = r
InLeft(r) == \E i \in From..Len(group) : group[i].rec = r
InQueue(r) == \E i \in 1..Len(requests) : requests[i].rec = r

(* No admitted record is lost while the writer works.                      *)
AdmittedHeld ==
    phase = "open" /\ ~failed =>
      \A r \in {history[i] : i \in 1..Len(history)} : InFile(r) \/ InLeft(r) \/ InQueue(r)

(* The file begins like the history, up to the first torn entry.           *)
CleanUpTo(n) == \A i \in 1..n : file[i].kind # "torn"
FileClean == \A i \in 1..Len(file) : file[i].kind # "torn"
FileInOrder ==
    phase = "open" =>
      \A n \in 1..Len(file) : CleanUpTo(n) => n <= Len(history) /\ history[n] = file[n]

(* While no group is failing, the history goes on with the rest of the     *)
(* group and then with the queue.                                          *)
Failing == worker \in {"unpublish", "relock", "rollback", "abort"}
RestInOrder ==
    phase = "open" /\ ~Failing /\ FileClean =>
      /\ Len(history) = Len(file) + Left + Len(requests)
      /\ \A i \in From..Len(group) : history[Len(file) + 1 + i - From] = group[i].rec
      /\ \A i \in 1..Len(requests) : history[Len(file) + Left + i] = requests[i].rec

OrderInv == AdmittedHeld /\ FileInOrder /\ RestInOrder

LEMMA FromType ==
    ASSUME TypeOK, Control
    PROVE  /\ Len(group) \in Nat /\ Len(requests) \in Nat /\ Len(file) \in Nat
           /\ Len(history) \in Nat
           /\ From \in 1..(Len(group) + 1)
<1>1. /\ Len(group) \in Nat /\ Len(requests) \in Nat /\ Len(file) \in Nat
      /\ Len(history) \in Nat
  BY LenProperties DEF TypeOK
<1>2. From \in 1..(Len(group) + 1)
  BY <1>1 DEF From, Control, IndexInv
<1> QED BY <1>1, <1>2

(* A step that writes and admits nothing.                                  *)
LEMMA OrderKept ==
    ASSUME TypeOK, Control, OrderInv,
           UNCHANGED <<phase, failed, file, history, requests, group>>,
           \/ From' = From /\ (Failing => Failing')
           \/ From' = 1 /\ Failing'
    PROVE  OrderInv'
<1>0. From \in 1..(Len(group) + 1)
  BY FromType
<1>1. AdmittedHeld'
  <2>1. ASSUME NEW r PROVE InFile(r)' = InFile(r) /\ InQueue(r)' = InQueue(r)
    BY DEF InFile, InQueue
  <2>2. ASSUME NEW r, InLeft(r) PROVE InLeft(r)'
    <3>1. PICK i \in From..Len(group) : group[i].rec = r
      BY <2>2 DEF InLeft
    <3>2. i \in From'..Len(group') /\ group'[i].rec = r
      BY <1>0, <3>1
    <3> QED BY <3>2 DEF InLeft
  <2> QED BY <2>1, <2>2 DEF OrderInv, AdmittedHeld
<1>2. FileInOrder'
  BY DEF OrderInv, FileInOrder, CleanUpTo
<1>3. RestInOrder'
  BY DEF OrderInv, RestInOrder, FileClean, Left
<1> QED BY <1>1, <1>2, <1>3 DEF OrderInv

(* An entry that the file gains does not disturb the ones before it.       *)
LEMMA FileInOrderKept ==
    ASSUME TypeOK, Control, FileInOrder, NEW e \in Record,
           phase' = phase, file' = Append(file, e),
           history' = history \/ \E r \in Record : history' = Append(history, r),
           FileClean /\ phase = "open" /\ e.kind # "torn" =>
             Len(file) + 1 <= Len(history') /\ history'[Len(file) + 1] = e
    PROVE  FileInOrder'
<1>1. /\ Len(file') = Len(file) + 1 /\ Len(file) \in Nat
      /\ \A i \in 1..Len(file) : file'[i] = file[i]
      /\ file'[Len(file) + 1] = e
  BY FileAppended, FromType
<1>2. Len(history) \in Nat /\ Len(history') \in Nat /\ Len(history') >= Len(history)
      /\ \A i \in 1..Len(history) : history'[i] = history[i]
  BY AppendProperties, LenProperties DEF TypeOK
<1>3. ASSUME phase' = "open", NEW n \in 1..Len(file'), CleanUpTo(n)'
      PROVE  n <= Len(history') /\ history'[n] = file'[n]
  <2>1. \A i \in 1..n : file'[i].kind # "torn"
    BY <1>3 DEF CleanUpTo
  <2>2. CASE n \in 1..Len(file)
    <3>1. CleanUpTo(n)
      BY <1>1, <2>1, <2>2 DEF CleanUpTo
    <3>2. n <= Len(history) /\ history[n] = file[n]
      BY <1>3, <2>2, <3>1 DEF FileInOrder
    <3> QED BY <1>1, <1>2, <2>2, <3>2
  <2>3. CASE n = Len(file) + 1
    <3>1. e.kind # "torn" /\ FileClean
      BY <1>1, <2>1, <2>3 DEF FileClean
    <3> QED BY <1>1, <1>3, <2>3, <3>1
  <2> QED BY <1>1, <2>2, <2>3
<1> QED BY <1>3 DEF FileInOrder

(* ack writes its record at once: the writer is quiet and nothing waits.   *)
LEMMA AckInOrder ==
    ASSUME TypeOK, Control, QueueInv, OrderInv, NEW c \in Clients, AckReady(c),
           UNCHANGED <<phase, failed, requests, group, worker>>,
           \/ \E debris \in WriteDebris : file' = file \o debris /\ history' = history
           \/ /\ file' = Append(file, caller[c].rec)
              /\ history' = Append(history, caller[c].rec)
    PROVE  OrderInv'
<1> DEFINE r == caller[c].rec
<1>0. /\ worker \in {"none", "idle", "exited"} /\ phase = "open"
      /\ requests = <<>> /\ group = <<>> /\ Len(requests) = 0 /\ Len(group) = 0
      /\ From = 1 /\ From' = 1 /\ Left = 0 /\ Left' = 0 /\ ~Failing /\ ~Failing'
      /\ r \in Record /\ Len(file) \in Nat /\ Len(history) \in Nat
  <2>1. worker \in {"none", "idle", "exited"} /\ requests = <<>> /\ phase = "open" /\ r \in Record
    BY DEF AckReady, Writing, TypeOK, WorkerStates, Control, ReplayQuiet
  <2>2. group = <<>>
    BY <2>1 DEF QueueInv, GroupIdle
  <2>3. Len(requests) = 0 /\ Len(group) = 0 /\ Len(file) \in Nat /\ Len(history) \in Nat
    BY <2>1, <2>2, EmptySeq, LenProperties DEF TypeOK
  <2> QED BY <2>1, <2>2, <2>3 DEF From, Left, Failing
<1> HIDE DEF r
<1>1. CASE file' = file /\ history' = history
  BY <1>0, <1>1, OrderKept
<1>2. ASSUME NEW e \in Record, file' = Append(file, e),
             \/ history' = history /\ e.kind = "torn"
             \/ history' = Append(history, e)
      PROVE  OrderInv'
  <2>1. /\ Len(file') = Len(file) + 1
        /\ \A i \in 1..Len(file) : file'[i] = file[i]
        /\ file'[Len(file) + 1] = e
    BY <1>2, FileAppended
  <2>2. history' # history =>
            /\ Len(history') = Len(history) + 1
            /\ \A i \in 1..Len(history) : history'[i] = history[i]
            /\ history'[Len(history) + 1] = e
    <3>1. history' # history => history' = Append(history, e)
      BY <1>2
    <3>2. history \in Seq(Record)
      BY DEF TypeOK
    <3> QED BY ONLY <3>1, <3>2, e \in Record, AppendProperties
  <2>3. FileClean => Len(history) = Len(file)
    BY <1>0 DEF OrderInv, RestInOrder
  <2>4. AdmittedHeld'
    <3>1. ASSUME ~failed, NEW i \in 1..Len(history'), NEW q, q = history'[i]
          PROVE  InFile(q)'
      <4>1. CASE i \in 1..Len(history) /\ q = history[i]
        <5>1. InFile(q)
          BY <1>0, <3>1, <4>1 DEF OrderInv, AdmittedHeld, InLeft, InQueue
        <5> QED BY <1>0, <2>1, <5>1 DEF InFile
      <4>2. CASE q = e
        BY <1>0, <2>1, <4>2 DEF InFile
      <4> QED BY <1>0, <2>2, <3>1, <4>1, <4>2
    <3> QED BY <1>0, <3>1 DEF AdmittedHeld
  <2>5. FileInOrder'
    BY <1>0, <1>2, <2>2, <2>3, FileInOrderKept DEF OrderInv
  <2>6. RestInOrder'
    <3>1. ASSUME FileClean' PROVE FileClean /\ e.kind # "torn"
      BY <1>0, <2>1, <3>1 DEF FileClean
    <3>2. ASSUME FileClean' PROVE Len(history') = Len(file')
      BY <1>0, <1>2, <2>1, <2>2, <2>3, <3>1, <3>2
    <3>3. Len(group') = 0 /\ Len(requests') = 0
      BY <1>0
    <3> QED BY <1>0, <3>2, <3>3, FromType, <2>1 DEF RestInOrder
  <2> QED BY <2>4, <2>5, <2>6 DEF OrderInv
<1>3. CASE \E debris \in WriteDebris : file' = file \o debris /\ history' = history
  <2>1. PICK debris \in WriteDebris : file' = file \o debris
    BY <1>3
  <2>2. CASE debris = <<>>
    BY <1>1, <1>3, <2>1, <2>2, ConcatEmptySeq DEF TypeOK
  <2>3. CASE debris = <<Torn>>
    <3>1. file' = Append(file, Torn) /\ Torn.kind = "torn"
      BY <2>1, <2>3, AppendIsConcat, RecordTypes DEF TypeOK, Torn, NoRecord
    <3> QED BY <1>2, <1>3, <3>1, RecordTypes
  <2> QED BY <2>2, <2>3, DebrisType
<1>4. CASE file' = Append(file, r) /\ history' = Append(history, r)
  BY <1>0, <1>2, <1>4
<1> QED BY <1>3, <1>4 DEF r

LEMMA CallerOrder ==
    ASSUME TypeOK, Control, QueueInv, OrderInv, NEW c \in Clients, CallerNext(c)
    PROVE  OrderInv'
<1> USE DEF phaseVars, liveVars, queueVars, workerVars, fileVars, boundVars, ghostVars
<1>0. /\ UNCHANGED <<phase, failed, group>> /\ From' = From /\ (Failing' <=> Failing)
      /\ phase = "open"
  <2>1. /\ UNCHANGED <<phase, failed, group, idx>> /\ phase = "open"
        /\ worker' = worker \/ (worker = "none" /\ worker' = "idle")
    BY CallerFrame
  <2> QED BY <2>1 DEF From, Failing
<1>1. CASE UNCHANGED <<file, history, requests>>
  BY <1>0, <1>1, OrderKept
<1>2. CASE AckReady(c) /\ (AckOk(c) \/ AckFails(c))
  <2>1. UNCHANGED <<phase, failed, requests, group, worker>>
    BY <1>2 DEF AckOk, AckFails
  <2>2. \/ \E debris \in WriteDebris : file' = file \o debris /\ history' = history
        \/ /\ file' = Append(file, caller[c].rec)
           /\ history' = Append(history, caller[c].rec)
    BY <1>2 DEF AckOk, AckFails
  <2> QED BY <1>2, <2>1, <2>2, AckInOrder
<1>3. CASE Enqueue(c) /\ ~failed /\ MutexFree
  <2>1. /\ Len(requests) \in Nat /\ Len(history) \in Nat
        /\ Len(requests') = Len(requests) + 1
        /\ \A i \in 1..Len(requests) : requests'[i] = requests[i]
        /\ requests'[Len(requests) + 1].rec = caller[c].rec
        /\ Len(history') = Len(history) + 1
        /\ \A i \in 1..Len(history) : history'[i] = history[i]
        /\ history'[Len(history) + 1] = caller[c].rec
        /\ file' = file
    BY <1>3, Enqueued DEF Enqueue
  <2>2. From \in 1..(Len(group) + 1) /\ Len(group) \in Nat /\ Len(file) \in Nat
    BY FromType
  <2>3. AdmittedHeld'
    <3>1. ASSUME NEW i \in 1..Len(history'), NEW q, q = history'[i]
          PROVE  InFile(q)' \/ InLeft(q)' \/ InQueue(q)'
      <4>1. CASE i \in 1..Len(history)
        <5>1. InFile(q) \/ InLeft(q) \/ InQueue(q)
          BY <1>0, <1>3, <2>1, <3>1, <4>1 DEF OrderInv, AdmittedHeld
        <5>2. (InFile(q) => InFile(q)') /\ (InLeft(q) => InLeft(q)')
          BY <1>0, <2>1 DEF InFile, InLeft
        <5>3. InQueue(q) => InQueue(q)'
          BY <2>1 DEF InQueue
        <5> QED BY <5>1, <5>2, <5>3
      <4>2. CASE i = Len(history) + 1
        BY <2>1, <3>1, <4>2 DEF InQueue
      <4> QED BY <2>1, <3>1, <4>1, <4>2
    <3> QED BY <3>1 DEF AdmittedHeld
  <2>4. FileInOrder'
    BY <1>0, <2>1, <2>2 DEF OrderInv, FileInOrder, CleanUpTo
  <2>5. RestInOrder'
    <3>1. SUFFICES ASSUME ~Failing, FileClean
                   PROVE  /\ Len(history') = Len(file') + Left' + Len(requests')
                          /\ \A i \in From'..Len(group') :
                               history'[Len(file') + 1 + i - From'] = group'[i].rec
                          /\ \A i \in 1..Len(requests') :
                               history'[Len(file') + Left' + i] = requests'[i].rec
      BY <1>0, <2>1 DEF RestInOrder, FileClean
    <3>2. /\ Len(history) = Len(file) + Left + Len(requests)
          /\ \A i \in From..Len(group) : history[Len(file) + 1 + i - From] = group[i].rec
          /\ \A i \in 1..Len(requests) : history[Len(file) + Left + i] = requests[i].rec
      BY <1>0, <3>1 DEF OrderInv, RestInOrder
    <3>3. Left \in Nat /\ Left' = Left
      BY <1>0, <2>2 DEF Left
    <3>4. Len(history') = Len(file') + Left' + Len(requests')
      BY <2>1, <2>2, <3>2, <3>3
    <3>5. \A i \in From..Len(group) :
             Len(file) + 1 + i - From \in 1..Len(history)
      BY <2>1, <2>2, <3>2 DEF Left
    <3>6. \A i \in From'..Len(group') :
             history'[Len(file') + 1 + i - From'] = group'[i].rec
      BY <1>0, <2>1, <3>2, <3>5
    <3>7. ASSUME NEW i \in 1..Len(requests')
          PROVE  history'[Len(file') + Left' + i] = requests'[i].rec
      <4>1. CASE i \in 1..Len(requests)
        BY <2>1, <2>2, <3>2, <3>3, <4>1
      <4>2. CASE i = Len(requests) + 1
        BY <2>1, <2>2, <3>2, <3>3, <4>2
      <4> QED BY <2>1, <4>1, <4>2
    <3> QED BY <3>4, <3>6, <3>7
  <2> QED BY <2>3, <2>4, <2>5 DEF OrderInv
<1> QED BY <1>1, <1>2, <1>3
        DEF CallerNext, Call, CallBatch, CallCascade, CallAck, AdmitStrict, AdmitEventual,
            Admissible, AdmitOom, AdmitRefused, Return, AckOk, AckFails

LEMMA WorkerOrder ==
    ASSUME TypeOK, Control, QueueInv, OrderInv, WorkerNext
    PROVE  OrderInv'
<1> USE DEF phaseVars, liveVars, queueVars, workerVars, fileVars, boundVars, ghostVars
<1>0. From \in 1..(Len(group) + 1) /\ Len(group) \in Nat /\ Len(file) \in Nat
      /\ Len(requests) \in Nat /\ Len(history) \in Nat
  BY FromType
<1>a. phase = "open"
  BY DEF WorkerNext, Take, Publish, PublishOom, Unpublish, Rollback, RollbackLoop,
         Relock, AppendRecord, AppendFails, SyncGroup, SyncFails, AppendTooLarge, Commit, Abort,
         WorkerExit, Control, ReplayQuiet
<1>1. CASE Take
  <2>1. /\ UNCHANGED <<phase, failed, file, history>>
        /\ group = <<>> /\ group' = requests /\ requests' = <<>>
        /\ worker = "idle" /\ worker' \in {"publish", "append"} /\ idx' = 1
    BY <1>1 DEF Take, QueueInv, GroupIdle
  <2>2. Len(group) = 0 /\ Len(requests') = 0
    BY <2>1, EmptySeq
  <2>3. From = 1 /\ From' = 1 /\ Left = 0 /\ Left' = Len(requests) /\ ~Failing /\ ~Failing'
    BY <1>0, <2>1, <2>2 DEF From, Left, Failing
  <2>4. AdmittedHeld'
    BY <2>1, <2>2, <2>3 DEF OrderInv, AdmittedHeld, InFile, InLeft, InQueue
  <2>5. FileInOrder'
    BY <2>1 DEF OrderInv, FileInOrder, CleanUpTo
  <2>6. RestInOrder'
    BY <1>0, <2>1, <2>2, <2>3 DEF OrderInv, RestInOrder, FileClean
  <2> QED BY <2>4, <2>5, <2>6 DEF OrderInv
<1>2. CASE \/ Publish \/ PublishOom \/ Unpublish \/ Relock \/ Rollback \/ SyncGroup
           \/ SyncFails \/ AppendTooLarge \/ WorkerExit
  <2>1. UNCHANGED <<phase, failed, file, history, requests, group>>
    BY <1>2 DEF Publish, PublishOom, Unpublish, Relock, Rollback, RollbackLoop, SyncGroup,
                SyncFails, AppendTooLarge, WorkerExit
  <2>2. \/ From' = From /\ (Failing => Failing')
        \/ From' = 1 /\ Failing'
    <3>1. CASE Publish
      BY <3>1 DEF Publish, From, Failing
    <3>2. CASE PublishOom \/ Unpublish \/ Relock \/ Rollback \/ SyncFails \/ AppendTooLarge
      BY <3>2 DEF PublishOom, Unpublish, Relock, Rollback, RollbackLoop, SyncFails, AppendTooLarge,
                  AttemptFails, From, Failing
    <3>3. CASE SyncGroup
      BY <1>0, <3>3 DEF SyncGroup, From, Failing
    <3>4. CASE WorkerExit
      BY <3>4 DEF WorkerExit, From, Failing
    <3> QED BY <1>2, <3>1, <3>2, <3>3, <3>4
  <2> QED BY <2>1, <2>2, OrderKept
<1>3. CASE AppendRecord
  <2> DEFINE e == group[idx].rec
  <2>1. /\ UNCHANGED <<phase, failed, history, requests, group>>
        /\ worker = "append" /\ worker' = "append" /\ idx \in 1..Len(group) /\ idx' = idx + 1
        /\ file' = Append(file, e)
    BY <1>0, <1>3 DEF AppendRecord, TypeOK, From
  <2>2. e \in Record
    <3>1. group[idx] \in Request
      BY <2>1, ElementOfSeq DEF TypeOK
    <3> QED BY <3>1 DEF Request
  <2>3. /\ Len(file') = Len(file) + 1
        /\ \A i \in 1..Len(file) : file'[i] = file[i]
        /\ file'[Len(file) + 1] = e
    BY <2>1, <2>2, FileAppended
  <2>4. /\ From = idx /\ From' = idx + 1 /\ ~Failing
        /\ Left = Len(group) + 1 - idx /\ Left' = Len(group) - idx
    BY <1>0, <2>1 DEF From, Left, Failing
  <2>5. FileClean =>
          /\ Len(history) = Len(file) + Left + Len(requests)
          /\ \A i \in idx..Len(group) : history[Len(file) + 1 + i - idx] = group[i].rec
          /\ \A i \in 1..Len(requests) : history[Len(file) + Left + i] = requests[i].rec
    BY <1>a, <2>4 DEF OrderInv, RestInOrder
  <2> HIDE DEF e
  <2>6. AdmittedHeld'
    <3>1. ASSUME NEW q, InFile(q) PROVE InFile(q)'
      BY <1>0, <2>3, <3>1 DEF InFile
    <3>2. ASSUME NEW q, InLeft(q) PROVE InFile(q)' \/ InLeft(q)'
      <4>1. PICK i \in idx..Len(group) : group[i].rec = q
        BY <2>4, <3>2 DEF InLeft
      <4>2. CASE i = idx
        BY <1>0, <2>3, <4>1, <4>2 DEF InFile, e
      <4>3. CASE i \in (idx + 1)..Len(group)
        BY <2>1, <2>4, <4>1, <4>3 DEF InLeft
      <4> QED BY <2>1, <4>1, <4>2, <4>3
    <3>3. ASSUME NEW q, InQueue(q) PROVE InQueue(q)'
      BY <2>1, <3>3 DEF InQueue
    <3> QED BY <2>1, <3>1, <3>2, <3>3 DEF OrderInv, AdmittedHeld
  <2>7. FileInOrder'
    <3>1. FileClean => /\ Len(file) + 1 <= Len(history)
                       /\ history[Len(file) + 1] = e
      <4>1. idx \in idx..Len(group) /\ Len(file) + 1 + idx - idx = Len(file) + 1
        BY <1>0, <2>1
      <4> QED BY <1>0, <2>1, <2>4, <2>5, <4>1 DEF e
    <3> QED BY <2>1, <2>2, <3>1, FileInOrderKept DEF OrderInv
  <2>8. RestInOrder'
    <3>1. ASSUME FileClean' PROVE FileClean
      BY <1>0, <2>3, <3>1 DEF FileClean
    <3>2. ASSUME FileClean
          PROVE  /\ Len(history') = Len(file') + Left' + Len(requests')
                 /\ \A i \in From'..Len(group') :
                      history'[Len(file') + 1 + i - From'] = group'[i].rec
                 /\ \A i \in 1..Len(requests') :
                      history'[Len(file') + Left' + i] = requests'[i].rec
      <4>1. Len(history') = Len(file') + Left' + Len(requests')
        BY <1>0, <2>1, <2>3, <2>4, <2>5, <3>2
      <4>2. ASSUME NEW i \in (idx + 1)..Len(group)
            PROVE  history'[Len(file') + 1 + i - (idx + 1)] = group'[i].rec
        <5>1. Len(file') + 1 + i - (idx + 1) = Len(file) + 1 + i - idx
          BY <1>0, <2>1, <2>3
        <5>2. i \in idx..Len(group)
          BY <2>1
        <5> QED BY <2>1, <2>5, <3>2, <5>1, <5>2
      <4>3. ASSUME NEW i \in 1..Len(requests)
            PROVE  history'[Len(file') + Left' + i] = requests'[i].rec
        <5>1. Len(file') + Left' + i = Len(file) + Left + i
          BY <1>0, <2>1, <2>3, <2>4
        <5> QED BY <2>1, <2>5, <3>2, <5>1
      <4> QED BY <2>1, <2>4, <4>1, <4>2, <4>3
    <3> QED BY <3>1, <3>2 DEF RestInOrder
  <2> QED BY <2>6, <2>7, <2>8 DEF OrderInv
<1>4. CASE AppendFails
  <2>1. /\ UNCHANGED <<phase, failed, history, requests, group>>
        /\ worker' = "relock"
    BY <1>4 DEF AppendFails, AttemptFails
  <2>2. From' = 1 /\ Failing'
    BY <2>1 DEF From, Failing
  <2>3. PICK debris \in WriteDebris : file' = file \o debris
    BY <1>4 DEF AppendFails
  <2>4. CASE debris = <<>>
    <3>1. file' = file
      BY <2>3, <2>4, ConcatEmptySeq DEF TypeOK
    <3> QED BY <2>1, <2>2, <3>1, OrderKept
  <2>5. CASE debris = <<Torn>>
    <3>1. file' = Append(file, Torn) /\ Torn.kind = "torn"
      BY <2>3, <2>5, AppendIsConcat, RecordTypes DEF TypeOK, Torn, NoRecord
    <3>2. /\ Len(file') = Len(file) + 1
          /\ \A i \in 1..Len(file) : file'[i] = file[i]
      BY <3>1, RecordTypes, FileAppended
    <3>3. AdmittedHeld'
      <4>1. ASSUME NEW q, InFile(q) PROVE InFile(q)'
        BY <1>0, <3>2, <4>1 DEF InFile
      <4>2. ASSUME NEW q, InLeft(q) PROVE InLeft(q)'
        <5>1. PICK i \in From..Len(group) : group[i].rec = q
          BY <4>2 DEF InLeft
        <5>2. i \in From'..Len(group') /\ group'[i].rec = q
          BY <1>0, <2>1, <2>2, <5>1
        <5> QED BY <5>2 DEF InLeft
      <4>3. ASSUME NEW q, InQueue(q) PROVE InQueue(q)'
        BY <2>1, <4>3 DEF InQueue
      <4> QED BY <2>1, <4>1, <4>2, <4>3 DEF OrderInv, AdmittedHeld
    <3>4. FileInOrder'
      BY <2>1, <3>1, RecordTypes, FileInOrderKept DEF OrderInv
    <3> QED BY <2>2, <3>3, <3>4 DEF OrderInv, RestInOrder
  <2> QED BY <2>4, <2>5, DebrisType
<1>5. CASE Commit
  <2>1. /\ UNCHANGED <<phase, failed, file, history, requests>>
        /\ group' = <<>> /\ worker = "commit" /\ worker' = "idle"
    BY <1>5 DEF Commit
  <2>2. Len(group') = 0
    BY <2>1, EmptySeq
  <2>3. From = Len(group) + 1 /\ From' = 1 /\ Left = 0 /\ Left' = 0 /\ ~Failing
    BY <1>0, <2>1, <2>2 DEF From, Left, Failing
  <2>4. AdmittedHeld'
    <3>1. ASSUME NEW q PROVE ~InLeft(q)
      BY <1>0, <2>3 DEF InLeft
    <3> QED BY <2>1, <3>1 DEF OrderInv, AdmittedHeld, InFile, InQueue
  <2>5. FileInOrder'
    BY <2>1 DEF OrderInv, FileInOrder, CleanUpTo
  <2>6. RestInOrder'
    BY <1>0, <2>1, <2>2, <2>3 DEF OrderInv, RestInOrder, FileClean
  <2> QED BY <2>4, <2>5, <2>6 DEF OrderInv
<1>6. CASE Abort
  <2>1. /\ history' = file /\ file' = file /\ failed' /\ phase' = phase
        /\ group' = <<>> /\ requests' = <<>> /\ worker' = "idle"
    BY <1>6 DEF Abort
  <2>2. Len(group') = 0 /\ Len(requests') = 0
    BY <2>1, EmptySeq
  <2>3. From' = 1 /\ Left' = 0
    BY <2>1, <2>2 DEF From, Left
  <2> QED BY <1>0, <2>1, <2>2, <2>3 DEF OrderInv, AdmittedHeld, FileInOrder, RestInOrder
<1> QED BY <1>1, <1>2, <1>3, <1>4, <1>5, <1>6 DEF WorkerNext

LEMMA OtherOrder ==
    ASSUME TypeOK, Control, QueueInv, OrderInv, ReplayNext \/ Deinit \/ Reopen \/ Crash
    PROVE  OrderInv'
<1> USE DEF phaseVars, liveVars, queueVars, workerVars, fileVars, boundVars, ghostVars
<1>1. CASE ReplayDone \/ ReplayTorn
  <2>1. /\ history' = file' /\ UNCHANGED <<requests, group, worker>>
        /\ worker = "none" /\ requests = <<>> /\ group = <<>>
    BY <1>1 DEF ReplayDone, ReplayTorn, Recovered, Control, ReplayQuiet, QueueInv, GroupIdle
  <2>2. Len(group') = 0 /\ Len(requests') = 0
    BY <2>1, EmptySeq
  <2>3. Len(file') \in Nat
    BY <1>1, ReplayTypeOK, LenProperties DEF ReplayNext, TypeOK
  <2>4. From' = 1 /\ Left' = 0
    BY <2>1, <2>2 DEF From, Left
  <2>5. AdmittedHeld'
    BY <2>1, <2>3 DEF AdmittedHeld, InFile
  <2> QED BY <2>1, <2>2, <2>3, <2>4, <2>5 DEF OrderInv, FileInOrder, RestInOrder
<1>2. CASE ReplayRecord \/ ReplayCorrupt \/ Reopen \/ Crash
  <2>1. phase' # "open"
    BY <1>2 DEF ReplayRecord, ReplayCorrupt, Reopen, Crash, Restart
  <2> QED BY <2>1 DEF OrderInv, AdmittedHeld, FileInOrder, RestInOrder
<1>3. CASE Deinit
  <2>1. UNCHANGED <<phase, failed, file, history, requests, group>>
    BY <1>3 DEF Deinit
  <2>2. From' = From /\ (Failing => Failing')
    BY <1>3 DEF Deinit, From, Failing
  <2> QED BY <2>1, <2>2, OrderKept
<1> QED BY <1>1, <1>2, <1>3 DEF ReplayNext

LEMMA OrderInvariant == Spec => []OrderInv
<1>1. Init => OrderInv
  <2>1. SUFFICES ASSUME Init PROVE OrderInv
    OBVIOUS
  <2>2. Len(file) = 0 /\ Len(history) = 0 /\ Len(requests) = 0 /\ Len(group) = 0
    BY <2>1, EmptySeq DEF Init
  <2>3. From = 1 /\ Left = 0
    BY <2>1, <2>2 DEF Init, From, Left
  <2> QED BY <2>2, <2>3 DEF OrderInv, AdmittedHeld, FileInOrder, RestInOrder
<1>2. TypeOK /\ Control /\ QueueInv /\ OrderInv /\ [Next]_vars => OrderInv'
  <2>1. SUFFICES ASSUME TypeOK, Control, QueueInv, OrderInv, [Next]_vars PROVE OrderInv'
    OBVIOUS
  <2>2. CASE UNCHANGED vars
    <3>1. UNCHANGED <<phase, failed, file, history, requests, group, worker, idx>>
      BY <2>2 DEF vars, phaseVars, queueVars, workerVars, fileVars, ghostVars
    <3>2. From' = From /\ (Failing => Failing')
      BY <3>1 DEF From, Failing
    <3> QED BY <2>1, <3>1, <3>2, OrderKept
  <2>3. ASSUME NEW c \in Clients, CallerNext(c) PROVE OrderInv'
    BY <2>1, <2>3, CallerOrder
  <2>4. CASE WorkerNext
    BY <2>1, <2>4, WorkerOrder
  <2>5. CASE ReplayNext \/ Deinit \/ Reopen \/ Crash
    BY <2>1, <2>5, OtherOrder
  <2> QED BY <2>1, <2>2, <2>3, <2>4, <2>5 DEF Next
<1> QED BY <1>1, <1>2, WalTypeOK, QueueInvariant, PTL DEF Spec

(***************************************************************************)
(* A clean shutdown loses nothing, in both modes and under every fault: a  *)
(* writer that exits without having failed leaves every admitted record in *)
(* the journal (deinit, workerMain 265-271).                               *)
(***************************************************************************)
THEOREM WalShutdownDrains == Spec => []ShutdownDrains
<1>1. TypeOK /\ QueueInv /\ OrderInv => ShutdownDrains
  <2>1. SUFFICES ASSUME TypeOK, QueueInv, OrderInv, phase = "open", worker = "exited", ~failed,
                        NEW r \in ToSet(history)
                 PROVE  r \in ToSet(file)
    BY DEF ShutdownDrains
  <2>2. group = <<>> /\ requests = <<>>
    BY <2>1 DEF QueueInv, GroupIdle, Exited
  <2>3. Len(group) = 0 /\ Len(requests) = 0 /\ From = 1
    BY <2>1, <2>2, EmptySeq DEF From
  <2>4. r \in {history[i] : i \in 1..Len(history)}
    <3>1. DOMAIN history = 1..Len(history)
      BY <2>1, LenProperties DEF TypeOK
    <3> QED BY <2>1, <3>1 DEF ToSet
  <2>5. InFile(r)
    BY <2>1, <2>3, <2>4 DEF OrderInv, AdmittedHeld, InLeft, InQueue
  <2>6. DOMAIN file = 1..Len(file)
    BY <2>1, LenProperties DEF TypeOK
  <2> QED BY <2>5, <2>6 DEF InFile, ToSet
<1> QED BY <1>1, WalTypeOK, QueueInvariant, OrderInvariant, PTL

(* Recovery stops at the first torn entry ...                              *)
LEMMA ImageIs ==
    ASSUME TypeOK, NEW n \in 0..Len(file)
    PROVE  \E m \in 0..Len(file) :
             /\ Image(n) = Prefix(file, m) /\ CleanUpTo(m)
             /\ m = n \/ (m < n /\ file[m + 1].kind = "torn")
<1> DEFINE I == {i \in 1..Len(file) : file[i].kind = "torn"}
           torn == IF I # {} THEN Min(I) ELSE 0
           m == IF torn = 0 \/ n < torn THEN n ELSE torn - 1
<1>0. Len(file) \in Nat
  BY LenProperties DEF TypeOK
<1>1. Image(n) = Prefix(file, m)
  <2>1. SelectInSeq(file, LAMBDA r : r.kind = "torn") = torn
    BY DEF SelectInSeq
  <2> QED BY <2>1 DEF Image
<1>2. I # {} => Min(I) \in I /\ \A i \in I : Min(I) =< i
  <2>1. I \subseteq Nat
    OBVIOUS
  <2> HIDE DEF I
  <2> QED BY <2>1, MinIsLeast
<1>3. /\ m \in 0..Len(file) /\ CleanUpTo(m)
      /\ m = n \/ (m < n /\ file[m + 1].kind = "torn")
  <2>1. CASE I = {}
    BY <1>0, <2>1 DEF CleanUpTo
  <2>2. CASE I # {}
    <3>1. torn \in I /\ torn \in 1..Len(file) /\ \A i \in I : torn <= i
      <4>1. torn = Min(I)
        BY <2>2
      <4>2. Min(I) \in I /\ \A i \in I : Min(I) =< i
        BY <1>2, <2>2
      <4> HIDE DEF torn
      <4>3. torn \in I /\ \A i \in I : torn =< i
        BY ONLY <4>1, <4>2
      <4> QED BY <4>3
    <3> HIDE DEF torn
    <3>2. m \in 0..Len(file) /\ m < torn
      BY <1>0, <3>1
    <3>3. \A i \in 1..m : i \in 1..Len(file) /\ i \notin I
      BY <1>0, <3>1, <3>2
    <3>4. m = n \/ (m < n /\ m + 1 = torn)
      BY <1>0, <3>1
    <3> QED BY <3>1, <3>2, <3>3, <3>4 DEF CleanUpTo
  <2> QED BY <2>1, <2>2
<1> HIDE DEF m
<1> QED BY <1>1, <1>3

(* ... and what is before it is a prefix of the history.                   *)
LEMMA ImageIsPrefix ==
    ASSUME TypeOK, OrderInv, phase = "open", NEW n \in 0..Len(file)
    PROVE  \E m \in 0..Len(history) : Image(n) = Prefix(history, m)
<1>0. Len(file) \in Nat /\ Len(history) \in Nat
  BY LenProperties DEF TypeOK
<1>1. PICK m \in 0..Len(file) : Image(n) = Prefix(file, m) /\ CleanUpTo(m)
  BY ImageIs
<1>2. ASSUME NEW i \in 1..m PROVE i <= Len(history) /\ history[i] = file[i]
  BY <1>0, <1>1 DEF CleanUpTo, OrderInv, FileInOrder
<1>3. m \in 0..Len(history)
  BY <1>0, <1>1, <1>2
<1>4. Prefix(file, m) = Prefix(history, m)
  <2> DEFINE a == SubSeq(file, 1, m)
             b == SubSeq(history, 1, m)
  <2>1. a \in Seq(Record) /\ Len(a) = m /\ \A i \in 1..m : a[i] = file[i]
    BY <1>1, PrefixProperties DEF TypeOK
  <2>2. b \in Seq(Record) /\ Len(b) = m /\ \A i \in 1..m : b[i] = history[i]
    BY <1>3, PrefixProperties DEF TypeOK
  <2> HIDE DEF a, b
  <2>3. a = b
    BY <1>2, <2>1, <2>2, SeqEqual
  <2> QED BY <2>3 DEF a, b, Prefix
<1> QED BY <1>1, <1>3, <1>4

(***************************************************************************)
(* Whatever a crash leaves of the journal, a recovery that succeeds yields *)
(* a state the log went through: the result of a prefix of the admitted    *)
(* records, in both modes, for every fault and every schedule (workerMain, *)
(* writeCascade, replayCascade).                                           *)
(***************************************************************************)
THEOREM WalRecoveredIsPrefix == Spec => []RecoveredIsPrefix
<1>1. TypeOK /\ OrderInv => RecoveredIsPrefix
  <2>1. SUFFICES ASSUME TypeOK, OrderInv, phase = "open", NEW R \in CrashStates
                 PROVE  R \in {Replay(Prefix(history, m)) :
                                  m \in {l \in 0..Len(history) : Readable(Prefix(history, l))}}
    BY DEF RecoveredIsPrefix
  <2>2. PICK n \in synced..Len(file) : R = Replay(Image(n)) /\ Readable(Image(n))
    BY DEF CrashStates
  <2>3. n \in 0..Len(file)
    BY <2>1, LenProperties DEF TypeOK
  <2>4. PICK m \in 0..Len(history) : Image(n) = Prefix(history, m)
    BY <2>1, <2>3, ImageIsPrefix
  <2>5. R = Replay(Prefix(history, m)) /\ Readable(Prefix(history, m))
    BY <2>2, <2>4
  <2> QED BY <2>5
<1> QED BY <1>1, WalTypeOK, OrderInvariant, PTL

-----------------------------------------------------------------------------
(* Refinement.  What the abstract log consists of: its entries are those   *)
(* of Source up to LogLen.                                                 *)

WholeLen(s) == IF Len(s) > 0 /\ s[Len(s)].kind = "torn" THEN Len(s) - 1 ELSE Len(s)

Source == IF phase = "open" THEN history ELSE file
LogLen == WholeLen(Source)
FileLen == WholeLen(file)
Durable == IF synced > 0 /\ file[synced].kind = "torn" THEN synced - 1 ELSE synced

LogIs ==
    /\ AbstractLog \in Seq(Record)
    /\ LogLen \in Nat /\ Len(AbstractLog) = LogLen
    /\ \A i \in 1..LogLen : AbstractLog[i] = Source[i]
    /\ AbstractDurable = Durable

LEMMA WholeIs ==
    ASSUME NEW s \in Seq(Record)
    PROVE  /\ Whole(s) \in Seq(Record)
           /\ WholeLen(s) \in 0..Len(s) /\ Len(Whole(s)) = WholeLen(s)
           /\ \A i \in 1..WholeLen(s) : Whole(s)[i] = s[i]
<1>1. Len(s) \in Nat /\ (s # <<>> <=> Len(s) > 0)
  BY EmptySeq, LenProperties
<1>2. CASE Len(s) > 0 /\ s[Len(s)].kind = "torn"
  <2>1. Whole(s) = SubSeq(s, 1, Len(s) - 1) /\ WholeLen(s) = Len(s) - 1
    BY <1>1, <1>2 DEF Whole, WholeLen, Last, Front
  <2>2. Len(s) - 1 \in 0..Len(s)
    BY <1>1, <1>2
  <2> QED BY <2>1, <2>2, PrefixProperties
<1>3. CASE ~(Len(s) > 0 /\ s[Len(s)].kind = "torn")
  <2>1. Whole(s) = s /\ WholeLen(s) = Len(s)
    BY <1>1, <1>3 DEF Whole, WholeLen, Last
  <2> QED BY <1>1, <2>1
<1> QED BY <1>2, <1>3

LEMMA LogFacts == TypeOK => LogIs
<1> SUFFICES ASSUME TypeOK PROVE LogIs
  OBVIOUS
<1>1. Source \in Seq(Record)
  BY DEF Source, TypeOK
<1>2. AbstractLog = Whole(Source)
  BY DEF AbstractLog, Source
<1>3. AbstractDurable = Durable
  <2> DEFINE p == SubSeq(file, 1, synced)
  <2>1. synced \in 0..Len(file) /\ Len(file) \in Nat
    BY LenProperties DEF TypeOK
  <2>2. p \in Seq(Record) /\ Len(p) = synced /\ \A i \in 1..synced : p[i] = file[i]
    BY <2>1, PrefixProperties DEF TypeOK
  <2>3. AbstractDurable = Len(Whole(p))
    BY DEF AbstractDurable, Prefix
  <2> HIDE DEF p
  <2>4. Len(Whole(p)) = WholeLen(p)
    BY <2>2, WholeIs
  <2> QED BY <2>1, <2>2, <2>3, <2>4 DEF WholeLen, Durable
<1>4. /\ Whole(Source) \in Seq(Record)
      /\ WholeLen(Source) \in 0..Len(Source) /\ Len(Whole(Source)) = WholeLen(Source)
      /\ \A i \in 1..WholeLen(Source) : Whole(Source)[i] = Source[i]
  BY <1>1, WholeIs
<1>5. Len(Source) \in Nat
  BY <1>1, LenProperties
<1> QED BY <1>2, <1>3, <1>4, <1>5 DEF LogIs, LogLen

(* A torn entry of the history is its last, and the log has failed.        *)
HistoryWhole ==
    phase = "open" =>
      \A i \in 1..Len(history) : history[i].kind = "torn" => i = Len(history) /\ failed

LogInv == FileInv /\ OrderInv /\ HistoryWhole

(* What the file holds is the beginning of the abstract log.               *)
LEMMA FileUnderLog ==
    ASSUME TypeOK, LogInv
    PROVE  /\ FileLen \in 0..Len(file) /\ FileLen <= LogLen
           /\ \A i \in 1..FileLen : Source[i] = file[i] /\ file[i].kind # "torn"
           /\ Durable \in 0..FileLen
           /\ FileLen >= Len(file) - 1
           /\ LogLen \in Nat
<1>0. Len(file) \in Nat /\ Len(history) \in Nat /\ synced \in 0..Len(file)
  BY LenProperties DEF TypeOK
<1>1. FileLen \in 0..Len(file) /\ FileLen >= Len(file) - 1
      /\ \A i \in 1..FileLen : file[i].kind # "torn"
  BY <1>0 DEF FileLen, WholeLen, LogInv, FileInv, TornLast
<1>2. Durable \in 0..FileLen
  BY <1>0, <1>1 DEF Durable, FileLen, WholeLen
<1>3. CASE phase = "open"
  <2>1. ASSUME NEW i \in 1..FileLen PROVE i <= Len(history) /\ history[i] = file[i]
    BY <1>0, <1>1, <1>3 DEF LogInv, OrderInv, FileInOrder, CleanUpTo
  <2>2. FileLen <= Len(history)
    BY <1>0, <1>1, <2>1
  <2>3. CASE FileLen = 0
    BY <1>0, <1>1, <1>2, <1>3, <2>3 DEF LogLen, WholeLen, Source
  <2>4. CASE FileLen # 0
    <3>1. FileLen \in 1..FileLen /\ history[FileLen].kind # "torn"
      BY <1>0, <1>1, <2>1, <2>4
    <3> QED BY <1>0, <1>1, <1>2, <1>3, <2>1, <2>2, <3>1 DEF LogLen, WholeLen, Source
  <2> QED BY <2>3, <2>4
<1>4. CASE phase # "open"
  BY <1>0, <1>1, <1>2, <1>4 DEF LogLen, FileLen, Source
<1> QED BY <1>3, <1>4

(* Steps of the abstract log, by what they do to its entries.              *)
LEMMA LogKept ==
    ASSUME LogIs, LogIs', LogLen' = LogLen, \A i \in 1..LogLen : Source'[i] = Source[i],
           Durable' = Durable, promised' = promised
    PROVE  UNCHANGED Log!vars
<1>1. \A i \in 1..LogLen : AbstractLog'[i] = AbstractLog[i]
  BY DEF LogIs
<1>2. AbstractLog' = AbstractLog
  BY <1>1, SeqEqual DEF LogIs
<1>3. AbstractDurable' = AbstractDurable
  BY DEF LogIs
<1> QED BY <1>2, <1>3 DEF Log!vars

LEMMA LogLoses ==
    ASSUME LogIs, LogIs', LogLen' <= LogLen, \A i \in 1..LogLen' : Source'[i] = Source[i],
           Durable \in Nat, Durable' \in Durable..LogLen', promised' = promised
    PROVE  Log!Lose
<1> DEFINE s == SubSeq(AbstractLog, 1, LogLen')
<1>0. LogLen \in Nat /\ LogLen' \in Nat /\ AbstractLog \in Seq(Record)
      /\ AbstractLog' \in Seq(Record) /\ Len(AbstractLog') = LogLen' /\ Len(AbstractLog) = LogLen
  BY DEF LogIs
<1>a. LogLen' \in 0..Len(AbstractLog)
  BY <1>0
<1>1. s \in Seq(Record) /\ Len(s) = LogLen' /\ \A i \in 1..LogLen' : s[i] = AbstractLog[i]
  BY ONLY <1>0, <1>a, PrefixProperties
<1>2. \A i \in 1..LogLen' : AbstractLog'[i] = AbstractLog[i]
  BY <1>0 DEF LogIs
<1> HIDE DEF s
<1>3. AbstractLog' = s
  BY <1>0, <1>1, <1>2, SeqEqual
<1>4. AbstractDurable = Durable /\ AbstractDurable' = Durable'
  BY DEF LogIs
<1>5. LogLen' \in AbstractDurable..Len(AbstractLog)
  BY <1>0, <1>4
<1> QED BY <1>3, <1>4, <1>5 DEF Log!Lose, s

LEMMA LogAccepts ==
    ASSUME LogIs, LogIs', LogLen' = LogLen + 1, \A i \in 1..LogLen : Source'[i] = Source[i],
           Durable' = Durable, promised' = promised
    PROVE  Log!Accept
<1> DEFINE s == SubSeq(AbstractLog', 1, LogLen)
<1>0. LogLen \in Nat /\ AbstractLog \in Seq(Record)
      /\ AbstractLog' \in Seq(Record) /\ Len(AbstractLog') = LogLen' /\ Len(AbstractLog) = LogLen
  BY DEF LogIs
<1>a. LogLen \in 0..Len(AbstractLog')
  BY <1>0
<1>1. s \in Seq(Record) /\ Len(s) = LogLen /\ \A i \in 1..LogLen : s[i] = AbstractLog'[i]
  BY ONLY <1>0, <1>a, PrefixProperties
<1>2. \A i \in 1..LogLen : AbstractLog'[i] = AbstractLog[i]
  <2>1. ASSUME NEW i \in 1..LogLen PROVE AbstractLog'[i] = AbstractLog[i]
    <3>1. i \in 1..LogLen'
      BY <1>0
    <3> QED BY <3>1 DEF LogIs
  <2> QED BY <2>1
<1> HIDE DEF s
<1>3. s = AbstractLog
  BY <1>0, <1>1, <1>2, SeqEqual
<1>4. AbstractDurable' = AbstractDurable
  BY DEF LogIs
<1> QED BY <1>0, <1>3, <1>4 DEF Log!Accept, s

LEMMA LogReports ==
    ASSUME LogIs, LogIs', LogLen' = LogLen, \A i \in 1..LogLen : Source'[i] = Source[i],
           Durable' = Durable, Durable \in 0..LogLen, promised \subseteq promised',
           \A r \in promised' : r \in promised \/ \E i \in 1..Durable : Source[i] = r
    PROVE  Log!Report
<1>1. \A i \in 1..LogLen : AbstractLog'[i] = AbstractLog[i]
  BY DEF LogIs
<1>2. AbstractLog' = AbstractLog
  BY <1>1, SeqEqual DEF LogIs
<1>3. AbstractDurable' = AbstractDurable
  BY DEF LogIs
<1>4. ASSUME NEW i \in 1..Durable PROVE Source[i] \in Log!DurableRecords
  <2>1. i \in 1..AbstractDurable /\ AbstractLog[i] = Source[i]
    BY DEF LogIs
  <2> QED BY <2>1 DEF Log!DurableRecords
<1> QED BY <1>2, <1>3, <1>4 DEF Log!Report

LEMMA CallerLog ==
    ASSUME ~Acks, TypeOK, TypeOK', Control, LogInv, NEW c \in Clients, CallerNext(c)
    PROVE  HistoryWhole' /\ [Log!Next]_(Log!vars)
<1> USE DEF phaseVars, liveVars, queueVars, workerVars, fileVars, boundVars, ghostVars
<1>0. LogIs /\ LogIs'
  BY LogFacts, PTL
<1>1. phase = "open" /\ phase' = "open" /\ failed' = failed
  BY CallerFrame
<1>2. UNCHANGED <<file, synced, promised>>
  BY DEF CallerNext, Call, CallBatch, CallCascade, CallAck, AdmitStrict, AdmitEventual, Enqueue,
         AdmitOom, AdmitRefused, Return, AckReady, AckOk, AckFails, LogInv, FileInv, NoAcker
<1>3. Durable' = Durable
  BY <1>2 DEF Durable
<1>4. history' = history \/ (Enqueue(c) /\ ~failed)
  BY DEF CallerNext, Call, CallBatch, CallCascade, CallAck, AdmitStrict, AdmitEventual,
         Admissible, AdmitOom, AdmitRefused, Return, AckReady, AckOk, AckFails, LogInv,
         FileInv, NoAcker
<1>5. CASE history' = history
  <2>1. Source' = Source /\ LogLen' = LogLen
    BY <1>1, <1>5 DEF Source, LogLen, WholeLen
  <2>2. UNCHANGED Log!vars
    BY <1>0, <1>2, <1>3, <2>1, LogKept
  <2> QED BY <1>1, <1>5, <2>2 DEF LogInv, HistoryWhole
<1>6. CASE Enqueue(c) /\ ~failed
  <2>1. /\ Len(history) \in Nat /\ Len(history') = Len(history) + 1
        /\ \A i \in 1..Len(history) : history'[i] = history[i]
        /\ history'[Len(history) + 1] = caller[c].rec
    BY <1>6, Enqueued
  <2>2. caller[c].rec.kind # "torn"
    BY DEF LogInv, FileInv, CleanRecords
  <2>3. \A i \in 1..Len(history) : history[i].kind # "torn"
    BY <1>1, <1>6 DEF LogInv, HistoryWhole
  <2>4. LogLen = Len(history) /\ LogLen' = Len(history) + 1
    BY <1>1, <2>1, <2>2, <2>3 DEF LogLen, WholeLen, Source
  <2>5. \A i \in 1..LogLen : Source'[i] = Source[i]
    BY <1>1, <2>1, <2>4 DEF Source
  <2>6. Log!Accept
    BY <1>0, <1>2, <1>3, <2>1, <2>4, <2>5, LogAccepts
  <2>7. HistoryWhole'
    BY <2>1, <2>2, <2>3 DEF HistoryWhole
  <2> QED BY <2>6, <2>7 DEF Log!Next
<1> QED BY <1>4, <1>5, <1>6

LEMMA WorkerLog ==
    ASSUME ~Acks, TypeOK, TypeOK', Control, LogInv, WorkerNext
    PROVE  HistoryWhole' /\ [Log!Next]_(Log!vars)
<1> USE DEF phaseVars, liveVars, queueVars, workerVars, fileVars, boundVars, ghostVars
<1>0. LogIs /\ LogIs'
  BY LogFacts, PTL
<1>1. phase = "open" /\ phase' = "open"
  BY DEF WorkerNext, Take, Publish, PublishOom, Unpublish, Rollback, RollbackLoop,
         Relock, AppendRecord, AppendFails, SyncGroup, SyncFails, AppendTooLarge, Commit, Abort,
         WorkerExit, Control, ReplayQuiet
<1>2. /\ FileLen \in 0..Len(file) /\ FileLen <= LogLen
      /\ \A i \in 1..FileLen : Source[i] = file[i] /\ file[i].kind # "torn"
      /\ Durable \in 0..FileLen /\ LogLen \in Nat
  BY FileUnderLog
<1>3. Len(file) \in Nat /\ synced \in 0..Len(file)
  BY LenProperties DEF TypeOK
<1>4. CASE \/ Take \/ Publish \/ PublishOom \/ Unpublish \/ Relock \/ Rollback
           \/ AppendRecord \/ AppendFails \/ SyncFails \/ AppendTooLarge \/ WorkerExit
  <2>1. UNCHANGED <<history, promised, synced, failed>>
    BY <1>4 DEF Take, Publish, PublishOom, Unpublish, Relock, Rollback, RollbackLoop,
                AppendRecord, AppendFails, SyncFails, AppendTooLarge, WorkerExit
  <2>2. \A i \in 1..Len(file) : file'[i] = file[i]
    <3>1. CASE AppendRecord
      BY <1>3, <3>1, FileAppended, ElementOfSeq DEF AppendRecord, Control, IndexInv, TypeOK, Request
    <3>2. CASE AppendFails
      <4>1. PICK debris \in WriteDebris : file' = file \o debris
        BY <3>2 DEF AppendFails
      <4>2. debris \in Seq(Record) /\ Len(debris) \in Nat
        BY DebrisType, LenProperties
      <4> QED BY <1>3, <4>1, <4>2, ConcatProperties DEF TypeOK
    <3>3. CASE UNCHANGED file
      BY <3>3
    <3> QED BY <1>4, <3>1, <3>2, <3>3
            DEF Take, Publish, PublishOom, Unpublish, Relock, Rollback, RollbackLoop,
                SyncFails, AppendTooLarge, WorkerExit
  <2>3. Durable' = Durable
    BY <1>3, <2>1, <2>2 DEF Durable
  <2>4. Source' = Source /\ LogLen' = LogLen
    BY <1>1, <2>1 DEF Source, LogLen, WholeLen
  <2>5. UNCHANGED Log!vars
    BY <1>0, <2>1, <2>3, <2>4, LogKept
  <2> QED BY <1>1, <2>1, <2>5 DEF LogInv, HistoryWhole
<1>5. CASE SyncGroup
  <2>1. UNCHANGED <<file, history, promised, failed>> /\ synced' = Len(file)
    BY <1>5 DEF SyncGroup
  <2>2. Durable' = FileLen
    BY <1>3, <2>1 DEF Durable, FileLen, WholeLen
  <2>3. Source' = Source /\ LogLen' = LogLen
    BY <1>1, <2>1 DEF Source, LogLen, WholeLen
  <2>4. AbstractLog' = AbstractLog
    BY <1>1, <2>1 DEF AbstractLog, Whole, Last, Front
  <2>5. AbstractDurable' \in AbstractDurable..Len(AbstractLog)
    BY <1>0, <1>2, <2>2 DEF LogIs
  <2>6. Log!Sync
    BY <2>1, <2>4, <2>5 DEF Log!Sync
  <2> QED BY <1>1, <2>1, <2>6 DEF LogInv, HistoryWhole, Log!Next
<1>6. CASE Commit
  <2>1. UNCHANGED <<file, history, synced, failed>>
        /\ promised' = promised \union {group[i].rec : i \in 1..Len(group)}
        /\ worker = "commit"
    BY <1>6 DEF Commit
  <2>2. Source' = Source /\ LogLen' = LogLen /\ Durable' = Durable
    BY <1>1, <2>1 DEF Source, LogLen, WholeLen, Durable
  <2>3. ASSUME NEW r \in promised', r \notin promised
        PROVE  \E i \in 1..Durable : Source[i] = r
    <3>1. PICK i \in 1..Len(group) : r = group[i].rec
      BY <2>1, <2>3
    <3>2. PICK j \in 1..synced : file[j] = r
      BY <2>1, <3>1 DEF LogInv, FileInv, GroupWritten
    <3>3. r.kind # "torn"
      BY <3>1 DEF LogInv, FileInv, CleanRecords
    <3>4. j \in 1..Durable
      BY <1>3, <3>2, <3>3 DEF Durable
    <3> QED BY <1>2, <3>2, <3>4
  <2>4. Durable \in 0..LogLen
    BY <1>2
  <2>5. promised \subseteq promised'
    BY <2>1
  <2>6. Log!Report
    BY <1>0, <2>2, <2>3, <2>4, <2>5, LogReports
  <2> QED BY <1>1, <2>1, <2>6 DEF LogInv, HistoryWhole, Log!Next
<1>7. CASE Abort
  <2>1. UNCHANGED <<file, synced, promised>> /\ history' = file /\ failed'
    BY <1>7 DEF Abort
  <2>2. Source' = file /\ LogLen' = FileLen /\ Durable' = Durable
    BY <1>1, <2>1 DEF Source, LogLen, FileLen, Durable
  <2>3. HistoryWhole'
    BY <2>1 DEF HistoryWhole, LogInv, FileInv, TornLast
  <2>4. Log!Lose
    BY <1>0, <1>2, <2>1, <2>2, LogLoses
  <2> QED BY <2>3, <2>4 DEF Log!Next
<1> QED BY <1>4, <1>5, <1>6, <1>7 DEF WorkerNext

LEMMA OtherLog ==
    ASSUME ~Acks, TypeOK, TypeOK', Control, LogInv, ReplayNext \/ Deinit \/ Reopen \/ Crash
    PROVE  HistoryWhole' /\ [Log!Next]_(Log!vars)
<1> USE DEF phaseVars, liveVars, queueVars, workerVars, fileVars, boundVars, ghostVars
<1>0. LogIs /\ LogIs'
  BY LogFacts, PTL
<1>1. /\ FileLen \in 0..Len(file) /\ FileLen <= LogLen /\ FileLen >= Len(file) - 1
      /\ \A i \in 1..FileLen : Source[i] = file[i] /\ file[i].kind # "torn"
      /\ Durable \in 0..FileLen /\ LogLen \in Nat
  BY FileUnderLog
<1>2. Len(file) \in Nat /\ synced \in 0..Len(file) /\ pos \in Nat \ {0}
  BY LenProperties DEF TypeOK
<1>3. CASE ReplayRecord \/ Deinit
  <2>1. UNCHANGED <<phase, history, file, synced, promised, failed>>
    BY <1>3 DEF ReplayRecord, Deinit
  <2>2. Source' = Source /\ LogLen' = LogLen /\ Durable' = Durable
    BY <2>1 DEF Source, LogLen, WholeLen, Durable
  <2>3. UNCHANGED Log!vars
    BY <1>0, <2>1, <2>2, LogKept
  <2> QED BY <2>1, <2>3 DEF LogInv, HistoryWhole
<1>4. CASE ReplayCorrupt
  <2>1. /\ UNCHANGED <<history, file, synced, promised, failed>>
        /\ phase = "replay" /\ phase' = "corrupt"
    BY <1>4 DEF ReplayCorrupt
  <2>2. Source' = Source /\ LogLen' = LogLen /\ Durable' = Durable
    BY <2>1 DEF Source, LogLen, WholeLen, Durable
  <2>3. UNCHANGED Log!vars
    BY <1>0, <2>1, <2>2, LogKept
  <2> QED BY <2>1, <2>3 DEF LogInv, HistoryWhole
<1>5. CASE ReplayDone \/ ReplayTorn
  <2>1. /\ phase = "replay" /\ phase' = "open" /\ history' = file'
        /\ promised' = promised \union {file'[i] : i \in 1..synced'}
    BY <1>5 DEF ReplayDone, ReplayTorn, Recovered
  <2>2. /\ Len(file') = FileLen /\ \A i \in 1..FileLen : file'[i] = file[i]
        /\ synced' = Durable
    <3>1. CASE ReplayDone
      <4>1. file' = file /\ synced' = synced /\ \A i \in 1..Len(file) : file[i].kind # "torn"
        BY <1>2, <3>1 DEF ReplayDone, LogInv, FileInv, ReplayedClean
      <4> QED BY <1>2, <4>1 DEF FileLen, WholeLen, Durable
    <3>2. CASE ReplayTorn
      <4>1. pos \in 1..Len(file) /\ file[pos].kind = "torn" /\ file' = SubSeq(file, 1, pos - 1)
            /\ synced' = IF synced < pos THEN synced ELSE pos - 1
        BY <1>2, <3>2 DEF ReplayTorn
      <4>2. pos = Len(file)
        BY <4>1 DEF LogInv, FileInv, TornLast
      <4>3. FileLen = pos - 1 /\ pos - 1 \in 0..Len(file)
        BY <1>2, <4>1, <4>2 DEF FileLen, WholeLen
      <4>4. Len(file') = pos - 1 /\ \A i \in 1..(pos - 1) : file'[i] = file[i]
        BY <4>1, <4>3, PrefixProperties DEF TypeOK
      <4>5. \A i \in 1..Len(file) : i < pos => file[i].kind # "torn"
        BY <3>2 DEF ReplayTorn, LogInv, FileInv, ReplayedClean
      <4>6. synced' = Durable
        BY <1>2, <4>1, <4>2, <4>5 DEF Durable
      <4> QED BY <4>3, <4>4, <4>6
    <3> QED BY <1>5, <3>1, <3>2
  <2>3. \A i \in 1..FileLen : file'[i].kind # "torn"
    BY <1>1, <2>2
  <2>4. HistoryWhole'
    BY <2>1, <2>2, <2>3 DEF HistoryWhole
  <2>5. LogLen = FileLen /\ LogLen' = FileLen /\ \A i \in 1..LogLen : Source'[i] = Source[i]
    BY <1>1, <2>1, <2>2, <2>3 DEF LogLen, FileLen, Source, WholeLen
  <2>6. Durable' = Durable
    BY <1>1, <2>2, <2>3 DEF Durable
  <2>7. promised \subseteq promised'
    BY <2>1
  <2>8. ASSUME NEW r \in promised', r \notin promised
        PROVE  \E i \in 1..Durable : Source[i] = r
    <3>1. PICK i \in 1..synced' : r = file'[i]
      BY <2>1, <2>8
    <3>2. i \in 1..Durable /\ i \in 1..FileLen
      BY <1>1, <2>2, <3>1
    <3> QED BY <1>1, <2>2, <3>1, <3>2
  <2>9. Log!Report
    BY <1>0, <1>1, <2>5, <2>6, <2>7, <2>8, LogReports
  <2> QED BY <2>4, <2>9 DEF Log!Next
<1>6. CASE Reopen \/ Crash
  <2>1. phase' = "replay" /\ promised' = promised
    BY <1>6 DEF Reopen, Crash, Restart
  <2>2. Source' = file' /\ LogLen' = FileLen'
    BY <2>1 DEF Source, LogLen, FileLen
  <2>3. /\ FileLen' <= FileLen /\ FileLen' \in Nat
        /\ \A i \in 1..FileLen' : file'[i] = file[i]
        /\ Durable' \in Durable..FileLen'
    <3>1. CASE Reopen
      <4>1. UNCHANGED <<file, synced>>
        BY <3>1 DEF Reopen
      <4> QED BY <1>1, <4>1 DEF FileLen, WholeLen, Durable
    <3>2. CASE Crash
      <4>1. PICK n \in synced..Len(file) :
               \/ file' = SubSeq(file, 1, n)
               \/ n < Len(file) /\ file' = Append(SubSeq(file, 1, n), Torn)
        BY <3>2 DEF Crash
      <4> DEFINE s == SubSeq(file, 1, n)
      <4>2. n \in 0..Len(file) /\ s \in Seq(Record) /\ Len(s) = n /\ \A i \in 1..n : s[i] = file[i]
        <5>1. n \in 0..Len(file)
          BY <1>2
        <5>2. file \in Seq(Record)
          BY DEF TypeOK
        <5> QED BY ONLY <5>1, <5>2, PrefixProperties
      <4> HIDE DEF s
      <4>3. synced' = Len(file')
        BY <3>2 DEF Crash
      <4>4. \A i \in 1..Len(file) : file[i].kind = "torn" => i = Len(file)
        BY DEF LogInv, FileInv, TornLast
      <4>5. CASE file' = s
        BY <1>1, <1>2, <4>2, <4>3, <4>4, <4>5 DEF FileLen, WholeLen, Durable
      <4>6. CASE n < Len(file) /\ file' = Append(s, Torn)
        <5>1. /\ Len(file') = n + 1 /\ file'[n + 1] = Torn
              /\ \A i \in 1..n : file'[i] = s[i]
          BY <4>2, <4>6, RecordTypes, AppendProperties
        <5>2. Torn.kind = "torn"
          BY DEF Torn, NoRecord
        <5>3. FileLen' = n /\ Durable' = n
          BY <1>2, <4>2, <4>3, <5>1, <5>2 DEF FileLen, WholeLen, Durable
        <5>4. n <= FileLen /\ Durable <= n
          BY <1>1, <1>2, <4>1, <4>2, <4>4, <4>6 DEF Durable
        <5> QED BY <1>1, <4>2, <5>1, <5>3, <5>4
      <4> QED BY <4>1, <4>5, <4>6 DEF s
    <3> QED BY <1>6, <3>1, <3>2
  <2>4. \A i \in 1..LogLen' : Source'[i] = Source[i]
    BY <1>1, <2>2, <2>3
  <2>5. LogLen' <= LogLen /\ Durable \in Nat
    BY <1>1, <2>2, <2>3
  <2>6. Log!Lose
    BY <1>0, <2>1, <2>2, <2>3, <2>4, <2>5, LogLoses
  <2> QED BY <2>1, <2>6 DEF HistoryWhole, Log!Next
<1> QED BY <1>3, <1>4, <1>5, <1>6 DEF ReplayNext

(***************************************************************************)
(* The write-ahead log, as the engine uses it (without ack), implements    *)
(* the log its callers rely on: every step of callers, writer, shutdown,   *)
(* crash and recovery accepts, syncs, reports or loses records as module   *)
(* DurableLog says, or changes nothing there.                              *)
(***************************************************************************)
THEOREM WalImplementsDurableLog ==
    ASSUME ~Acks
    PROVE  Spec => ImplementsDurableLog
<1>0. WholeWritesOrNoAcks
  BY DEF WholeWritesOrNoAcks
<1>1. Init => HistoryWhole /\ Log!Init
  <2>1. SUFFICES ASSUME Init PROVE HistoryWhole /\ Log!Init
    OBVIOUS
  <2>2. Len(history) = 0 /\ SubSeq(<<>>, 1, 0) = <<>>
    BY <2>1, EmptySeq DEF Init
  <2>3. AbstractLog = <<>>
    BY <2>1 DEF Init, AbstractLog, Whole
  <2>4. TypeOK
    BY <2>1, InitTypeOK
  <2>5. AbstractDurable = 0
    BY <2>1, <2>4, LogFacts DEF LogIs, Durable, Init
  <2> QED BY <2>1, <2>2, <2>3, <2>5 DEF HistoryWhole, Log!Init, Init
<1>2. /\ TypeOK /\ TypeOK' /\ Control /\ FileInv /\ OrderInv /\ HistoryWhole /\ [Next]_vars
      => HistoryWhole' /\ [Log!Next]_(Log!vars)
  <2>1. SUFFICES ASSUME TypeOK, TypeOK', Control, LogInv, [Next]_vars
                 PROVE  HistoryWhole' /\ [Log!Next]_(Log!vars)
    BY DEF LogInv
  <2>2. CASE UNCHANGED vars
    <3>1. UNCHANGED <<phase, history, file, synced, promised, failed>>
      BY <2>2 DEF vars, phaseVars, queueVars, fileVars, ghostVars
    <3>2. HistoryWhole'
      BY <2>1, <3>1 DEF LogInv, HistoryWhole
    <3>3. UNCHANGED Log!vars
      BY <3>1 DEF Log!vars, AbstractLog, AbstractDurable, Whole, Prefix
    <3> QED BY <3>2, <3>3
  <2>3. ASSUME NEW c \in Clients, CallerNext(c) PROVE HistoryWhole' /\ [Log!Next]_(Log!vars)
    BY <2>1, <2>3, CallerLog
  <2>4. CASE WorkerNext
    BY <2>1, <2>4, WorkerLog
  <2>5. CASE ReplayNext \/ Deinit \/ Reopen \/ Crash
    BY <2>1, <2>5, OtherLog
  <2> QED BY <2>1, <2>2, <2>3, <2>4, <2>5 DEF Next
<1>3. Spec => []FileInv
  BY <1>0, FileInvariant
<1> QED BY <1>1, <1>2, <1>3, WalTypeOK, OrderInvariant, PTL
        DEF Spec, ImplementsDurableLog, Log!Spec
=============================================================================
