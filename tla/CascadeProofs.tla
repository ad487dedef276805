--------------------------- MODULE CascadeProofs ---------------------------
(***************************************************************************)
(* Theorems about a module session, for every finite set of keys, every    *)
(* set of rules, every index, capacity, depth and set of faults and every  *)
(* bound.                                                                  *)
(***************************************************************************)
EXTENDS CascadeProperties, SequenceLemmas

Entities == {EntityOf[k] : k \in Keys}

-----------------------------------------------------------------------------
(* The inductive invariant, in parts.                                      *)

(* Where the loop is: a run has work to do and cycles left, nothing is in  *)
(* progress between runs, and only the rule that is executing is claimed.  *)
Between == pc \in {"idle", "stopped"}
Fresh == pc = "cycle" /\ depth = 0

LoopOK ==
    /\ Between \/ Fresh => queue = <<>> /\ outputs = <<>> /\ undo = <<>>
    /\ ~Between => pending # <<>>
    /\ pc = "cycle" => depth < MaxDepth
    /\ pc \in {"dispatch", "rule", "check", "flush"} => depth > 0
    /\ pc = "flush" => queue = <<>>
    /\ pc = "rule" => rule \in Rules
    /\ claims = IF pc = "rule" THEN {Claim(rule)} ELSE {}

(* Nothing is newer than the clock.                                        *)
ClockOK == \A k \in Keys : facts[k] <= clock /\ lww[k].ts <= clock

(* The writes of a cascade: each has its undo entry, they are newer than   *)
(* what is stored and in order, and those not yet served are queued.       *)
Served == Len(outputs) - Len(queue)

WritesOK ==
    /\ Len(undo) = Len(outputs)
    /\ \A i \in 1..Len(outputs) :
         /\ undo[i].key = outputs[i].key /\ undo[i].ts = outputs[i].ts
         /\ undo[i].previous.ts < undo[i].ts
         /\ outputs[i].ts <= clock /\ outputs[i].ts > facts[outputs[i].key]
         /\ \A j \in 1..Len(outputs) : i < j => outputs[i].ts < outputs[j].ts
    /\ Len(queue) <= Len(outputs)
    /\ \A j \in 1..Len(queue) : queue[j] = outputs[Served + j].key

(* The undo entries of a key form a chain from the cell before the cascade *)
(* to the cached one.                                                      *)
WrittenBetween(i, j, k) == \E x \in 1..Len(undo) : i < x /\ x < j /\ undo[x].key = k

ChainOK ==
    \A i \in 1..Len(undo) :
        /\ ~WrittenBetween(i, Len(undo) + 1, undo[i].key) => lww[undo[i].key].ts = undo[i].ts
        /\ \A j \in 1..Len(undo) :
             i < j /\ undo[j].key = undo[i].key /\ ~WrittenBetween(i, j, undo[i].key)
               => undo[j].previous.ts = undo[i].ts

(* Pending work is in the order of its ids and stands for stored facts.    *)
PendingOK ==
    \A i \in 1..Len(pending) :
        /\ pending[i].id < next_id
        /\ facts[pending[i].key] > 0
        /\ \A j \in 1..Len(pending) : i < j => pending[i].id < pending[j].id

(* A rule is still to be run in this cycle on that key.                    *)
Waiting(k, r) == pc \in {"dispatch", "rule"} /\ dirty = k /\ r \in ToSet(todo)

(* What was served has woken its watchers, or is about to.                 *)
WakeupOK ==
    /\ \A i \in 1..Served : \A r \in ToSet(Watchers[outputs[i].key]) :
         \/ ran[<<r, EntityOf[outputs[i].key]>>] >= outputs[i].ts
         \/ Waiting(outputs[i].key, r)
    /\ ~Between /\ ~Fresh =>
         /\ trigger = pending[1].id
         /\ \A r \in ToSet(Watchers[pending[1].key]) :
              \/ ran[<<r, EntityOf[pending[1].key]>>] > 0
              \/ Waiting(pending[1].key, r)

LoopInv == TypeOK /\ LoopOK /\ ClockOK /\ WritesOK /\ ChainOK /\ PendingOK /\ WakeupOK

(* Cells are as slung_get parses them, and those from before the cascade   *)
(* are the stored ones.                                                    *)
CoherentCell(k, cell) ==
    IF k \in missed THEN \E t \in 1..(facts[k] - 1) : cell = Json(t)
                    ELSE cell \in {NoCell, Stored(k)}

CacheOK ==
    /\ \A k \in Keys :
         /\ lww[k] = NoCell \/ (lww[k].ts > 0 /\ lww[k] = Json(lww[k].ts))
         /\ ~WrittenBetween(0, Len(undo) + 1, k) => CoherentCell(k, lww[k])
    /\ \A i \in 1..Len(undo) :
         ~WrittenBetween(0, i, undo[i].key) => CoherentCell(undo[i].key, undo[i].previous)

-----------------------------------------------------------------------------
(* The operators of the model.                                             *)

(* removeLast takes out one occurrence, if there is one, and keeps the     *)
(* others in order.                                                        *)
LEMMA RemoveLastProperties ==
    ASSUME NEW q \in Seq(Keys), NEW k
    PROVE  /\ RemoveLast(q, k) \in Seq(Keys)
           /\ (\A i \in 1..Len(q) : q[i] # k) => RemoveLast(q, k) = q
           /\ (\E i \in 1..Len(q) : q[i] = k) =>
                \E at \in 1..Len(q) : q[at] = k /\ RemoveLast(q, k) = RemoveAt(q, at)
<1> DEFINE I == {i \in 1..Len(q) : q[i] = k}
           at == IF I # {} THEN Max(I) ELSE 0
<1>1. RemoveLast(q, k) = IF at = 0 THEN q ELSE RemoveAt(q, at)
  BY DEF RemoveLast, SelectLastInSeq
<1>2. Len(q) \in Nat /\ I \in SUBSET (1..Len(q))
  BY LenProperties
<1>3. CASE I = {}
  BY <1>1, <1>3
<1>4. CASE I # {}
  <2>1. Max(I) \in I
    <3> HIDE DEF I
    <3> QED BY <1>2, <1>4, MaxOfPart
  <2>2. at \in 1..Len(q) /\ at # 0 /\ q[at] = k
    BY <1>4, <2>1
  <2>3. RemoveAt(q, at) \in Seq(Keys)
    <3> HIDE DEF at
    <3> QED BY <2>2, RemoveAtProperties
  <2> HIDE DEF at
  <2> QED BY <1>1, <2>2, <2>3
<1> QED BY <1>3, <1>4

-----------------------------------------------------------------------------
(* The folds of the model, as the steps they take.                         *)

(* discardCascade undoes the writes one by one, the newest first.          *)
LEMMA UndoneSteps ==
    ASSUME TypeOK
    PROVE  \E e : /\ e[Len(undo)] = lww /\ e[0] = Undone
                 /\ \A i \in 1..Len(undo) : e[i - 1] = RollbackPut(undo[i], e[i])
<1> DEFINE n == Len(undo)
           A == [Keys -> Cells]
           F == [x \in (1..n) \X A |-> RollbackPut(undo[x[1]], x[2])]
           pick == [s \in SUBSET (1..n) |-> Min(s)]
           R(h) == h = [s \in SUBSET (DOMAIN undo) |->
                          IF s = {} THEN lww
                          ELSE RollbackPut(undo[Min(s)], h[s \ {Min(s)}])]
<1>1. Undone = (CHOOSE h : R(h))[DOMAIN undo]
  BY DEF Undone, FoldRight, MapThenFoldSet
<1>2. n \in Nat /\ DOMAIN undo = 1..n /\ lww \in A
  BY LenProperties DEF TypeOK
<1>3. F \in [(1..n) \X A -> A]
  <2>1. ASSUME NEW i \in 1..n, NEW l \in A PROVE RollbackPut(undo[i], l) \in A
    <3>1. undo[i] \in [key : Keys, ts : Nat, previous : Cells]
      BY ElementOfSeq DEF TypeOK
    <3> QED BY <3>1 DEF RollbackPut
  <2> QED BY <2>1
<1>4. Picks(n, pick)
  <2> SUFFICES ASSUME NEW s \in SUBSET (1..n), s # {} PROVE Min(s) \in s
    BY DEF Picks
  <2>1. s \subseteq Nat
    BY <1>2
  <2> QED BY <2>1, MinIsLeast
<1> HIDE DEF n
<1>5. PICK g : FoldedBy(n, A, lww, F, pick, g)
  <2> HIDE DEF F, pick, A
  <2> QED BY <1>2, <1>3, <1>4, FoldExists
<1>6. R(g)
  <2>1. ASSUME NEW s \in SUBSET (1..n), s # {}
        PROVE  g[s] = RollbackPut(undo[Min(s)], g[s \ {Min(s)}])
    <3>1. Min(s) \in s /\ pick[s] = Min(s)
      BY <1>4, <2>1 DEF Picks
    <3>2. <<Min(s), g[s \ {Min(s)}]>> \in (1..n) \X A
      BY <1>5, <3>1 DEF FoldedBy
    <3> QED BY <1>5, <2>1, <3>1, <3>2 DEF FoldedBy
  <2> QED BY <1>2, <1>5, <2>1 DEF FoldedBy
<1> DEFINE h == CHOOSE h : R(h)
<1>7. R(h)
  <2> HIDE DEF R
  <2> QED BY <1>6
<1> HIDE DEF h
<1>8. h[{}] = lww /\ \A s \in SUBSET (1..n) :
        s # {} => h[s] = RollbackPut(undo[Min(s)], h[s \ {Min(s)}])
  BY <1>2, <1>7
<1> DEFINE e == [i \in 0..n |-> h[(i + 1)..n]]
<1>9. e[n] = lww /\ e[0] = Undone
  BY <1>1, <1>2, <1>8 DEF h
<1>10. ASSUME NEW i \in 1..n PROVE e[i - 1] = RollbackPut(undo[i], e[i])
  <2>1. e[i - 1] = h[i..n] /\ e[i] = h[(i + 1)..n]
    BY <1>2
  <2>2. Min(i..n) = i /\ (i..n) \ {i} = (i + 1)..n /\ i..n # {}
    BY <1>2, IntervalEnds
  <2>3. i..n \in SUBSET (1..n)
    BY <1>2
  <2> QED BY <1>8, <2>1, <2>2, <2>3
<1> QED BY <1>9, <1>10 DEF n

(* It takes the signals of the cascade out of the queue one by one.        *)
LEMMA UnqueuedSteps ==
    ASSUME TypeOK
    PROVE  \E e : /\ e[0] = queue /\ e[Len(outputs)] = Unqueued
                 /\ \A i \in 1..Len(outputs) : e[i] = RemoveLast(e[i - 1], outputs[i].key)
<1> DEFINE n == Len(outputs)
           A == Seq(Keys)
           F == [x \in (1..n) \X A |-> RemoveLast(x[2], outputs[x[1]].key)]
           pick == [s \in SUBSET (1..n) |-> Max(s)]
           R(h) == h = [s \in SUBSET (DOMAIN outputs) |->
                          IF s = {} THEN queue
                          ELSE RemoveLast(h[s \ {Max(s)}], outputs[Max(s)].key)]
<1>1. Unqueued = (CHOOSE h : R(h))[DOMAIN outputs]
  BY DEF Unqueued, FoldLeft, MapThenFoldSet
<1>2. n \in Nat /\ DOMAIN outputs = 1..n /\ queue \in A
  BY LenProperties DEF TypeOK
<1>3. F \in [(1..n) \X A -> A]
  BY RemoveLastProperties
<1>4. Picks(n, pick)
  <2> SUFFICES ASSUME NEW s \in SUBSET (1..n), s # {} PROVE Max(s) \in s
    BY DEF Picks
  <2> QED BY <1>2, MaxOfPart
<1> HIDE DEF n
<1>5. PICK g : FoldedBy(n, A, queue, F, pick, g)
  <2> HIDE DEF F, pick, A
  <2> QED BY <1>2, <1>3, <1>4, FoldExists
<1>6. R(g)
  <2>1. ASSUME NEW s \in SUBSET (1..n), s # {}
        PROVE  g[s] = RemoveLast(g[s \ {Max(s)}], outputs[Max(s)].key)
    <3>1. Max(s) \in s /\ pick[s] = Max(s)
      BY <1>4, <2>1 DEF Picks
    <3>2. <<Max(s), g[s \ {Max(s)}]>> \in (1..n) \X A
      BY <1>5, <3>1 DEF FoldedBy
    <3> QED BY <1>5, <2>1, <3>1, <3>2 DEF FoldedBy
  <2> QED BY <1>2, <1>5, <2>1 DEF FoldedBy
<1> DEFINE h == CHOOSE h : R(h)
<1>7. R(h)
  <2> HIDE DEF R
  <2> QED BY <1>6
<1> HIDE DEF h
<1>8. h[{}] = queue /\ \A s \in SUBSET (1..n) :
        s # {} => h[s] = RemoveLast(h[s \ {Max(s)}], outputs[Max(s)].key)
  BY <1>2, <1>7
<1> DEFINE e == [i \in 0..n |-> h[1..i]]
<1>9. e[0] = queue /\ e[n] = Unqueued
  BY <1>1, <1>2, <1>8 DEF h
<1>10. ASSUME NEW i \in 1..n PROVE e[i] = RemoveLast(e[i - 1], outputs[i].key)
  <2>1. e[i - 1] = h[1..(i - 1)] /\ e[i] = h[1..i]
    BY <1>2
  <2>2. Max(1..i) = i /\ (1..i) \ {i} = 1..(i - 1) /\ 1..i # {}
    BY <1>2, IntervalEnds
  <2>3. 1..i \in SUBSET (1..n)
    BY <1>2
  <2> QED BY <1>8, <2>1, <2>2, <2>3
<1> QED BY <1>9, <1>10 DEF n

(* flushCascade persists the outputs one by one, the oldest first.         *)
Persist(f, o) == IF o.ts > f[o.key] THEN [f EXCEPT ![o.key] = o.ts] ELSE f

LEMMA FlushSteps ==
    ASSUME TypeOK, Flush
    PROVE  \E e : /\ e[0] = facts /\ e[Len(outputs)] = facts'
                 /\ \A i \in 1..Len(outputs) : e[i] = Persist(e[i - 1], outputs[i])
<1> DEFINE n == Len(outputs)
           A == [Keys -> Nat]
           F == [x \in (1..n) \X A |-> Persist(x[2], outputs[x[1]])]
           pick == [s \in SUBSET (1..n) |-> Max(s)]
           R(h) == h = [s \in SUBSET (DOMAIN outputs) |->
                          IF s = {} THEN facts
                          ELSE Persist(h[s \ {Max(s)}], outputs[Max(s)])]
<1>1. facts' = (CHOOSE h : R(h))[DOMAIN outputs]
  BY DEF Flush, FoldLeft, MapThenFoldSet, Persist
<1>2. n \in Nat /\ DOMAIN outputs = 1..n /\ facts \in A
  BY LenProperties DEF TypeOK
<1>3. F \in [(1..n) \X A -> A]
  <2>1. ASSUME NEW i \in 1..n, NEW f \in A PROVE Persist(f, outputs[i]) \in A
    <3>1. outputs[i] \in [key : Keys, ts : Nat]
      BY ElementOfSeq DEF TypeOK
    <3> QED BY <3>1 DEF Persist
  <2> QED BY <2>1
<1>4. Picks(n, pick)
  <2> SUFFICES ASSUME NEW s \in SUBSET (1..n), s # {} PROVE Max(s) \in s
    BY DEF Picks
  <2> QED BY <1>2, MaxOfPart
<1> HIDE DEF n
<1>5. PICK g : FoldedBy(n, A, facts, F, pick, g)
  <2> HIDE DEF F, pick, A
  <2> QED BY <1>2, <1>3, <1>4, FoldExists
<1>6. R(g)
  <2>1. ASSUME NEW s \in SUBSET (1..n), s # {}
        PROVE  g[s] = Persist(g[s \ {Max(s)}], outputs[Max(s)])
    <3>1. Max(s) \in s /\ pick[s] = Max(s)
      BY <1>4, <2>1 DEF Picks
    <3>2. <<Max(s), g[s \ {Max(s)}]>> \in (1..n) \X A
      BY <1>5, <3>1 DEF FoldedBy
    <3> QED BY <1>5, <2>1, <3>1, <3>2 DEF FoldedBy
  <2> QED BY <1>2, <1>5, <2>1 DEF FoldedBy
<1> DEFINE h == CHOOSE h : R(h)
<1>7. R(h)
  <2> HIDE DEF R
  <2> QED BY <1>6
<1> HIDE DEF h
<1>8. h[{}] = facts /\ \A s \in SUBSET (1..n) :
        s # {} => h[s] = Persist(h[s \ {Max(s)}], outputs[Max(s)])
  BY <1>2, <1>7
<1> DEFINE e == [i \in 0..n |-> h[1..i]]
<1>9. e[0] = facts /\ e[n] = facts'
  BY <1>1, <1>2, <1>8 DEF h
<1>10. ASSUME NEW i \in 1..n PROVE e[i] = Persist(e[i - 1], outputs[i])
  <2>1. e[i - 1] = h[1..(i - 1)] /\ e[i] = h[1..i]
    BY <1>2
  <2>2. Max(1..i) = i /\ (1..i) \ {i} = 1..(i - 1) /\ 1..i # {}
    BY <1>2, IntervalEnds
  <2>3. 1..i \in SUBSET (1..n)
    BY <1>2
  <2> QED BY <1>8, <2>1, <2>2, <2>3
<1> QED BY <1>9, <1>10 DEF n

-----------------------------------------------------------------------------
(* What the operators compute.                                             *)

(* The sort has a first element.                                           *)
LEMMA FirstIsIndex ==
    ASSUME NEW s \in Seq(Rules), s # <<>>
    PROVE  First(s) \in 1..Len(s)
<1> DEFINE n == Len(s)
           Before(i, j) == \/ Priority[s[i]] > Priority[s[j]]
                           \/ Priority[s[i]] = Priority[s[j]] /\ i <= j
           P == {i \in 0..n : i = 0 \/ \E c \in 1..i : \A j \in 1..i : Before(c, j)}
<1>1. n \in Nat \ {0} /\ DOMAIN s = 1..n
  BY EmptySeq, LenProperties
<1>2. \A i \in 1..n : Priority[s[i]] \in Nat
  BY ElementOfSeq, CascadeAssumption
<1> HIDE DEF n
<1>3. 0 \in P
  BY <1>1
<1>4. ASSUME NEW i \in 1..n, i - 1 \in P PROVE i \in P
  <2>1. CASE i = 1
    <3>1. Before(1, 1)
      BY <1>2, <2>1
    <3> QED BY <2>1, <3>1
  <2>2. CASE i # 1
    <3>1. PICK c \in 1..(i - 1) : \A j \in 1..(i - 1) : Before(c, j)
      BY <1>4, <2>2
    <3>2. CASE Priority[s[c]] >= Priority[s[i]]
      <4>1. \A j \in 1..i : Before(c, j)
        BY <1>1, <1>2, <3>1, <3>2
      <4> QED BY <1>1, <4>1
    <3>3. CASE Priority[s[i]] > Priority[s[c]]
      <4>1. ASSUME NEW j \in 1..i PROVE Before(i, j)
        BY <1>1, <1>2, <3>1, <3>3
      <4> QED BY <1>1, <4>1
    <3> QED BY <1>1, <1>2, <3>2, <3>3
  <2> QED BY <2>1, <2>2
<1>5. n \in P
  <2> HIDE DEF P
  <2> QED BY <1>1, <1>3, <1>4, IntervalInduction
<1>6. \E i \in DOMAIN s : \A j \in DOMAIN s : Before(i, j)
  BY <1>1, <1>5
<1>7. First(s) = CHOOSE i \in DOMAIN s : \A j \in DOMAIN s : Before(i, j)
  BY DEF First
<1> HIDE DEF Before
<1> QED BY <1>1, <1>6, <1>7 DEF n

(* What discarding a cascade leaves in the cache: the cell from before its *)
(* first write of a key, and the cached one if there was none.             *)
LEMMA UndoneIs ==
    ASSUME TypeOK, ChainOK
    PROVE  /\ Undone \in [Keys -> Cells]
           /\ \A k \in Keys : ~WrittenBetween(0, Len(undo) + 1, k) => Undone[k] = lww[k]
           /\ \A i \in 1..Len(undo) :
                ~WrittenBetween(0, i, undo[i].key) => Undone[undo[i].key] = undo[i].previous
<1> DEFINE n == Len(undo)
<1>1. PICK e : /\ e[n] = lww /\ e[0] = Undone
               /\ \A i \in 1..n : e[i - 1] = RollbackPut(undo[i], e[i])
  BY UndoneSteps
<1>2. n \in Nat /\ \A i \in 1..n : undo[i] \in [key : Keys, ts : Nat, previous : Cells]
  BY LenProperties, ElementOfSeq DEF TypeOK
<1> DEFINE Inv(i) ==
             /\ e[i] \in [Keys -> Cells]
             /\ \A k \in Keys : ~WrittenBetween(i, n + 1, k) => e[i][k] = lww[k]
             /\ \A j \in 1..n : i < j /\ ~WrittenBetween(i, j, undo[j].key)
                                  => e[i][undo[j].key] = undo[j].previous
           P == {d \in 0..n : Inv(n - d)}
<1>3. Inv(n)
  BY <1>1, <1>2 DEF TypeOK
<1>4. ASSUME NEW i \in 1..n, Inv(i) PROVE Inv(i - 1)
  <2> DEFINE u == undo[i]
  <2>1. e[i - 1] = RollbackPut(u, e[i]) /\ u.key \in Keys /\ u.previous \in Cells
    BY <1>1, <1>2
  <2>2. e[i][u.key].ts = u.ts
    <3>1. CASE ~WrittenBetween(i, n + 1, u.key)
      BY <1>4, <2>1, <3>1 DEF ChainOK
    <3>2. CASE WrittenBetween(i, n + 1, u.key)
      <4> DEFINE J == {x \in 1..n : i < x /\ undo[x].key = u.key}
      <4>1. J \subseteq Nat /\ J # {}
        BY <1>2, <3>2 DEF WrittenBetween
      <4>2. Min(J) \in J /\ \A y \in J : Min(J) =< y
        <5> HIDE DEF J
        <5> QED BY <4>1, MinIsLeast
      <4> DEFINE j == Min(J)
      <4>3. j \in 1..n /\ i < j /\ undo[j].key = u.key
        BY <4>2
      <4>4. ~WrittenBetween(i, j, u.key)
        BY <1>2, <4>2, <4>3 DEF WrittenBetween
      <4> HIDE DEF j
      <4>5. e[i][u.key] = undo[j].previous
        BY <1>4, <4>3, <4>4
      <4>6. undo[j].previous.ts = u.ts
        BY <4>3, <4>4 DEF ChainOK
      <4> QED BY <4>5, <4>6
    <3> QED BY <3>1, <3>2
  <2>3. e[i - 1] = [e[i] EXCEPT ![u.key] = u.previous]
    BY <2>1, <2>2 DEF RollbackPut
  <2>4. e[i - 1] \in [Keys -> Cells]
    BY <1>4, <2>1, <2>3
  <2>5. ASSUME NEW k \in Keys, ~WrittenBetween(i - 1, n + 1, k) PROVE e[i - 1][k] = lww[k]
    <3>1. k # u.key /\ ~WrittenBetween(i, n + 1, k)
      BY <1>2, <2>5 DEF WrittenBetween
    <3> QED BY <1>4, <2>3, <3>1
  <2>6. ASSUME NEW j \in 1..n, i - 1 < j, ~WrittenBetween(i - 1, j, undo[j].key)
        PROVE  e[i - 1][undo[j].key] = undo[j].previous
    <3>1. CASE j = i
      BY <1>4, <2>1, <2>3, <3>1
    <3>2. CASE j # i
      <4>1. undo[j].key # u.key /\ i < j /\ ~WrittenBetween(i, j, undo[j].key)
        BY <1>2, <2>6, <3>2 DEF WrittenBetween
      <4>2. undo[j].key \in Keys
        BY <1>2
      <4> QED BY <1>4, <2>3, <4>1, <4>2
    <3> QED BY <3>1, <3>2
  <2> QED BY <2>4, <2>5, <2>6
<1>5. 0 \in P
  BY <1>2, <1>3
<1>6. ASSUME NEW d \in 1..n, d - 1 \in P PROVE d \in P
  <2> DEFINE i == n - (d - 1)
  <2>1. i \in 1..n /\ i - 1 = n - d
    BY <1>2
  <2>2. Inv(i)
    BY <1>6
  <2> HIDE DEF Inv, i
  <2>3. Inv(i - 1)
    BY <1>4, <2>1, <2>2
  <2> QED BY <1>2, <2>1, <2>3
<1>7. n \in P
  <2> HIDE DEF P, n
  <2> QED BY <1>2, <1>5, <1>6, IntervalInduction
<1>8. Inv(0)
  <2>1. PICK i \in {0} : i = n - n
    BY <1>2
  <2>2. Inv(i)
    BY <1>7, <2>1
  <2> QED BY <2>2
<1> QED BY <1>1, <1>2, <1>8

(* Discarding a cascade empties the queue: every signal in it is that of   *)
(* an output of its own, and each output takes out one signal of its key.  *)
LEMMA UnqueuedIsEmpty ==
    ASSUME TypeOK, WritesOK
    PROVE  Unqueued = <<>>
<1> DEFINE n == Len(outputs)
<1>1. PICK e : /\ e[0] = queue /\ e[n] = Unqueued
               /\ \A i \in 1..n : e[i] = RemoveLast(e[i - 1], outputs[i].key)
  BY UnqueuedSteps
<1>2. n \in Nat /\ queue \in Seq(Keys) /\ Len(queue) \in Nat
  BY LenProperties DEF TypeOK
<1> DEFINE Own(i, f, q) ==
             /\ f \in [1..Len(q) -> (i + 1)..n]
             /\ \A j \in 1..Len(q) : q[j] = outputs[f[j]].key
             /\ \A j, x \in 1..Len(q) : f[j] = f[x] => j = x
           Inv(i) == e[i] \in Seq(Keys) /\ \E f : Own(i, f, e[i])
           P == {i \in 0..n : Inv(i)}
<1>3. Inv(0)
  <2> DEFINE f == [j \in 1..Len(queue) |-> Served + j]
  <2>1. Served \in Nat /\ Served + Len(queue) = n
    BY <1>2 DEF WritesOK, Served
  <2>2. Own(0, f, queue)
    BY <1>2, <2>1 DEF WritesOK
  <2> HIDE DEF Own
  <2> QED BY <1>1, <1>2, <2>2
<1>4. ASSUME NEW i \in 1..n, Inv(i - 1) PROVE Inv(i)
  <2> DEFINE q == e[i - 1]
             k == outputs[i].key
             m == Len(q)
  <2>1. q \in Seq(Keys) /\ e[i] = RemoveLast(q, k) /\ m \in Nat
    BY <1>1, <1>4, LenProperties
  <2>2. PICK f : Own(i - 1, f, q)
    BY <1>4
  <2>3. f \in [1..m -> i..n] /\ \A j \in 1..m : q[j] = outputs[f[j]].key
    BY <1>2, <2>2
  <2>4. CASE \A j \in 1..m : q[j] # k
    <3>1. e[i] = q
      BY <2>1, <2>4, RemoveLastProperties
    <3>2. \A j \in 1..m : f[j] # i
      BY <2>3, <2>4
    <3>3. f \in [1..m -> (i + 1)..n]
      BY <1>2, <2>3, <3>2
    <3>4. Own(i, f, q)
      BY <2>2, <2>3, <3>3
    <3> HIDE DEF Own
    <3> QED BY <2>1, <3>1, <3>4
  <2>5. CASE \E j \in 1..m : q[j] = k
    <3>1. PICK at \in 1..m : q[at] = k /\ e[i] = RemoveAt(q, at)
      BY <2>1, <2>5, RemoveLastProperties
    <3>2. /\ e[i] \in Seq(Keys) /\ Len(e[i]) = m - 1
          /\ \A j \in 1..(m - 1) : e[i][j] = IF j < at THEN q[j] ELSE q[j + 1]
      BY <2>1, <3>1, RemoveAtProperties
    <3> DEFINE g == [j \in 1..m |-> IF f[j] = i THEN f[at] ELSE f[j]]
    <3>3. \A j \in 1..m : j # at => g[j] \in (i + 1)..n
      <4>1. ASSUME NEW j \in 1..m, j # at PROVE g[j] \in i..n /\ g[j] # i
        BY <2>2, <2>3, <4>1
      <4>2. \A v \in i..n : v # i => v \in (i + 1)..n
        BY <1>2
      <4> HIDE DEF g
      <4> QED BY <4>1, <4>2
    <3>4. \A j \in 1..m : j # at => q[j] = outputs[g[j]].key
      BY <2>3, <3>1
    <3>5. \A j, x \in 1..m : j # at /\ x # at /\ g[j] = g[x] => j = x
      BY <2>2, <2>3
    <3> DEFINE o == [j \in 1..(m - 1) |-> IF j < at THEN j ELSE j + 1]
               h == [j \in 1..(m - 1) |-> g[o[j]]]
    <3>6. \A j \in 1..(m - 1) : o[j] \in 1..m /\ o[j] # at /\ e[i][j] = q[o[j]]
      BY <2>1, <3>2
    <3>7. \A j, x \in 1..(m - 1) : o[j] = o[x] => j = x
      BY <2>1
    <3> HIDE DEF g, o
    <3>8. h \in [1..(m - 1) -> (i + 1)..n]
      BY <3>3, <3>6
    <3>9. \A j \in 1..(m - 1) : e[i][j] = outputs[h[j]].key
      BY <3>4, <3>6
    <3>10. \A j, x \in 1..(m - 1) : h[j] = h[x] => j = x
      BY <3>5, <3>6, <3>7
    <3> HIDE DEF h
    <3>11. Own(i, h, e[i])
      BY <3>2, <3>8, <3>9, <3>10
    <3> HIDE DEF Own
    <3> QED BY <3>2, <3>11
  <2> QED BY <2>4, <2>5
<1>5. n \in P
  <2>1. 0 \in P
    BY <1>2, <1>3
  <2>2. \A i \in 1..n : i - 1 \in P => i \in P
    <3> HIDE DEF Inv
    <3> QED BY <1>2, <1>4
  <2> HIDE DEF P, n
  <2> QED BY <1>2, <2>1, <2>2, IntervalInduction
<1>6. Unqueued \in Seq(Keys) /\ \E f : Own(n, f, Unqueued)
  BY <1>1, <1>5
<1>7. Len(Unqueued) = 0
  <2>1. Len(Unqueued) \in Nat
    BY <1>6, LenProperties
  <2>2. PICK f : f \in [1..Len(Unqueued) -> (n + 1)..n]
    BY <1>6
  <2>3. (n + 1)..n = {}
    BY <1>2
  <2>4. ASSUME Len(Unqueued) # 0 PROVE FALSE
    <3>1. 1 \in 1..Len(Unqueued)
      BY <2>1, <2>4
    <3>2. f[1] \in (n + 1)..n
      BY <2>2, <3>1
    <3> QED BY <2>3, <3>2
  <2> QED BY <2>4
<1> QED BY <1>6, <1>7, EmptySeq

(* What a checkpoint leaves in the store: the last output of every key.    *)
LEMMA FlushedFacts ==
    ASSUME TypeOK, WritesOK, Flush
    PROVE  /\ facts' \in [Keys -> Nat]
           /\ \A k \in Keys : \/ facts'[k] = facts[k]
                               \/ \E i \in 1..Len(outputs) : facts'[k] = outputs[i].ts
           /\ \A k \in Keys : (\A i \in 1..Len(outputs) : outputs[i].key # k)
                               => facts'[k] = facts[k]
           /\ \A i \in 1..Len(outputs) :
                (\A x \in 1..Len(outputs) : i < x => outputs[x].key # outputs[i].key)
                  => facts'[outputs[i].key] = outputs[i].ts
           /\ \A k \in Keys : facts'[k] >= facts[k]
<1> DEFINE n == Len(outputs)
<1>1. PICK e : /\ e[0] = facts /\ e[n] = facts'
               /\ \A i \in 1..n : e[i] = Persist(e[i - 1], outputs[i])
  BY FlushSteps
<1>2. n \in Nat /\ \A i \in 1..n : outputs[i] \in [key : Keys, ts : Nat]
  BY LenProperties, ElementOfSeq DEF TypeOK
<1> DEFINE Inv(i) ==
             /\ e[i] \in [Keys -> Nat]
             /\ \A k \in Keys : (\A x \in 1..i : outputs[x].key # k) => e[i][k] = facts[k]
             /\ \A j \in 1..i : (\A x \in 1..i : j < x => outputs[x].key # outputs[j].key)
                                 => e[i][outputs[j].key] = outputs[j].ts
           P == {i \in 0..n : Inv(i)}
           Newest(i, k, j) == /\ j \in 1..i /\ outputs[j].key = k
                              /\ \A x \in 1..i : j < x => outputs[x].key # k
<1>3. ASSUME NEW i \in 0..n, NEW k, \E x \in 1..i : outputs[x].key = k
      PROVE  \E j \in 1..i : Newest(i, k, j)
  <2> DEFINE J == {x \in 1..i : outputs[x].key = k}
  <2>1. i \in Nat /\ J \in SUBSET (1..i) /\ J # {}
    BY <1>2, <1>3
  <2>2. Max(J) \in J /\ \A y \in J : Max(J) >= y
    <3> HIDE DEF J
    <3> QED BY <2>1, MaxOfPart
  <2> DEFINE j == Max(J)
  <2>3. j \in 1..i /\ outputs[j].key = k
    BY <2>2
  <2>4. \A x \in 1..i : outputs[x].key = k => j >= x
    BY <2>2
  <2> HIDE DEF j
  <2>5. Newest(i, k, j)
    BY <2>1, <2>3, <2>4
  <2> HIDE DEF Newest
  <2> QED BY <2>3, <2>5
<1>4. Inv(0)
  BY <1>1 DEF TypeOK
<1>5. ASSUME NEW i \in 1..n, Inv(i - 1) PROVE Inv(i)
  <2> DEFINE o == outputs[i]
  <2>1. e[i] = Persist(e[i - 1], o) /\ o.key \in Keys /\ o.ts \in Nat
    BY <1>1, <1>2
  <2>2. o.ts > e[i - 1][o.key]
    <3>1. CASE \A x \in 1..(i - 1) : outputs[x].key # o.key
      BY <1>5, <2>1, <3>1 DEF WritesOK
    <3>2. CASE \E x \in 1..(i - 1) : outputs[x].key = o.key
      <4>1. i - 1 \in 0..n
        BY <1>2
      <4>2. PICK j \in 1..(i - 1) : Newest(i - 1, o.key, j)
        <5> HIDE DEF Newest
        <5> QED BY <1>3, <3>2, <4>1
      <4>3. e[i - 1][o.key] = outputs[j].ts
        BY <1>5, <4>2
      <4>4. j \in 1..n /\ j < i
        BY <1>2
      <4>5. outputs[j].ts < outputs[i].ts
        BY <4>4 DEF WritesOK
      <4> QED BY <4>3, <4>5
    <3> QED BY <3>1, <3>2
  <2>3. e[i] = [e[i - 1] EXCEPT ![o.key] = o.ts]
    BY <2>1, <2>2 DEF Persist
  <2>4. e[i] \in [Keys -> Nat]
    BY <1>5, <2>1, <2>3
  <2>5. ASSUME NEW k \in Keys, \A x \in 1..i : outputs[x].key # k PROVE e[i][k] = facts[k]
    <3>1. k # o.key /\ \A x \in 1..(i - 1) : outputs[x].key # k
      BY <1>2, <2>5
    <3> QED BY <1>5, <2>3, <3>1
  <2>6. ASSUME NEW j \in 1..i, \A x \in 1..i : j < x => outputs[x].key # outputs[j].key
        PROVE  e[i][outputs[j].key] = outputs[j].ts
    <3>1. CASE j = i
      BY <1>5, <2>1, <2>3, <3>1
    <3>2. CASE j # i
      <4>1. /\ j \in 1..(i - 1) /\ outputs[j].key # o.key /\ outputs[j].key \in Keys
            /\ \A x \in 1..(i - 1) : j < x => outputs[x].key # outputs[j].key
        BY <1>2, <2>6, <3>2
      <4> QED BY <1>5, <2>3, <4>1
    <3> QED BY <3>1, <3>2
  <2> QED BY <2>4, <2>5, <2>6
<1>6. n \in P
  <2>1. 0 \in P
    BY <1>2, <1>4
  <2>2. \A i \in 1..n : i - 1 \in P => i \in P
    <3> HIDE DEF Inv
    <3> QED BY <1>2, <1>5
  <2> HIDE DEF P, n
  <2> QED BY <1>2, <2>1, <2>2, IntervalInduction
<1>7. ASSUME NEW k \in Keys
      PROVE  /\ facts'[k] = facts[k] \/ \E i \in 1..n : facts'[k] = outputs[i].ts
             /\ facts'[k] >= facts[k]
  <2>1. CASE \A x \in 1..n : outputs[x].key # k
    <3>1. facts'[k] = facts[k]
      BY <1>1, <1>6, <2>1
    <3>2. facts[k] \in Nat
      BY DEF TypeOK
    <3> QED BY <3>1, <3>2
  <2>2. CASE \E x \in 1..n : outputs[x].key = k
    <3>1. n \in 0..n
      BY <1>2
    <3>2. PICK j \in 1..n : Newest(n, k, j)
      <4> HIDE DEF Newest
      <4> QED BY <1>3, <2>2, <3>1
    <3>3. facts'[k] = outputs[j].ts
      BY <1>1, <1>6, <3>2
    <3>4. outputs[j].ts > facts[k] /\ outputs[j].ts \in Nat /\ facts[k] \in Nat
      BY <1>2, <3>2 DEF WritesOK, TypeOK
    <3> QED BY <3>3, <3>4
  <2> QED BY <2>1, <2>2
<1> QED BY <1>1, <1>6, <1>7

-----------------------------------------------------------------------------
(* The invariant is inductive: steps that end, discard or start a run.     *)

LEMMA KeyAndTables ==
    /\ NoKey \in Keys /\ NotRun \in [Rules \X Entities -> Nat]
    /\ NoCell \in Cells /\ \A t \in Nat : Json(t) \in Cells /\ Json(t).ts = t
    /\ NoCell.ts = 0 /\ \A t \in Nat : Json(t) # NoCell
<1>1. NoKey \in Keys
  BY CascadeAssumption DEF NoKey
<1>2. NotRun \in [Rules \X Entities -> Nat]
  BY DEF NotRun, Entities
<1>3. NoCell \in Cells /\ NoCell.ts = 0 /\ \A t \in Nat : Json(t) \in Cells /\ Json(t).ts = t
  BY DEF NoCell, Json, Cells, Absent
<1>4. \A t \in Nat : Json(t) # NoCell
  <2>1. NoCell.form = "none" /\ \A t \in Nat : Json(t).form = "json"
    BY DEF NoCell, Json
  <2> QED BY <2>1
<1> QED BY <1>1, <1>2, <1>3, <1>4

(* The discarded cell of a key, by cases.                                  *)
LEMMA UndoneCases ==
    ASSUME TypeOK, ChainOK, NEW k \in Keys
    PROVE  \/ ~WrittenBetween(0, Len(undo) + 1, k) /\ Undone[k] = lww[k]
           \/ \E i \in 1..Len(undo) :
                /\ undo[i].key = k /\ ~WrittenBetween(0, i, k)
                /\ Undone[k] = undo[i].previous
<1>1. CASE ~WrittenBetween(0, Len(undo) + 1, k)
  BY <1>1, UndoneIs
<1>2. CASE WrittenBetween(0, Len(undo) + 1, k)
  <2> DEFINE J == {x \in 1..Len(undo) : undo[x].key = k}
  <2>1. J \subseteq Nat /\ J # {} /\ Len(undo) \in Nat
    <3>1. Len(undo) \in Nat
      BY LenProperties DEF TypeOK
    <3> QED BY <1>2, <3>1 DEF WrittenBetween
  <2>2. Min(J) \in J /\ \A y \in J : Min(J) =< y
    <3> HIDE DEF J
    <3> QED BY <2>1, MinIsLeast
  <2> DEFINE i == Min(J)
  <2>3. i \in 1..Len(undo) /\ undo[i].key = k
    BY <2>2
  <2>4. ~WrittenBetween(0, i, k)
    BY <2>1, <2>2, <2>3 DEF WrittenBetween
  <2> HIDE DEF i
  <2> QED BY <2>3, <2>4, UndoneIs
<1> QED BY <1>1, <1>2

(* The type invariant, by component.                                       *)
StoreType ==
    /\ facts \in [Keys -> Nat] /\ clock \in Nat
    /\ pending \in Seq([id : Nat, key : Keys]) /\ next_id \in Nat
CacheType ==
    /\ lww \in [Keys -> Cells] /\ queue \in Seq(Keys)
    /\ outputs \in Seq([key : Keys, ts : Nat])
    /\ undo \in Seq([key : Keys, ts : Nat, previous : Cells])
LoopType ==
    /\ pc \in {"idle", "cycle", "dispatch", "rule", "check", "flush", "stopped"}
    /\ depth \in 0..MaxDepth /\ trigger \in Nat /\ dirty \in Keys
    /\ todo \in Seq(Rules) /\ rule \in Rules \union {NoRule}
    /\ sets \in 0..MaxSets
FlagsType == error \in BOOLEAN /\ fired \in BOOLEAN
RunsType ==
    /\ claims \subseteq Rules \X Entities /\ ran \in [Rules \X Entities -> Nat]
    /\ ingested \in Nat /\ restarts \in Nat /\ missed \subseteq Keys

LEMMA TypeParts == TypeOK <=> StoreType /\ CacheType /\ LoopType /\ RunsType /\ FlagsType
  BY Zenon DEF TypeOK, StoreType, CacheType, LoopType, RunsType, FlagsType, Entities

LEMMA LoopInit == Init => LoopInv
<1> SUFFICES ASSUME Init PROVE LoopInv
  OBVIOUS
<1>1. TypeOK
  <2>1. StoreType
    BY DEF Init, StoreType, Absent
  <2>2. CacheType
    BY KeyAndTables DEF Init, CacheType
  <2>3. LoopType
    BY KeyAndTables, CascadeAssumption DEF Init, LoopType
  <2>4. RunsType
    BY KeyAndTables DEF Init, RunsType
  <2>5. FlagsType
    BY Zenon DEF Init, FlagsType
  <2> QED BY <2>1, <2>2, <2>3, <2>4, <2>5, TypeParts
<1>2. Len(undo) = 0 /\ Len(outputs) = 0 /\ Len(queue) = 0 /\ Len(pending) = 0
  BY DEF Init
<1>3. LoopOK
  BY DEF Init, LoopOK, Between, Fresh
<1>4. ClockOK
  BY KeyAndTables DEF Init, ClockOK, Absent
<1>5. WritesOK /\ ChainOK /\ PendingOK
  BY <1>2 DEF WritesOK, ChainOK, PendingOK
<1>6. WakeupOK
  BY <1>2 DEF Init, WakeupOK, Served, Between
<1> QED BY <1>1, <1>3, <1>4, <1>5, <1>6 DEF LoopInv

(* Nothing of a cascade is left, so nothing of it can be wrong.            *)
LEMMA NothingLeft ==
    ASSUME outputs' = <<>>, undo' = <<>>, queue' = <<>>
    PROVE  WritesOK' /\ ChainOK' /\ Served' = 0
<1>1. Len(undo') = 0 /\ Len(outputs') = 0 /\ Len(queue') = 0
  OBVIOUS
<1> QED BY <1>1 DEF WritesOK, ChainOK, Served

LEMMA FailStep ==
    ASSUME LoopInv, Fail, claims' = {}
    PROVE  LoopInv'
<1> USE DEF LoopInv
<1>1. /\ outputs' = <<>> /\ undo' = <<>> /\ queue' = <<>> /\ lww' = Undone
      /\ lww' \in [Keys -> Cells]
  BY UnqueuedIsEmpty, UndoneIs DEF Fail, Discard
<1>2. TypeOK'
  <2>1. StoreType /\ CacheType /\ LoopType /\ RunsType /\ FlagsType
    BY TypeParts
  <2>2. StoreType'
    BY <2>1 DEF StoreType, Fail, storeVars
  <2>3. CacheType'
    BY <1>1, <2>1 DEF CacheType, Fail
  <2>4. LoopType'
    BY KeyAndTables, CascadeAssumption DEF LoopType, Fail, NoLocals
  <2>5. RunsType'
    BY <2>1, KeyAndTables DEF RunsType, Fail, NoLocals, histVars
  <2>6. FlagsType'
    BY <2>1, Zenon DEF FlagsType, Fail, NoLocals
  <2> QED BY <2>2, <2>3, <2>4, <2>5, <2>6, TypeParts, PTL
<1>3. LoopOK'
  BY <1>1 DEF LoopOK, Between, Fresh, Fail
<1>4. ClockOK'
  <2> SUFFICES ASSUME NEW k \in Keys PROVE facts'[k] <= clock' /\ lww'[k].ts <= clock'
    BY DEF ClockOK
  <2>1. facts' = facts /\ clock' = clock /\ clock \in Nat
    BY DEF Fail, storeVars, TypeOK
  <2>2. CASE Undone[k] = lww[k]
    BY <1>1, <2>1, <2>2 DEF ClockOK
  <2>3. CASE Undone[k] # lww[k]
    <3>1. PICK i \in 1..Len(undo) : Undone[k] = undo[i].previous
      BY <2>3, UndoneCases
    <3>2. /\ undo[i].previous.ts < undo[i].ts /\ undo[i].ts = outputs[i].ts
          /\ outputs[i].ts <= clock
      BY <3>1 DEF WritesOK
    <3>3. undo[i] \in [key : Keys, ts : Nat, previous : Cells]
      BY ElementOfSeq DEF TypeOK
    <3>4. undo[i].previous.ts \in Nat /\ undo[i].ts \in Nat
      BY <3>3 DEF Cells
    <3>5. undo[i].previous.ts <= clock
      BY <2>1, <3>2, <3>4
    <3> QED BY <1>1, <2>1, <3>1, <3>5 DEF ClockOK
  <2> QED BY <2>2, <2>3
<1>5. WritesOK' /\ ChainOK' /\ Served' = 0
  BY <1>1, NothingLeft
<1>6. PendingOK'
  BY DEF PendingOK, Fail, storeVars
<1>7. WakeupOK'
  BY <1>5 DEF WakeupOK, Between, Fail
<1> QED BY <1>2, <1>3, <1>4, <1>5, <1>6, <1>7

LEMMA FailSteps ==
    ASSUME LoopInv, RuleTraps \/ CycleOom \/ CheckFails \/ FlushFails
    PROVE  LoopInv'
<1>1. CASE RuleTraps
  <2>1. claims' = {}
    BY <1>1 DEF RuleTraps, LoopInv, LoopOK
  <2> QED BY <1>1, <2>1, FailStep DEF RuleTraps
<1>2. CASE CycleOom \/ CheckFails \/ FlushFails
  <2>1. claims' = {}
    BY <1>2 DEF CycleOom, CheckFails, FlushFails, LoopInv, LoopOK
  <2> QED BY <1>2, <2>1, FailStep DEF CycleOom, CheckFails, FlushFails
<1> QED BY <1>1, <1>2

LEMMA RestartStep ==
    ASSUME LoopInv, Restart
    PROVE  LoopInv'
<1> USE DEF LoopInv
<1> DEFINE T == {facts[k] : k \in Keys}
<1>1. facts \in [Keys -> Nat] /\ facts' = facts
  BY DEF TypeOK, Restart, storeVars
<1>2. clock' \in T /\ \A k \in Keys : facts[k] <= clock'
  <2>1. T \in SUBSET Nat /\ T # {}
    BY <1>1, CascadeAssumption
  <2>2. facts \in Surjection(Keys, T)
    BY <1>1 DEF Surjection
  <2>3. IsFiniteSet(T)
    <3> HIDE DEF T
    <3> QED BY <2>2, CascadeAssumption, FS_Surjection
  <2>4. \E x \in T : \A y \in T : y <= x
    <3> HIDE DEF T
    <3> QED BY <2>1, <2>3, MaxOfFinite
  <2>5. \E t \in T : \A k \in Keys : facts[k] <= t
    BY <2>4
  <2> QED BY <2>5 DEF Restart
<1>3. clock' \in Nat
  BY <1>1, <1>2
<1>4. TypeOK'
  <2>1. StoreType /\ CacheType /\ LoopType /\ RunsType /\ FlagsType
    BY TypeParts
  <2>2. StoreType'
    BY <1>3, <2>1 DEF StoreType, Restart, storeVars
  <2>3. CacheType'
    BY <2>1, KeyAndTables DEF CacheType, Restart
  <2>4. LoopType'
    BY KeyAndTables, CascadeAssumption DEF LoopType, Restart, NoLocals
  <2>5. RunsType'
    BY <2>1, KeyAndTables DEF RunsType, Restart, NoLocals
  <2>6. FlagsType'
    BY Zenon DEF FlagsType, Restart, NoLocals
  <2> QED BY <2>2, <2>3, <2>4, <2>5, <2>6, TypeParts, PTL
<1>5. LoopOK'
  BY DEF LoopOK, Between, Fresh, Restart
<1>6. ClockOK'
  <2>1. \A k \in Keys : lww'[k].ts = 0
    BY KeyAndTables DEF Restart
  <2> QED BY <1>1, <1>2, <1>3, <2>1 DEF ClockOK
<1>7. WritesOK' /\ ChainOK' /\ Served' = 0
  BY NothingLeft DEF Restart
<1>8. PendingOK'
  BY DEF PendingOK, Restart, storeVars
<1>9. WakeupOK'
  BY <1>7 DEF WakeupOK, Between, Restart
<1> QED BY <1>4, <1>5, <1>6, <1>7, <1>8, <1>9

(* A payload is ingested between runs.                                     *)
LEMMA IngestStep ==
    ASSUME LoopInv, NEW k \in Keys, Ingest(k)
    PROVE  LoopInv'
<1> USE DEF LoopInv
<1>1. StoreType /\ CacheType /\ LoopType /\ RunsType /\ FlagsType
  BY TypeParts
<1>2. pc = "idle" /\ pc' = "idle" /\ claims' = claims /\ claims = {}
  BY DEF Ingest, loopVars, LoopOK
<1>3. outputs' = <<>> /\ undo' = <<>> /\ queue' = <<>>
  BY <1>2 DEF Ingest, LoopOK, Between
<1>4. /\ clock' = clock + 1 /\ clock \in Nat
      /\ facts' = [facts EXCEPT ![k] = clock + 1]
      /\ pending' = Append(pending, [id |-> next_id, key |-> k]) /\ next_id' = next_id + 1
      /\ lww' = Put(lww, k, Json(clock + 1)) \/ lww' = lww
      /\ missed' = missed \ {k} \/ missed' = missed \union {x \in {k} : lww[x] # NoCell}
  <2>1. clock \in Nat /\ facts[k] \in Nat /\ facts[k] <= clock
    BY <1>1 DEF StoreType, ClockOK
  <2>2. clock' = clock + 1 /\ clock' > facts[k]
    BY <2>1 DEF Ingest
  <2> QED BY <2>1, <2>2 DEF Ingest
<1>5. lww' \in [Keys -> Cells] /\ \A x \in Keys : lww'[x].ts <= clock'
  <2>1. Json(clock + 1) \in Cells /\ Json(clock + 1).ts = clock + 1
    BY <1>4, KeyAndTables
  <2>2. lww \in [Keys -> Cells] /\ \A x \in Keys : lww[x].ts <= clock /\ lww[x].ts \in Nat
    BY <1>1 DEF CacheType, ClockOK, Cells
  <2>3. CASE lww' = lww
    BY <1>4, <2>2, <2>3
  <2>4. CASE lww' = [lww EXCEPT ![k] = Json(clock + 1)]
    <3>1. \A x \in Keys : lww'[x] = IF x = k THEN Json(clock + 1) ELSE lww[x]
      BY <2>2, <2>4
    <3> QED BY <1>4, <2>1, <2>2, <2>4, <3>1
  <2> QED BY <1>4, <2>3, <2>4 DEF Put
<1>6. /\ pending' \in Seq([id : Nat, key : Keys]) /\ Len(pending') = Len(pending) + 1
      /\ \A i \in 1..Len(pending) : pending'[i] = pending[i]
      /\ pending'[Len(pending) + 1] = [id |-> next_id, key |-> k]
      /\ Len(pending) \in Nat
  <2>1. [id |-> next_id, key |-> k] \in [id : Nat, key : Keys]
    BY <1>1 DEF StoreType
  <2>2. pending \in Seq([id : Nat, key : Keys])
    BY <1>1 DEF StoreType
  <2> QED BY ONLY <1>4, <2>1, <2>2, AppendProperties, LenProperties
<1>7. TypeOK'
  <2>1. StoreType'
    BY <1>1, <1>4, <1>6 DEF StoreType
  <2>2. CacheType'
    BY <1>3, <1>5 DEF CacheType
  <2>3. LoopType'
    BY <1>1 DEF LoopType, Ingest, loopVars
  <2>4. RunsType'
    BY <1>1, <1>4 DEF RunsType, Ingest, loopVars
  <2>5. FlagsType'
    BY <1>1, Zenon DEF FlagsType, Ingest, loopVars
  <2> QED BY <2>1, <2>2, <2>3, <2>4, <2>5, TypeParts, PTL
<1>8. LoopOK'
  BY <1>2, <1>3 DEF LoopOK, Between, Fresh
<1>9. ClockOK'
  BY <1>1, <1>4, <1>5 DEF ClockOK, StoreType
<1>10. WritesOK' /\ ChainOK' /\ Served' = 0
  BY <1>3, NothingLeft
<1>11. PendingOK'
  <2>1. ASSUME NEW i \in 1..Len(pending)
        PROVE  pending[i].id \in Nat /\ pending[i].key \in Keys
    <3>1. pending[i] \in [id : Nat, key : Keys]
      BY <1>1, ElementOfSeq DEF StoreType
    <3> QED BY <3>1
  <2>2. \A x \in Keys : facts[x] > 0 \/ x = k => facts'[x] > 0
    BY <1>1, <1>4 DEF StoreType
  <2>3. next_id \in Nat /\ next_id' = next_id + 1
    BY <1>1, <1>4 DEF StoreType
  <2>4. ASSUME NEW i \in 1..(Len(pending) + 1)
        PROVE  /\ pending'[i].id < next_id' /\ facts'[pending'[i].key] > 0
               /\ \A j \in 1..(Len(pending) + 1) : i < j => pending'[i].id < pending'[j].id
    <3>1. CASE i \in 1..Len(pending)
      <4>1. /\ pending'[i] = pending[i] /\ pending[i].id < next_id
            /\ facts[pending[i].key] > 0
            /\ \A j \in 1..Len(pending) : i < j => pending[i].id < pending[j].id
        BY <1>6, <3>1 DEF PendingOK
      <4>2. ASSUME NEW j \in 1..(Len(pending) + 1), i < j
            PROVE  pending'[i].id < pending'[j].id
        <5>1. CASE j \in 1..Len(pending)
          BY <1>6, <4>1, <4>2, <5>1
        <5>2. CASE j = Len(pending) + 1
          BY <1>6, <4>1, <5>2
        <5> QED BY <1>6, <5>1, <5>2
      <4> QED BY <2>1, <2>2, <2>3, <3>1, <4>1, <4>2
    <3>2. CASE i = Len(pending) + 1
      BY <1>6, <2>2, <2>3, <3>2
    <3> QED BY <1>6, <3>1, <3>2
  <2> QED BY <1>6, <2>4 DEF PendingOK
<1>12. WakeupOK'
  BY <1>2, <1>10 DEF WakeupOK, Between
<1> QED BY <1>7, <1>8, <1>9, <1>10, <1>11, <1>12

LEMMA IngestFailsStep ==
    ASSUME LoopInv, IngestFails
    PROVE  LoopInv'
<1> USE DEF LoopInv
<1>1. StoreType /\ CacheType /\ LoopType /\ RunsType /\ FlagsType
  BY TypeParts
<1>2. pc' = "idle" /\ claims' = {}
  BY DEF IngestFails, loopVars, LoopOK
<1>3. outputs' = <<>> /\ undo' = <<>> /\ queue' = <<>>
  BY DEF IngestFails, LoopOK, Between, cacheVars
<1>4. TypeOK'
  <2>1. StoreType'
    BY <1>1 DEF StoreType, IngestFails, storeVars
  <2>2. CacheType'
    BY <1>1 DEF CacheType, IngestFails, cacheVars
  <2>3. LoopType'
    BY <1>1 DEF LoopType, IngestFails, loopVars
  <2>4. RunsType'
    BY <1>1 DEF RunsType, IngestFails, loopVars
  <2>5. FlagsType'
    BY <1>1, Zenon DEF FlagsType, IngestFails, loopVars, cacheVars
  <2> QED BY <2>1, <2>2, <2>3, <2>4, <2>5, TypeParts, PTL
<1>5. LoopOK'
  BY <1>2, <1>3 DEF LoopOK, Between, Fresh
<1>6. ClockOK'
  <2>1. \A k \in Keys : lww[k].ts \in Nat /\ facts[k] \in Nat /\ clock \in Nat
    BY <1>1 DEF StoreType, CacheType, Cells
  <2>2. clock' = clock + 1 /\ lww' = lww /\ facts' = facts
    BY DEF IngestFails, storeVars, cacheVars
  <2> QED BY <2>1, <2>2 DEF ClockOK
<1>7. WritesOK' /\ ChainOK' /\ Served' = 0
  BY <1>3, NothingLeft
<1>8. PendingOK'
  BY DEF PendingOK, IngestFails, storeVars
<1>9. WakeupOK'
  BY <1>2, <1>7 DEF WakeupOK, Between
<1> QED BY <1>4, <1>5, <1>6, <1>7, <1>8, <1>9

-----------------------------------------------------------------------------
(* Steps of the loop that write nothing.                                   *)

LEMMA CacheFrame ==
    ASSUME LoopInv, UNCHANGED <<facts, pending, next_id, clock, lww, queue, outputs, undo>>
    PROVE  /\ StoreType' /\ CacheType' /\ ClockOK' /\ WritesOK' /\ ChainOK' /\ PendingOK'
           /\ Served' = Served
<1>1. StoreType /\ CacheType
  BY TypeParts DEF LoopInv
<1>2. StoreType' /\ CacheType'
  BY <1>1 DEF StoreType, CacheType
<1>3. ClockOK'
  BY DEF ClockOK, LoopInv
<1>4. WritesOK' /\ Served' = Served
  BY DEF WritesOK, Served, LoopInv
<1>5. ChainOK'
  BY DEF ChainOK, WrittenBetween, LoopInv
<1>6. PendingOK'
  BY DEF PendingOK, LoopInv
<1> QED BY <1>2, <1>3, <1>4, <1>5, <1>6

LEMMA IngestStopsStep ==
    ASSUME LoopInv, IngestStops
    PROVE  LoopInv'
<1>1. LoopType /\ RunsType /\ FlagsType
  BY TypeParts DEF LoopInv
<1>2. /\ StoreType' /\ CacheType' /\ ClockOK' /\ WritesOK' /\ ChainOK' /\ PendingOK'
      /\ Served' = Served
  BY CacheFrame DEF IngestStops, storeVars, cacheVars
<1>3. TypeOK'
  <2>1. LoopType'
    BY <1>1 DEF LoopType, IngestStops
  <2>2. RunsType'
    BY <1>1 DEF RunsType, IngestStops
  <2>3. FlagsType'
    BY <1>1, Zenon DEF FlagsType, IngestStops, cacheVars
  <2> QED BY <1>2, <2>1, <2>2, <2>3, TypeParts, PTL
<1>4. LoopOK'
  BY DEF LoopInv, LoopOK, Between, Fresh, IngestStops, cacheVars
<1>5. WakeupOK'
  <2>1. outputs = <<>> /\ queue = <<>>
    BY DEF LoopInv, LoopOK, Between, IngestStops
  <2>2. Served' = 0
    BY <1>2, <2>1 DEF Served
  <2> QED BY <2>2 DEF WakeupOK, Between, IngestStops
<1> QED BY <1>2, <1>3, <1>4, <1>5 DEF LoopInv

LEMMA BeginStep ==
    ASSUME LoopInv, Begin
    PROVE  LoopInv'
<1>1. LoopType /\ RunsType /\ FlagsType
  BY TypeParts DEF LoopInv
<1>2. /\ StoreType' /\ CacheType' /\ ClockOK' /\ WritesOK' /\ ChainOK' /\ PendingOK'
      /\ Served' = Served
  BY CacheFrame DEF Begin, storeVars
<1>3. TypeOK'
  <2>1. LoopType'
    BY KeyAndTables, CascadeAssumption DEF LoopType, Begin, NoLocals
  <2>2. RunsType'
    BY <1>1, KeyAndTables DEF RunsType, Begin, NoLocals, histVars
  <2>3. FlagsType'
    BY Zenon DEF FlagsType, Begin, NoLocals
  <2> QED BY <1>2, <2>1, <2>2, <2>3, TypeParts, PTL
<1>4. LoopOK'
  BY CascadeAssumption DEF LoopInv, LoopOK, Between, Fresh, Begin, NoLocals, storeVars
<1>5. WakeupOK'
  <2>1. outputs = <<>> /\ queue = <<>>
    BY DEF LoopInv, LoopOK, Between, Begin
  <2>2. Served' = 0
    BY <1>2, <2>1 DEF Served
  <2> QED BY <2>2 DEF WakeupOK, Between, Fresh, Begin, NoLocals
<1> QED BY <1>2, <1>3, <1>4, <1>5 DEF LoopInv

LEMMA WakeupFrame ==
    ASSUME LoopInv, ~Between, ~Fresh, UNCHANGED <<outputs, pending, trigger, ran>>,
           Served' = Served, \A k, r : Waiting(k, r) => Waiting(k, r)'
    PROVE  WakeupOK'
  BY DEF LoopInv, WakeupOK

LEMMA CycleEndsStep ==
    ASSUME LoopInv, CycleEnds \/ RuleReturns \/ CheckContinues \/ CheckConverged
    PROVE  LoopInv'
<1>1. LoopType /\ RunsType /\ FlagsType
  BY TypeParts DEF LoopInv
<1>2. /\ StoreType' /\ CacheType' /\ ClockOK' /\ WritesOK' /\ ChainOK' /\ PendingOK'
      /\ Served' = Served
  BY CacheFrame
     DEF CycleEnds, RuleReturns, CheckContinues, CheckConverged, storeVars, cacheVars
<1>3. TypeOK'
  <2>1. LoopType'
    BY <1>1 DEF LoopType, CycleEnds, RuleReturns, CheckContinues, CheckConverged
  <2>2. RunsType'
    BY <1>1 DEF RunsType, CycleEnds, RuleReturns, CheckContinues, CheckConverged, histVars
  <2>3. FlagsType'
    BY <1>1, Zenon
       DEF FlagsType, CycleEnds, RuleReturns, CheckContinues, CheckConverged, cacheVars
  <2> QED BY <1>2, <2>1, <2>2, <2>3, TypeParts, PTL
<1>4. LoopOK'
  <2>1. CASE CycleEnds
    BY <2>1 DEF LoopInv, LoopOK, Between, Fresh, CycleEnds, storeVars
  <2>2. CASE RuleReturns
    <3>1. claims' = {}
      BY <2>2 DEF LoopInv, LoopOK, RuleReturns
    <3> QED BY <2>2, <3>1 DEF LoopInv, LoopOK, Between, Fresh, RuleReturns, storeVars
  <2>3. CASE CheckContinues
    <3>1. depth \in Nat /\ depth > 0 /\ claims = {} /\ pending # <<>> /\ pc = "check"
      BY <1>1, <2>3, CascadeAssumption
         DEF LoopInv, LoopOK, LoopType, Between, Fresh, CheckContinues
    <3>2. claims' = claims /\ depth' = depth /\ pending' = pending /\ queue' = queue
      BY <2>3 DEF CheckContinues, storeVars, cacheVars
    <3>3. (pc' = "cycle" /\ depth < MaxDepth) \/ (pc' = "flush" /\ queue = <<>>)
      BY <2>3 DEF CheckContinues
    <3> QED BY <3>1, <3>2, <3>3 DEF LoopOK, Between, Fresh
  <2>4. CASE CheckConverged
    <3>1. pc' = "flush" /\ queue' = <<>> /\ claims' = {} /\ depth' > 0 /\ pending' # <<>>
      BY <2>4 DEF LoopInv, LoopOK, Between, CheckConverged, Converged, storeVars, cacheVars
    <3> QED BY <3>1 DEF LoopOK, Between, Fresh
  <2> QED BY <2>1, <2>2, <2>3, <2>4
<1>5. WakeupOK'
  <2>1. ~Between /\ ~Fresh
    BY DEF CycleEnds, RuleReturns, CheckContinues, CheckConverged, Between, Fresh
  <2>2. UNCHANGED <<outputs, pending, trigger, ran>>
    BY DEF CycleEnds, RuleReturns, CheckContinues, CheckConverged, storeVars, cacheVars
  <2>3. ASSUME NEW k, NEW r, Waiting(k, r) PROVE Waiting(k, r)'
    <3>1. pc \in {"dispatch", "rule"} /\ todo # <<>>
      BY <2>3 DEF Waiting, ToSet
    <3>2. RuleReturns
      BY <3>1 DEF CycleEnds, RuleReturns, CheckContinues, CheckConverged
    <3> QED BY <2>3, <3>2 DEF Waiting, RuleReturns
  <2> QED BY <1>2, <2>1, <2>2, <2>3, WakeupFrame
<1> QED BY <1>2, <1>3, <1>4, <1>5 DEF LoopInv

LEMMA CycleDurableStep ==
    ASSUME LoopInv, CycleDurable
    PROVE  LoopInv'
<1>1. StoreType /\ LoopType /\ RunsType /\ FlagsType
  BY TypeParts DEF LoopInv
<1>2. /\ StoreType' /\ CacheType' /\ ClockOK' /\ WritesOK' /\ ChainOK' /\ PendingOK'
      /\ Served' = Served
  BY CacheFrame DEF CycleDurable, storeVars, cacheVars
<1>3. /\ pending # <<>> /\ pending \in Seq([id : Nat, key : Keys]) /\ pending' = pending
      /\ outputs = <<>> /\ queue = <<>> /\ claims = {} /\ depth < MaxDepth
  BY <1>1 DEF LoopInv, LoopOK, Between, Fresh, CycleDurable, StoreType, storeVars
<1> DEFINE p == pending[1]
<1>4. Head(pending) = p /\ p \in [id : Nat, key : Keys]
  <2>1. Len(pending) \in Nat \ {0}
    BY <1>3, EmptySeq
  <2>2. Head(pending) = p
    BY <1>3
  <2>3. 1 \in 1..Len(pending)
    BY <2>1
  <2>4. p \in [id : Nat, key : Keys]
    BY <1>3, <2>3, ElementOfSeq
  <2> QED BY <2>2, <2>4
<1>5. p.id \in Nat /\ p.key \in Keys /\ Watchers[p.key] \in Seq(Rules)
  BY <1>4, CascadeAssumption
<1>6. /\ trigger' = p.id /\ dirty' = p.key /\ todo' = Watchers[p.key]
      /\ pc' = "dispatch" /\ depth' = 1
  BY <1>4 DEF CycleDurable, Watch
<1> HIDE DEF p
<1>7. TypeOK'
  <2>1. LoopType'
    BY <1>1, <1>5, <1>6, CascadeAssumption DEF LoopType, CycleDurable
  <2>2. RunsType'
    BY <1>1 DEF RunsType, CycleDurable, histVars
  <2>3. FlagsType'
    BY <1>1, Zenon DEF FlagsType, CycleDurable, cacheVars
  <2> QED BY <1>2, <2>1, <2>2, <2>3, TypeParts, PTL
<1>8. LoopOK'
  BY <1>3, <1>6 DEF LoopOK, Between, Fresh, CycleDurable
<1>9. WakeupOK'
  <2>1. Served' = 0
    BY <1>2, <1>3 DEF Served
  <2>2. \A x : x = p.key => \A r \in ToSet(Watchers[x]) : Waiting(x, r)'
    BY <1>6 DEF Waiting
  <2>3. pending'[1] = p
    BY <1>3 DEF p
  <2> QED BY <1>6, <2>1, <2>2, <2>3 DEF WakeupOK
<1> QED BY <1>2, <1>7, <1>8, <1>9 DEF LoopInv

LEMMA CycleQueuedStep ==
    ASSUME LoopInv, CycleQueued
    PROVE  LoopInv'
<1>1. StoreType /\ CacheType /\ LoopType /\ RunsType /\ FlagsType
  BY TypeParts DEF LoopInv
<1>2. UNCHANGED <<facts, pending, next_id, clock, lww, outputs, undo, trigger, ran, claims>>
  BY DEF CycleQueued, storeVars
<1>3. /\ pc = "cycle" /\ ~Between /\ ~Fresh /\ claims = {} /\ pending # <<>>
      /\ depth \in Nat /\ depth > 0 /\ depth < MaxDepth /\ depth' = depth + 1
  BY <1>1, CascadeAssumption DEF CycleQueued, LoopInv, LoopOK, LoopType, Between, Fresh
<1>4. RunsType' /\ StoreType'
  BY <1>1, <1>2 DEF RunsType, StoreType, CycleQueued, histVars
<1>5. FlagsType'
  BY <1>1, Zenon DEF FlagsType, CycleQueued
<1>6. ClockOK' /\ PendingOK'
  BY <1>2 DEF LoopInv, ClockOK, PendingOK
<1>7. ChainOK'
  BY <1>2 DEF LoopInv, ChainOK, WrittenBetween
<1>8. CASE queue = <<>>
  <2>1. pc' = "check" /\ UNCHANGED <<queue, dirty, todo>>
    BY <1>8 DEF CycleQueued
  <2>2. WritesOK' /\ Served' = Served /\ CacheType'
    BY <1>1, <1>2, <2>1 DEF LoopInv, WritesOK, Served, CacheType
  <2>3. LoopType'
    BY <1>1, <1>3, <2>1, CascadeAssumption DEF LoopType, CycleQueued
  <2>4. TypeOK'
    BY <1>4, <1>5, <2>2, <2>3, TypeParts, PTL
  <2>5. LoopOK'
    BY <1>2, <1>3, <2>1 DEF LoopOK, Between, Fresh
  <2>6. WakeupOK'
    BY <1>2, <1>3, <2>2, WakeupFrame DEF Waiting
  <2> QED BY <1>6, <1>7, <2>2, <2>4, <2>5, <2>6 DEF LoopInv
<1>9. CASE queue # <<>>
  <2> DEFINE k == Head(queue)
  <2>1. /\ queue' = Tail(queue) /\ dirty' = k /\ todo' = Watchers[k] /\ pc' = "dispatch"
    BY <1>9 DEF CycleQueued, Watch
  <2>2. /\ k \in Keys /\ k = queue[1] /\ queue' \in Seq(Keys)
        /\ Len(queue') = Len(queue) - 1 /\ Len(queue) \in Nat \ {0}
        /\ \A j \in 1..Len(queue') : queue'[j] = queue[j + 1]
    BY <1>1, <1>9, <2>1, HeadTailProperties, EmptySeq DEF CacheType
  <2>3. Watchers[k] \in Seq(Rules)
    BY <2>2, CascadeAssumption
  <2> HIDE DEF k
  <2>4. /\ Len(outputs) \in Nat /\ Len(queue) <= Len(outputs)
        /\ \A j \in 1..Len(queue) : queue[j] = outputs[Served + j].key
    BY <1>1, LenProperties DEF CacheType, LoopInv, WritesOK
  <2>5. /\ Served \in Nat /\ Served' = Served + 1 /\ outputs[Served'].key = k
    BY <1>2, <2>2, <2>4 DEF Served
  <2>6. WritesOK'
    <3>1. \A j \in 1..Len(queue') : queue'[j] = outputs[Served' + j].key
      <4> SUFFICES ASSUME NEW j \in 1..Len(queue') PROVE queue'[j] = outputs[Served' + j].key
        OBVIOUS
      <4>1. j + 1 \in 1..Len(queue) /\ Served + (j + 1) = Served' + j
        BY <2>2, <2>5
      <4> QED BY <2>2, <2>4, <4>1
    <3>2. Len(queue') <= Len(outputs)
      BY <2>2, <2>4
    <3> QED BY <1>2, <3>1, <3>2 DEF LoopInv, WritesOK
  <2>7. CacheType'
    BY <1>1, <1>2, <2>2 DEF CacheType
  <2>8. LoopType'
    BY <1>1, <1>3, <2>1, <2>2, <2>3, CascadeAssumption DEF LoopType, CycleQueued
  <2>9. TypeOK'
    BY <1>4, <1>5, <2>7, <2>8, TypeParts, PTL
  <2>10. LoopOK'
    BY <1>2, <1>3, <2>1 DEF LoopOK, Between, Fresh
  <2>11. WakeupOK'
    <3>1. \A x, r : ~Waiting(x, r)
      BY <1>3 DEF Waiting
    <3>2. \A x : x = k => \A r \in ToSet(Watchers[x]) : Waiting(x, r)'
      BY <2>1 DEF Waiting
    <3>3. ASSUME NEW i \in 1..(Served + 1), NEW r \in ToSet(Watchers[outputs[i].key])
          PROVE  \/ ran[<<r, EntityOf[outputs[i].key]>>] >= outputs[i].ts
                 \/ Waiting(outputs[i].key, r)'
      <4>1. CASE i = Served + 1
        BY <1>2, <2>5, <3>2, <4>1
      <4>2. CASE i # Served + 1
        <5>1. i \in 1..Served
          BY <2>5, <4>2
        <5> QED BY <3>1, <5>1 DEF LoopInv, WakeupOK
      <4> QED BY <4>1, <4>2
    <3>4. /\ trigger = pending[1].id
          /\ \A r \in ToSet(Watchers[pending[1].key]) :
               ran[<<r, EntityOf[pending[1].key]>>] > 0
      BY <1>3, <3>1 DEF LoopInv, WakeupOK
    <3> QED BY <1>2, <2>5, <3>3, <3>4 DEF WakeupOK
  <2> QED BY <1>6, <1>7, <2>6, <2>9, <2>10, <2>11 DEF LoopInv
<1> QED BY <1>8, <1>9

(* A candidate is claimed and starts; it has seen every write so far.      *)
LEMMA DispatchStep ==
    ASSUME LoopInv, Dispatch
    PROVE  LoopInv'
<1>1. StoreType /\ CacheType /\ LoopType /\ RunsType /\ FlagsType
  BY TypeParts DEF LoopInv
<1>2. /\ StoreType' /\ CacheType' /\ ClockOK' /\ WritesOK' /\ ChainOK' /\ PendingOK'
      /\ Served' = Served
  BY CacheFrame DEF Dispatch, storeVars, cacheVars
<1> DEFINE i == First(todo)
           r == todo[i]
           c == <<r, EntityOf[dirty]>>
<1>3. pc = "dispatch" /\ claims = {} /\ todo # <<>> /\ todo \in Seq(Rules) /\ dirty \in Keys
  BY <1>1 DEF Dispatch, LoopInv, LoopOK, LoopType
<1>4. i \in 1..Len(todo)
  BY <1>3, FirstIsIndex
<1>5. r \in Rules /\ c \in Rules \X Entities
  <2>1. r \in Rules
    <3> HIDE DEF i
    <3> QED BY <1>3, <1>4, ElementOfSeq
  <2> QED BY <1>3, <2>1 DEF Entities
<1>6. /\ todo' = RemoveAt(todo, i) /\ claims' = {c} /\ pc' = "rule" /\ rule' = r
      /\ sets' = 0 /\ ran' = [ran EXCEPT ![c] = clock]
      /\ UNCHANGED <<facts, pending, clock, queue, outputs, undo, depth, trigger, dirty>>
  BY <1>3 DEF Dispatch, Claim, storeVars, cacheVars
<1>7. /\ RemoveAt(todo, i) \in Seq(Rules) /\ Len(RemoveAt(todo, i)) = Len(todo) - 1
      /\ \A j \in 1..(Len(todo) - 1) :
           RemoveAt(todo, i)[j] = IF j < i THEN todo[j] ELSE todo[j + 1]
  <2> HIDE DEF i
  <2> QED BY <1>3, <1>4, RemoveAtProperties
<1>8. ASSUME NEW x \in ToSet(todo), x # r PROVE x \in ToSet(todo')
  <2>1. Len(todo) \in Nat /\ DOMAIN todo = 1..Len(todo) /\ DOMAIN todo' = 1..(Len(todo) - 1)
    <3>1. Len(todo) \in Nat /\ DOMAIN todo = 1..Len(todo)
      BY <1>3, LenProperties
    <3>2. todo' \in Seq(Rules) /\ Len(todo') = Len(todo) - 1
      BY <1>6, <1>7
    <3>3. DOMAIN todo' = 1..Len(todo')
      BY <3>2, LenProperties
    <3> QED BY <3>1, <3>2, <3>3
  <2>2. PICK j \in 1..Len(todo) : todo[j] = x
    BY <2>1 DEF ToSet
  <2> DEFINE m == IF j < i THEN j ELSE j - 1
  <2>3. j # i
    BY <1>8, <2>2
  <2>4. m \in 1..(Len(todo) - 1) /\ todo'[m] = x
    <3> HIDE DEF i
    <3>1. m \in 1..(Len(todo) - 1) /\ j = IF m < i THEN m ELSE m + 1
      BY <1>4, <2>1, <2>3
    <3>2. todo'[m] = IF m < i THEN todo[m] ELSE todo[m + 1]
      <4> HIDE DEF m
      <4> QED BY <1>6, <1>7, <3>1
    <3> HIDE DEF m
    <3> QED BY <2>2, <3>1, <3>2
  <2> HIDE DEF m
  <2> QED BY <2>1, <2>4 DEF ToSet
<1> HIDE DEF i, r
<1>9. TypeOK'
  <2>1. LoopType'
    BY <1>1, <1>5, <1>6, <1>7, CascadeAssumption DEF LoopType
  <2>2. RunsType'
    <3>1. ran' \in [Rules \X Entities -> Nat] /\ claims' \subseteq Rules \X Entities
      BY <1>1, <1>5, <1>6 DEF RunsType, StoreType
    <3> QED BY <1>1, <3>1 DEF RunsType, Dispatch, histVars
  <2>3. FlagsType'
    BY <1>1, Zenon DEF FlagsType, Dispatch, cacheVars
  <2> QED BY <1>2, <2>1, <2>2, <2>3, TypeParts, PTL
<1>10. LoopOK'
  <2>1. Claim(rule)' = c
    BY <1>6 DEF Claim
  <2>2. depth > 0 /\ pending # <<>>
    BY <1>3 DEF LoopInv, LoopOK, Between
  <2> QED BY <1>5, <1>6, <2>1, <2>2 DEF LoopOK, Between, Fresh
<1>11. WakeupOK'
  <2>1. ASSUME NEW k, NEW x, NEW t \in Nat, t <= clock, NEW n \in Nat, n <= t,
               <<x, EntityOf[k]>> \in Rules \X Entities,
               ran[<<x, EntityOf[k]>>] >= n \/ Waiting(k, x)
        PROVE  ran'[<<x, EntityOf[k]>>] >= n \/ Waiting(k, x)'
    <3>1. clock \in Nat /\ ran \in [Rules \X Entities -> Nat]
      BY <1>1 DEF StoreType, RunsType
    <3>2. CASE <<x, EntityOf[k]>> = c
      <4>1. ran'[<<x, EntityOf[k]>>] = clock
        BY <1>5, <1>6, <3>1, <3>2
      <4> QED BY <2>1, <3>1, <4>1
    <3>3. CASE <<x, EntityOf[k]>> # c
      <4>1. ran'[<<x, EntityOf[k]>>] = ran[<<x, EntityOf[k]>>]
        BY <1>6, <2>1, <3>1, <3>3
      <4>2. CASE Waiting(k, x)
        <5>1. x # r /\ x \in ToSet(todo) /\ dirty = k
          BY <3>3, <4>2 DEF Waiting
        <5>2. x \in ToSet(todo')
          BY <1>8, <5>1
        <5> QED BY <1>6, <5>1, <5>2 DEF Waiting
      <4> QED BY <2>1, <4>1, <4>2
    <3> QED BY <3>2, <3>3
  <2>2. ASSUME NEW k \in Keys, NEW x \in ToSet(Watchers[k])
        PROVE  <<x, EntityOf[k]>> \in Rules \X Entities
    <3>1. Watchers[k] \in Seq(Rules)
      BY CascadeAssumption
    <3>2. x \in Rules
      BY <3>1, LenProperties DEF ToSet
    <3> QED BY <3>2 DEF Entities
  <2>3. ASSUME NEW j \in 1..Served, NEW x \in ToSet(Watchers[outputs[j].key])
        PROVE  \/ ran'[<<x, EntityOf[outputs[j].key]>>] >= outputs[j].ts
               \/ Waiting(outputs[j].key, x)'
    <3>1. PICK k : k = outputs[j].key
      OBVIOUS
    <3>2. PICK t : t = outputs[j].ts
      OBVIOUS
    <3>3. j \in 1..Len(outputs)
      <4>1. Len(outputs) \in Nat /\ Len(queue) \in Nat
        BY <1>1, LenProperties DEF CacheType
      <4> QED BY <4>1 DEF Served
    <3>4. k \in Keys /\ t \in Nat /\ t <= clock
      <4>1. outputs[j] \in [key : Keys, ts : Nat]
        BY <1>1, <3>3, ElementOfSeq DEF CacheType
      <4>2. outputs[j].ts <= clock
        BY <3>3 DEF LoopInv, WritesOK
      <4> QED BY <3>1, <3>2, <4>1, <4>2
    <3>5. ran[<<x, EntityOf[k]>>] >= t \/ Waiting(k, x)
      BY <3>1, <3>2 DEF LoopInv, WakeupOK
    <3>6. x \in ToSet(Watchers[k])
      BY <3>1
    <3>7. ran'[<<x, EntityOf[k]>>] >= t \/ Waiting(k, x)'
      BY <2>1, <2>2, <3>4, <3>5, <3>6
    <3> QED BY <1>6, <3>1, <3>2, <3>7
  <2>4. /\ trigger = pending[1].id /\ pending \in Seq([id : Nat, key : Keys])
        /\ Len(pending) \in Nat \ {0}
    BY <1>1, <1>3, EmptySeq DEF LoopInv, WakeupOK, LoopOK, Between, Fresh, StoreType
  <2>5. ASSUME NEW x \in ToSet(Watchers[pending[1].key])
        PROVE  ran'[<<x, EntityOf[pending[1].key]>>] > 0 \/ Waiting(pending[1].key, x)'
    <3>1. PICK k : k = pending[1].key
      OBVIOUS
    <3>2. 1 \in 1..Len(pending)
      BY <2>4
    <3>3. k \in Keys
      <4>1. pending[1] \in [id : Nat, key : Keys]
        BY <2>4, <3>2, ElementOfSeq
      <4> QED BY <3>1, <4>1
    <3>4. clock \in Nat /\ clock >= 1
      <4>1. facts[k] > 0 /\ facts[k] <= clock /\ facts[k] \in Nat /\ clock \in Nat
        BY <1>1, <3>1, <3>2, <3>3 DEF LoopInv, PendingOK, ClockOK, StoreType
      <4> QED BY <4>1
    <3>5. x \in ToSet(Watchers[k])
      BY <3>1
    <3>6. <<x, EntityOf[k]>> \in Rules \X Entities
      BY <2>2, <3>3, <3>5
    <3>7. ran[<<x, EntityOf[k]>>] > 0 \/ Waiting(k, x)
      BY <1>3, <3>1 DEF LoopInv, WakeupOK, Between, Fresh
    <3>8. ran[<<x, EntityOf[k]>>] >= 1 \/ Waiting(k, x)
      BY <1>1, <3>6, <3>7 DEF RunsType
    <3>9. ran'[<<x, EntityOf[k]>>] >= 1 \/ Waiting(k, x)'
      BY <2>1, <3>4, <3>6, <3>8
    <3>10. ran'[<<x, EntityOf[k]>>] \in Nat
      BY <1>1, <1>6, <3>6 DEF RunsType, StoreType
    <3>11. ran'[<<x, EntityOf[k]>>] > 0 \/ Waiting(k, x)'
      BY <3>9, <3>10
    <3> QED BY <1>6, <3>1, <3>11
  <2> QED BY <1>2, <1>6, <2>3, <2>4, <2>5 DEF WakeupOK
<1> QED BY <1>2, <1>9, <1>10, <1>11 DEF LoopInv

(* A checkpoint ends the run.                                              *)
LEMMA FlushStep ==
    ASSUME LoopInv, Flush
    PROVE  LoopInv'
<1>1. TypeOK /\ WritesOK /\ StoreType /\ CacheType /\ LoopType /\ RunsType /\ FlagsType
  BY TypeParts DEF LoopInv
<1>2. /\ outputs' = <<>> /\ undo' = <<>> /\ queue' = <<>> /\ pc' = "idle" /\ claims' = {}
      /\ UNCHANGED <<next_id, clock, lww>>
  BY DEF Flush, LoopInv, LoopOK
<1>3. /\ facts' \in [Keys -> Nat] /\ \A k \in Keys : facts'[k] >= facts[k]
      /\ \A k \in Keys : facts'[k] <= clock
  <2>1. /\ facts' \in [Keys -> Nat] /\ \A k \in Keys : facts'[k] >= facts[k]
        /\ \A k \in Keys : \/ facts'[k] = facts[k]
                            \/ \E i \in 1..Len(outputs) : facts'[k] = outputs[i].ts
    BY <1>1, FlushedFacts
  <2>2. ASSUME NEW k \in Keys PROVE facts'[k] <= clock
    <3>1. facts[k] <= clock /\ \A i \in 1..Len(outputs) : outputs[i].ts <= clock
      BY DEF LoopInv, ClockOK, WritesOK
    <3> QED BY <2>1, <3>1
  <2> QED BY <2>1, <2>2
<1>4. \/ pending' = pending
      \/ \E x \in 1..Len(pending) : pending' = RemoveAt(pending, x)
  <2> DEFINE I == {i \in 1..Len(pending) : pending[i].id = trigger}
  <2>1. pending' = IF \E i \in 1..Len(pending) : pending[i].id = trigger
                   THEN RemoveAt(pending, IF I # {} THEN Min(I) ELSE 0) ELSE pending
    BY DEF Flush, RemoveFirstMatch, SelectInSeq
  <2>2. CASE I = {}
    BY <2>1, <2>2
  <2>3. CASE I # {}
    <3>1. I \subseteq Nat
      BY <1>1, LenProperties DEF StoreType
    <3>2. Min(I) \in I
      <4> HIDE DEF I
      <4> QED BY <2>3, <3>1, MinIsLeast
    <3>3. Min(I) \in 1..Len(pending)
      BY <3>2
    <3>4. pending' = RemoveAt(pending, Min(I))
      BY <2>1, <2>3
    <3> HIDE DEF I
    <3> QED BY <3>3, <3>4
  <2> QED BY <2>2, <2>3
<1>5. pending \in Seq([id : Nat, key : Keys]) /\ Len(pending) \in Nat
  BY <1>1, LenProperties DEF StoreType
<1>6. pending' \in Seq([id : Nat, key : Keys])
  BY <1>4, <1>5, RemoveAtProperties
<1>7. TypeOK'
  <2>1. StoreType'
    BY <1>1, <1>2, <1>3, <1>6 DEF StoreType
  <2>2. CacheType'
    BY <1>1, <1>2 DEF CacheType
  <2>3. LoopType'
    <3>1. /\ depth' = 0 /\ trigger' = 0 /\ dirty' = NoKey /\ todo' = <<>>
          /\ rule' = NoRule /\ sets' = 0
      BY DEF Flush, NoLocals
    <3> QED BY <1>2, <3>1, KeyAndTables, CascadeAssumption DEF LoopType
  <2>4. RunsType'
    <3>1. /\ ran' = NotRun /\ UNCHANGED <<ingested, restarts>>
          /\ missed' = missed \ {outputs[i].key : i \in DOMAIN outputs}
      BY DEF Flush, NoLocals
    <3> QED BY <1>1, <1>2, <3>1, KeyAndTables DEF RunsType
  <2>5. FlagsType'
    BY <1>1, Zenon DEF FlagsType, Flush, NoLocals
  <2> QED BY <2>1, <2>2, <2>3, <2>4, <2>5, TypeParts, PTL
<1>8. LoopOK'
  BY <1>2 DEF LoopOK, Between, Fresh
<1>9. ClockOK'
  BY <1>3 DEF LoopInv, ClockOK, Flush
<1>10. WritesOK' /\ ChainOK' /\ Served' = 0
  BY <1>2, NothingLeft
<1>11. PendingOK'
  <2>1. \A i \in 1..Len(pending) : /\ pending[i].id < next_id /\ facts[pending[i].key] > 0
                                   /\ pending[i].key \in Keys
    <3>1. \A i \in 1..Len(pending) : pending[i] \in [id : Nat, key : Keys]
      BY <1>5, ElementOfSeq
    <3> QED BY <3>1 DEF LoopInv, PendingOK
  <2>2. \A k \in Keys : facts[k] > 0 => facts'[k] > 0
    BY <1>1, <1>3 DEF StoreType
  <2>3. next_id' = next_id
    BY DEF Flush
  <2>4. CASE pending' = pending
    BY <2>1, <2>2, <2>3, <2>4 DEF LoopInv, PendingOK
  <2>5. ASSUME NEW x \in 1..Len(pending), pending' = RemoveAt(pending, x) PROVE PendingOK'
    <3> DEFINE o == [j \in 1..(Len(pending) - 1) |-> IF j < x THEN j ELSE j + 1]
    <3>1. Len(pending') = Len(pending) - 1 /\ \A j \in 1..Len(pending') :
            pending'[j] = IF j < x THEN pending[j] ELSE pending[j + 1]
      BY <1>5, <2>5, RemoveAtProperties
    <3>2. \A j \in 1..Len(pending') : o[j] \in 1..Len(pending) /\ pending'[j] = pending[o[j]]
      BY <1>5, <3>1
    <3>3. \A i, j \in 1..Len(pending') : i < j => o[i] < o[j]
      BY <1>5, <3>1
    <3> HIDE DEF o
    <3> QED BY <2>1, <2>2, <2>3, <3>2, <3>3 DEF LoopInv, PendingOK
  <2> QED BY <1>4, <2>4, <2>5
<1>12. WakeupOK'
  BY <1>2, <1>10 DEF WakeupOK, Between
<1> QED BY <1>7, <1>8, <1>9, <1>10, <1>11, <1>12 DEF LoopInv

-----------------------------------------------------------------------------
(* slung_set.                                                              *)

(* What the cache holds after a miss has been loaded.                      *)
LEMMA LoadedIs ==
    ASSUME LoopInv, NEW k \in Keys
    PROVE  /\ Loaded(k) \in [Keys -> Cells]
           /\ \A x \in Keys : x # k => Loaded(k)[x] = lww[x]
           /\ \/ Loaded(k) = lww
              \/ lww[k] = NoCell /\ facts[k] # Absent /\ Loaded(k)[k] = Json(facts[k])
           /\ \A x \in Keys : Loaded(k)[x].ts \in Nat /\ Loaded(k)[x].ts <= clock
<1>1. /\ lww \in [Keys -> Cells] /\ facts[k] \in Nat /\ clock \in Nat
      /\ \A x \in Keys : lww[x].ts \in Nat /\ lww[x].ts <= clock /\ facts[x] <= clock
  BY TypeParts DEF LoopInv, CacheType, StoreType, ClockOK, Cells
<1>2. Json(facts[k]) \in Cells /\ Json(facts[k]).ts = facts[k]
  BY <1>1, KeyAndTables
<1>3. CASE Loaded(k) = lww
  BY <1>1, <1>3
<1>4. CASE lww[k] = NoCell /\ facts[k] # Absent
  <2>1. Loaded(k) = [lww EXCEPT ![k] = Json(facts[k])]
    BY <1>4 DEF Loaded
  <2>2. \A x \in Keys : Loaded(k)[x] = IF x = k THEN Json(facts[k]) ELSE lww[x]
    BY <1>1, <2>1
  <2>3. Loaded(k) \in [Keys -> Cells]
    BY <1>1, <1>2, <2>1
  <2> QED BY <1>1, <1>2, <1>4, <2>2, <2>3
<1> QED BY <1>3, <1>4 DEF Loaded

(* A key that the cascade has written is cached.                           *)
LEMMA WrittenIsCached ==
    ASSUME LoopInv, NEW k \in Keys, WrittenBetween(0, Len(undo) + 1, k)
    PROVE  Loaded(k) = lww
<1> DEFINE n == Len(undo)
           J == {x \in 1..n : undo[x].key = k}
<1>1. n \in Nat /\ \A i \in 1..n : undo[i] \in [key : Keys, ts : Nat, previous : Cells]
  BY LenProperties, ElementOfSeq, TypeParts DEF LoopInv, CacheType
<1>2. J \in SUBSET (1..n) /\ J # {}
  BY <1>1 DEF WrittenBetween
<1>3. Max(J) \in J /\ \A y \in J : Max(J) >= y
  <2> HIDE DEF J, n
  <2> QED BY <1>1, <1>2, MaxOfPart
<1> DEFINE j == Max(J)
<1>4. j \in 1..n /\ undo[j].key = k
  BY <1>3
<1>5. ~WrittenBetween(j, n + 1, k)
  BY <1>1, <1>3, <1>4 DEF WrittenBetween
<1> HIDE DEF j
<1>6. lww[k].ts = undo[j].ts
  BY <1>4, <1>5 DEF LoopInv, ChainOK
<1>7. undo[j].previous.ts < undo[j].ts
  BY <1>4 DEF LoopInv, WritesOK
<1>8. undo[j].previous.ts \in Nat /\ undo[j].ts \in Nat
  BY <1>1, <1>4 DEF Cells
<1>9. lww[k] # NoCell
  BY <1>6, <1>7, <1>8, KeyAndTables
<1> QED BY <1>9 DEF Loaded

(* The frame of a call: only the cascade changes.                          *)
LEMMA SetCallStep ==
    ASSUME LoopInv, SetCall, CacheType', FlagsType', WritesOK', ChainOK', ClockOK',
           Served' = Served, Len(outputs') >= Len(outputs),
           \A i \in 1..Len(outputs) : outputs'[i] = outputs[i]
    PROVE  LoopInv'
<1>1. StoreType /\ CacheType /\ LoopType /\ RunsType
  BY TypeParts DEF LoopInv
<1>2. TypeOK'
  <2>1. StoreType'
    BY <1>1 DEF StoreType, SetCall, storeVars
  <2>2. LoopType'
    BY <1>1, CascadeAssumption DEF LoopType, SetCall
  <2>3. RunsType'
    BY <1>1 DEF RunsType, SetCall, histVars
  <2> QED BY <2>1, <2>2, <2>3, TypeParts, PTL
<1>3. LoopOK'
  <2>1. pc = "rule" /\ UNCHANGED <<pc, pending, depth, rule, dirty, claims>>
    BY DEF SetCall, storeVars
  <2>2. Claim(rule)' = Claim(rule)
    BY <2>1 DEF Claim
  <2> QED BY <2>1, <2>2 DEF LoopInv, LoopOK, Between, Fresh
<1>4. PendingOK'
  BY DEF LoopInv, PendingOK, SetCall, storeVars
<1>5. WakeupOK'
  <2>1. \A i \in 1..Served : outputs'[i] = outputs[i]
    <3>1. Len(outputs) \in Nat /\ Len(queue) \in Nat
      BY <1>1, LenProperties DEF CacheType
    <3> QED BY <3>1 DEF Served
  <2>2. /\ pc = "rule" /\ UNCHANGED <<pc, dirty, todo, ran, pending, trigger>>
    BY DEF SetCall, storeVars
  <2>3. \A k, r : Waiting(k, r)' <=> Waiting(k, r)
    BY <2>2 DEF Waiting
  <2>4. ~Between /\ ~Fresh
    BY <2>2 DEF Between, Fresh
  <2>5. ASSUME NEW i \in 1..Served, NEW r \in ToSet(Watchers[outputs'[i].key])
        PROVE  \/ ran'[<<r, EntityOf[outputs'[i].key]>>] >= outputs'[i].ts
               \/ Waiting(outputs[i].key, r)'
    <3>1. outputs'[i] = outputs[i] /\ ran' = ran
      BY <2>1, <2>2
    <3>2. PICK k : k = outputs[i].key
      OBVIOUS
    <3>3. ran[<<r, EntityOf[k]>>] >= outputs[i].ts \/ Waiting(k, r)
      BY <3>1, <3>2 DEF LoopInv, WakeupOK
    <3> QED BY <2>3, <3>1, <3>2, <3>3
  <2>6. /\ trigger' = pending'[1].id
        /\ \A r \in ToSet(Watchers[pending'[1].key]) :
             \/ ran'[<<r, EntityOf[pending'[1].key]>>] > 0
             \/ Waiting(pending[1].key, r)'
    <3>1. PICK k : k = pending[1].key
      OBVIOUS
    <3> QED BY <2>2, <2>3, <2>4, <3>1 DEF LoopInv, WakeupOK
  <2> QED BY <2>5, <2>6 DEF WakeupOK
<1> QED BY <1>2, <1>3, <1>4, <1>5 DEF LoopInv

(* A refused write at most loads a miss.                                   *)
LEMMA SetRefusedStep ==
    ASSUME LoopInv, NEW k \in Keys, SetQueueFull(k) \/ SetOom(k)
    PROVE  LoopInv'
<1>1. /\ SetCall /\ lww' = Loaded(k) /\ UNCHANGED <<queue, outputs, undo, facts>>
      /\ clock' = clock + 1
  BY DEF SetQueueFull, SetOom, SetCall, storeVars
<1>2. StoreType /\ CacheType /\ FlagsType
  BY TypeParts DEF LoopInv
<1>3. CacheType'
  BY <1>1, <1>2, LoadedIs DEF CacheType
<1>4. FlagsType'
  BY <1>1, <1>2, Zenon DEF FlagsType, SetQueueFull, SetOom, SetCall
<1>5. ClockOK'
  <2>1. \A x \in Keys : lww'[x].ts \in Nat /\ lww'[x].ts <= clock
    BY <1>1, LoadedIs
  <2>2. \A x \in Keys : facts'[x] \in Nat /\ facts'[x] <= clock /\ clock \in Nat
    BY <1>1, <1>2 DEF LoopInv, ClockOK, StoreType
  <2> QED BY <1>1, <2>1, <2>2 DEF ClockOK
<1>6. /\ Len(undo) \in Nat /\ Len(outputs) \in Nat /\ clock \in Nat
      /\ \A i \in 1..Len(undo) : undo[i].key \in Keys
      /\ \A i \in 1..Len(outputs) : outputs[i].ts \in Nat
  <2>1. \A i \in 1..Len(undo) : undo[i] \in [key : Keys, ts : Nat, previous : Cells]
    BY <1>2, ElementOfSeq DEF CacheType
  <2>2. \A i \in 1..Len(outputs) : outputs[i] \in [key : Keys, ts : Nat]
    BY <1>2, ElementOfSeq DEF CacheType
  <2> QED BY <1>2, <2>1, <2>2, LenProperties DEF CacheType, StoreType
<1>7. WritesOK' /\ Served' = Served
  <2>1. \A i \in 1..Len(outputs) : outputs[i].ts <= clock'
    BY <1>1, <1>6 DEF LoopInv, WritesOK
  <2>2. Served' = Served
    BY <1>1 DEF Served
  <2> QED BY <1>1, <2>1, <2>2 DEF LoopInv, WritesOK
<1>8. ChainOK'
  <2>1. \A i \in 1..Len(undo) : lww'[undo[i].key] = lww[undo[i].key]
    <3> SUFFICES ASSUME NEW i \in 1..Len(undo) PROVE lww'[undo[i].key] = lww[undo[i].key]
      OBVIOUS
    <3>1. CASE undo[i].key = k
      <4>1. WrittenBetween(0, Len(undo) + 1, k)
        BY <1>6, <3>1 DEF WrittenBetween
      <4> QED BY <1>1, <4>1, WrittenIsCached
    <3>2. CASE undo[i].key # k
      BY <1>1, <1>6, <3>2, LoadedIs
    <3> QED BY <3>1, <3>2
  <2> QED BY <1>1, <2>1 DEF LoopInv, ChainOK, WrittenBetween
<1> QED BY <1>1, <1>3, <1>4, <1>5, <1>6, <1>7, <1>8, SetCallStep

(* An accepted write: what it appends and what it caches.                  *)
LEMMA SetEffect ==
    ASSUME LoopInv, NEW k \in Keys, Set(k)
    PROVE  /\ clock \in Nat /\ clock' = clock + 1 /\ facts' = facts
           /\ Loaded(k)[k] \in Cells /\ Loaded(k)[k].ts <= clock
           /\ \E kind \in ValueKinds :
                /\ Cell(clock + 1, kind) \in Cells /\ Cell(clock + 1, kind).ts = clock + 1
                /\ lww' = [Loaded(k) EXCEPT ![k] = Cell(clock + 1, kind)]
           /\ lww' \in [Keys -> Cells] /\ lww'[k].ts = clock + 1
           /\ \A x \in Keys : x # k => lww'[x] = lww[x]
           /\ outputs' = Append(outputs, [key |-> k, ts |-> clock + 1])
           /\ undo' = Append(undo, [key |-> k, ts |-> clock + 1, previous |-> Loaded(k)[k]])
           /\ queue' = Append(queue, k)
<1>1. clock \in Nat /\ clock' = clock + 1 /\ facts' = facts
  BY TypeParts DEF LoopInv, StoreType, Set, SetCall, storeVars
<1>2. /\ Loaded(k) \in [Keys -> Cells] /\ Loaded(k)[k].ts \in Nat /\ Loaded(k)[k].ts <= clock
      /\ \A x \in Keys : x # k => Loaded(k)[x] = lww[x]
  BY LoadedIs
<1>3. clock' > Loaded(k)[k].ts
  BY <1>1, <1>2
<1>4. PICK kind \in ValueKinds : lww' = Put(Loaded(k), k, Cell(clock', kind))
  BY DEF Set
<1>5. Cell(clock + 1, kind) \in Cells /\ Cell(clock + 1, kind).ts = clock + 1
  BY <1>1 DEF Cell, Cells
<1>6. lww' = [Loaded(k) EXCEPT ![k] = Cell(clock + 1, kind)]
  BY <1>1, <1>3, <1>4, <1>5 DEF Put
<1>7. /\ lww' \in [Keys -> Cells] /\ lww'[k].ts = clock + 1
      /\ \A x \in Keys : x # k => lww'[x] = lww[x]
  BY <1>2, <1>5, <1>6
<1>8. /\ outputs' = Append(outputs, [key |-> k, ts |-> clock + 1])
      /\ undo' = Append(undo, [key |-> k, ts |-> clock + 1, previous |-> Loaded(k)[k]])
      /\ queue' = Append(queue, k)
  BY <1>1, <1>3 DEF Set
<1> QED BY <1>1, <1>2, <1>5, <1>6, <1>7, <1>8

(* The sequences after the write.                                          *)
LEMMA SetAppends ==
    ASSUME LoopInv, NEW k \in Keys, Set(k)
    PROVE  /\ Len(outputs) \in Nat /\ Len(undo) = Len(outputs) /\ Len(queue) \in Nat
           /\ outputs' \in Seq([key : Keys, ts : Nat]) /\ Len(outputs') = Len(outputs) + 1
           /\ undo' \in Seq([key : Keys, ts : Nat, previous : Cells])
           /\ Len(undo') = Len(outputs) + 1
           /\ queue' \in Seq(Keys) /\ Len(queue') = Len(queue) + 1
           /\ \A i \in 1..Len(outputs) : outputs'[i] = outputs[i] /\ undo'[i] = undo[i]
           /\ \A i \in 1..Len(queue) : queue'[i] = queue[i]
           /\ outputs'[Len(outputs) + 1] = [key |-> k, ts |-> clock + 1]
           /\ undo'[Len(outputs) + 1] = [key |-> k, ts |-> clock + 1, previous |-> Loaded(k)[k]]
           /\ queue'[Len(queue) + 1] = k
<1>1. /\ outputs \in Seq([key : Keys, ts : Nat]) /\ queue \in Seq(Keys)
      /\ undo \in Seq([key : Keys, ts : Nat, previous : Cells])
      /\ Len(undo) = Len(outputs)
  BY TypeParts DEF LoopInv, CacheType, WritesOK
<1>2. /\ [key |-> k, ts |-> clock + 1] \in [key : Keys, ts : Nat]
      /\ [key |-> k, ts |-> clock + 1, previous |-> Loaded(k)[k]]
             \in [key : Keys, ts : Nat, previous : Cells]
  <2>1. clock \in Nat /\ Loaded(k)[k] \in Cells
    BY SetEffect
  <2>2. clock + 1 \in Nat
    BY <2>1
  <2> QED BY <2>1, <2>2
<1>3. /\ outputs' = Append(outputs, [key |-> k, ts |-> clock + 1])
      /\ undo' = Append(undo, [key |-> k, ts |-> clock + 1, previous |-> Loaded(k)[k]])
      /\ queue' = Append(queue, k)
  BY SetEffect
<1>4. Len(outputs) \in Nat /\ Len(queue) \in Nat
  BY <1>1, LenProperties
<1>5. /\ outputs' \in Seq([key : Keys, ts : Nat]) /\ Len(outputs') = Len(outputs) + 1
      /\ \A i \in 1..Len(outputs) : outputs'[i] = outputs[i]
      /\ outputs'[Len(outputs) + 1] = [key |-> k, ts |-> clock + 1]
  BY ONLY <1>1, <1>2, <1>3, AppendProperties
<1>6. /\ undo' \in Seq([key : Keys, ts : Nat, previous : Cells]) /\ Len(undo') = Len(undo) + 1
      /\ \A i \in 1..Len(undo) : undo'[i] = undo[i]
      /\ undo'[Len(undo) + 1] = [key |-> k, ts |-> clock + 1, previous |-> Loaded(k)[k]]
  BY ONLY <1>1, <1>2, <1>3, AppendProperties
<1>7. /\ queue' \in Seq(Keys) /\ Len(queue') = Len(queue) + 1
      /\ \A i \in 1..Len(queue) : queue'[i] = queue[i]
      /\ queue'[Len(queue) + 1] = k
  BY <1>1, <1>3, AppendProperties
<1> QED BY <1>1, <1>4, <1>5, <1>6, <1>7

LEMMA SetStep ==
    ASSUME LoopInv, NEW k \in Keys, Set(k)
    PROVE  LoopInv'
<1> DEFINE old == Loaded(k)[k]
<1>0. PICK n : n = Len(outputs)
  OBVIOUS
<1>1. StoreType /\ CacheType /\ FlagsType
  BY TypeParts DEF LoopInv
<1>2. SetCall /\ clock \in Nat /\ clock' = clock + 1 /\ facts' = facts
  BY SetEffect DEF Set
<1>3. /\ n \in Nat /\ Len(undo) = n /\ Len(queue) \in Nat /\ Len(outputs') = n + 1
      /\ Len(undo') = n + 1 /\ Len(queue') = Len(queue) + 1
      /\ \A i \in 1..n : outputs'[i] = outputs[i] /\ undo'[i] = undo[i]
      /\ \A i \in 1..Len(queue) : queue'[i] = queue[i]
      /\ queue'[Len(queue) + 1] = k
  BY <1>0, SetAppends
<1>4. /\ outputs'[n + 1].key = k /\ outputs'[n + 1].ts = clock + 1
      /\ undo'[n + 1].key = k /\ undo'[n + 1].ts = clock + 1 /\ undo'[n + 1].previous = old
  <2>1. /\ outputs'[n + 1] = [key |-> k, ts |-> clock + 1]
        /\ undo'[n + 1] = [key |-> k, ts |-> clock + 1, previous |-> old]
    BY <1>0, SetAppends
  <2> QED BY <2>1
<1>5. /\ \A i \in 1..n : outputs[i].key \in Keys /\ outputs[i].ts \in Nat
      /\ \A i \in 1..n : undo[i].key \in Keys /\ undo[i].ts \in Nat
  <2>1. \A i \in 1..n : outputs[i] \in [key : Keys, ts : Nat]
    BY <1>0, <1>1, ElementOfSeq DEF CacheType
  <2>2. \A i \in 1..n : undo[i] \in [key : Keys, ts : Nat, previous : Cells]
    BY <1>1, <1>3, ElementOfSeq DEF CacheType
  <2> QED BY <2>1, <2>2
<1>6. old \in Cells /\ old.ts \in Nat /\ old.ts <= clock
  BY SetEffect DEF Cells
<1> HIDE DEF old
<1>7. CacheType'
  BY SetEffect, SetAppends DEF CacheType
<1>8. FlagsType'
  BY <1>1, <1>2, Zenon DEF FlagsType, Set, SetCall
<1>9. ClockOK'
  <2>1. \A x \in Keys : lww[x].ts \in Nat /\ lww[x].ts <= clock /\ facts[x] \in Nat /\ facts[x] <= clock
    BY <1>1 DEF LoopInv, ClockOK, CacheType, StoreType, Cells
  <2>2. \A x \in Keys : lww'[x] = lww[x] \/ lww'[x].ts = clock + 1
    BY SetEffect
  <2> QED BY <1>2, <2>1, <2>2 DEF ClockOK
<1>10. Served' = Served /\ Served \in Nat /\ Served + Len(queue) = n
  BY <1>0, <1>3 DEF Served, LoopInv, WritesOK
<1>11. WritesOK'
  <2>1. ASSUME NEW i \in 1..(n + 1)
        PROVE  /\ undo'[i].key = outputs'[i].key /\ undo'[i].ts = outputs'[i].ts
               /\ undo'[i].previous.ts < undo'[i].ts
               /\ outputs'[i].ts <= clock' /\ outputs'[i].ts > facts'[outputs'[i].key]
               /\ \A j \in 1..(n + 1) : i < j => outputs'[i].ts < outputs'[j].ts
    <3>1. CASE i \in 1..n
      <4>1. /\ undo[i].key = outputs[i].key /\ undo[i].ts = outputs[i].ts
            /\ undo[i].previous.ts < undo[i].ts
            /\ outputs[i].ts <= clock /\ outputs[i].ts > facts[outputs[i].key]
            /\ \A j \in 1..n : i < j => outputs[i].ts < outputs[j].ts
        BY <1>0, <3>1 DEF LoopInv, WritesOK
      <4>2. outputs'[i] = outputs[i] /\ undo'[i] = undo[i] /\ outputs[i].ts \in Nat
        BY <1>3, <1>5, <3>1
      <4>3. ASSUME NEW j \in 1..(n + 1), i < j PROVE outputs[i].ts < outputs'[j].ts
        <5>1. CASE j \in 1..n
          BY <1>3, <4>1, <4>3, <5>1
        <5>2. CASE j = n + 1
          BY <1>2, <1>4, <4>1, <4>2, <5>2
        <5> QED BY <1>3, <5>1, <5>2
      <4> QED BY <1>2, <4>1, <4>2, <4>3
    <3>2. CASE i = n + 1
      <4>1. facts[k] \in Nat /\ facts[k] <= clock
        BY <1>1 DEF LoopInv, ClockOK, StoreType
      <4>2. \A j \in 1..(n + 1) : ~(i < j)
        BY <1>3, <3>2
      <4> QED BY <1>2, <1>4, <1>6, <3>2, <4>1, <4>2
    <3> QED BY <1>3, <3>1, <3>2
  <2>2. ASSUME NEW j \in 1..(Len(queue) + 1) PROVE queue'[j] = outputs'[Served + j].key
    <3>1. CASE j \in 1..Len(queue)
      <4>1. Served + j \in 1..n
        BY <1>3, <1>10, <3>1
      <4> QED BY <1>3, <3>1, <4>1 DEF LoopInv, WritesOK
    <3>2. CASE j = Len(queue) + 1
      BY <1>3, <1>4, <1>10, <3>2
    <3> QED BY <1>3, <3>1, <3>2
  <2>3. Len(queue') <= Len(outputs')
    BY <1>3, <1>10
  <2> QED BY <1>3, <1>10, <2>1, <2>2, <2>3 DEF WritesOK
<1>12. ASSUME NEW i \in 0..n, NEW x
       PROVE  /\ \A j \in 1..(n + 1) : WrittenBetween(i, j, x)' <=> WrittenBetween(i, j, x)
              /\ x # k => (WrittenBetween(i, n + 2, x)' <=> WrittenBetween(i, n + 1, x))
              /\ x = k => WrittenBetween(i, n + 2, x)'
  <2>1. \A j \in 1..(n + 1) : WrittenBetween(i, j, x)' <=> WrittenBetween(i, j, x)
    BY <1>3 DEF WrittenBetween
  <2>2. x # k => (WrittenBetween(i, n + 2, x)' <=> WrittenBetween(i, n + 1, x))
    BY <1>3, <1>4 DEF WrittenBetween
  <2>3. x = k => WrittenBetween(i, n + 2, x)'
    BY <1>3, <1>4 DEF WrittenBetween
  <2> QED BY <2>1, <2>2, <2>3
<1>13. ChainOK'
  <2>1. ASSUME NEW i \in 1..n
        PROVE  /\ ~WrittenBetween(i, n + 1, undo[i].key) => lww[undo[i].key].ts = undo[i].ts
               /\ \A j \in 1..n : i < j /\ undo[j].key = undo[i].key
                                  /\ ~WrittenBetween(i, j, undo[i].key)
                                 => undo[j].previous.ts = undo[i].ts
    BY <1>3 DEF LoopInv, ChainOK
  <2>2. \A i \in 1..n : undo[i].key = k => old = lww[k]
    <3> SUFFICES ASSUME NEW i \in 1..n, undo[i].key = k PROVE old = lww[k]
      OBVIOUS
    <3>1. WrittenBetween(0, Len(undo) + 1, k)
      BY <1>3 DEF WrittenBetween
    <3> QED BY <3>1, WrittenIsCached DEF old
  <2>3. ASSUME NEW i \in 1..(n + 1), NEW x, x = undo'[i].key,
               ~WrittenBetween(i, n + 2, x)'
        PROVE  lww'[x].ts = undo'[i].ts
    <3>1. CASE i \in 1..n
      <4>1. x # k /\ ~WrittenBetween(i, n + 1, x) /\ x = undo[i].key /\ undo'[i] = undo[i]
        BY <1>3, <1>12, <2>3, <3>1
      <4>2. x \in Keys
        BY <1>5, <3>1, <4>1
      <4> QED BY <2>1, <3>1, <4>1, <4>2, SetEffect
    <3>2. CASE i = n + 1
      BY <1>4, <2>3, <3>2, SetEffect
    <3> QED BY <1>3, <3>1, <3>2
  <2>4. ASSUME NEW i \in 1..(n + 1), NEW j \in 1..(n + 1), i < j, NEW x, x = undo'[i].key,
               undo'[j].key = x, ~WrittenBetween(i, j, x)'
        PROVE  undo'[j].previous.ts = undo'[i].ts
    <3>1. i \in 1..n
      BY <1>3, <2>4
    <3>2. x = undo[i].key /\ undo'[i] = undo[i] /\ ~WrittenBetween(i, j, x)
      <4>1. WrittenBetween(i, j, x)' <=> WrittenBetween(i, j, x)
        BY <1>12, <3>1
      <4> QED BY <1>3, <2>4, <3>1, <4>1
    <3>3. CASE j \in 1..n
      BY <1>3, <2>1, <2>4, <3>1, <3>2, <3>3
    <3>4. CASE j = n + 1
      <4>1. x = k /\ old = lww[k]
        BY <1>4, <2>2, <2>4, <3>1, <3>2, <3>4
      <4>2. lww[k].ts = undo[i].ts
        BY <2>1, <3>1, <3>2, <3>4, <4>1
      <4> QED BY <1>4, <3>2, <3>4, <4>1, <4>2
    <3> QED BY <1>3, <3>3, <3>4
  <2>5. (n + 1) + 1 = n + 2
    BY <1>3
  <2> QED BY <1>3, <2>3, <2>4, <2>5 DEF ChainOK
<1>14. Len(outputs') >= Len(outputs) /\ \A i \in 1..Len(outputs) : outputs'[i] = outputs[i]
  BY <1>0, <1>3
<1> QED BY <1>2, <1>7, <1>8, <1>9, <1>10, <1>11, <1>13, <1>14, SetCallStep

-----------------------------------------------------------------------------
(* The theorems about the loop.                                            *)

LEMMA LoopStep == LoopInv /\ [Next]_vars => LoopInv'
<1> SUFFICES ASSUME LoopInv, [Next]_vars PROVE LoopInv'
  OBVIOUS
<1>1. CASE UNCHANGED vars
  <2>1. LoopType /\ RunsType /\ FlagsType /\ LoopOK /\ WakeupOK
    BY TypeParts DEF LoopInv
  <2>2. UNCHANGED <<storeVars, clock, cacheVars, loopVars, histVars, ran>>
    BY <1>1 DEF vars
  <2>3. /\ StoreType' /\ CacheType' /\ ClockOK' /\ WritesOK' /\ ChainOK' /\ PendingOK'
        /\ Served' = Served
    BY <2>2, CacheFrame DEF storeVars, cacheVars
  <2>4. LoopType' /\ RunsType'
    BY <2>1, <2>2 DEF LoopType, RunsType, loopVars, histVars
  <2>5. FlagsType'
    BY <2>1, <2>2, Zenon DEF FlagsType, loopVars, cacheVars
  <2>6. LoopOK'
    BY <2>1, <2>2 DEF LoopOK, Between, Fresh, Claim, storeVars, cacheVars, loopVars
  <2>7. WakeupOK'
    BY <2>1, <2>2 DEF WakeupOK, Between, Fresh, Served, Waiting, storeVars, cacheVars, loopVars
  <2>8. TypeOK'
    BY <2>3, <2>4, <2>5, TypeParts, PTL
  <2> QED BY <2>3, <2>6, <2>7, <2>8 DEF LoopInv
<1>2. ASSUME NEW k \in Keys, Ingest(k) \/ Set(k) \/ SetQueueFull(k) \/ SetOom(k) PROVE LoopInv'
  BY <1>2, IngestStep, SetStep, SetRefusedStep
<1>3. CASE IngestFails \/ IngestStops \/ Begin \/ Restart
  BY <1>3, IngestFailsStep, IngestStopsStep, BeginStep, RestartStep
<1>4. CASE RunStep
  BY <1>4, CycleDurableStep, CycleQueuedStep, DispatchStep, CycleEndsStep, FlushStep DEF RunStep
<1>5. CASE CheckFails \/ RuleTraps \/ CycleOom \/ FlushFails
  BY <1>5, FailSteps
<1> QED BY <1>1, <1>2, <1>3, <1>4, <1>5 DEF Next

LEMMA LoopInvariant == Spec => []LoopInv
  BY LoopInit, LoopStep, PTL DEF Spec

(* Every variable of the session keeps its type; in particular a run never *)
(* starts a cycle beyond the depth limit and every undo entry can be put   *)
(* back into the cache.  (context.zig, loop.zig, lww.zig, queue.zig)       *)
THEOREM CascadeTypeOK == Spec => []TypeOK
<1>1. LoopInv => TypeOK
  BY DEF LoopInv
<1> QED BY <1>1, LoopInvariant, PTL

(* A run that ends, by a checkpoint or by any of its errors, leaves no     *)
(* signal, no output, no undo entry and no claim: discardCascade takes out *)
(* of the dirty queue exactly what the cascade has put there, whatever was *)
(* served before and however often a key occurs.                           *)
THEOREM RunsLeaveNothingHolds == Spec => []RunsLeaveNothing
<1>1. LoopInv => RunsLeaveNothing
  BY DEF LoopInv, LoopOK, Between, RunsLeaveNothing
<1> QED BY <1>1, LoopInvariant, PTL

(* No lost wake-up: at the checkpoint the queue is empty, so every output  *)
(* has been served, and serving it has started each of its watchers after  *)
(* the write.  (loop.zig runTimed)                                         *)
THEOREM NoLostWakeupHolds == Spec => []NoLostWakeup
<1>1. LoopInv => NoLostWakeup
  <2> SUFFICES ASSUME LoopInv, pc = "flush" PROVE NoLostWakeup
    BY DEF NoLostWakeup
  <2>1. /\ outputs \in Seq([key : Keys, ts : Nat]) /\ queue = <<>>
        /\ pending \in Seq([id : Nat, key : Keys]) /\ pending # <<>>
    BY TypeParts DEF LoopInv, LoopOK, Between, CacheType, StoreType
  <2>2. Served = Len(outputs) /\ DOMAIN outputs = 1..Len(outputs)
    BY <2>1, LenProperties DEF Served
  <2>3. DOMAIN pending = 1..Len(pending) /\ Len(pending) \in Nat \ {0}
    BY <2>1, LenProperties, EmptySeq
  <2>4. \A k, r : ~Waiting(k, r)
    BY DEF Waiting
  <2>5. \A i \in DOMAIN outputs : \A r \in ToSet(Watchers[outputs[i].key]) :
          ran[<<r, EntityOf[outputs[i].key]>>] >= outputs[i].ts
    BY <2>2, <2>4 DEF LoopInv, WakeupOK
  <2>6. /\ trigger = pending[1].id
        /\ \A r \in ToSet(Watchers[pending[1].key]) : ran[<<r, EntityOf[pending[1].key]>>] > 0
    BY <2>4 DEF LoopInv, WakeupOK, Between, Fresh
  <2>7. ASSUME NEW i \in DOMAIN pending, pending[i].id = trigger PROVE i = 1
    <3>1. 1 \in 1..Len(pending) /\ i \in 1..Len(pending)
      BY <2>3
    <3>2. pending[1].id \in Nat
      <4>1. pending[1] \in [id : Nat, key : Keys]
        BY <2>1, <3>1, ElementOfSeq
      <4> QED BY <4>1
    <3>3. 1 < i => pending[1].id < pending[i].id
      BY <3>1 DEF LoopInv, PendingOK
    <3> QED BY <2>6, <2>7, <3>1, <3>2, <3>3
  <2> QED BY <2>5, <2>6, <2>7 DEF NoLostWakeup
<1> QED BY <1>1, LoopInvariant, PTL

-----------------------------------------------------------------------------
(* The cache.  The rules write no JSON strings: slung_set keeps those in   *)
(* another form (module Cascade, Cell), and CacheCoherent fails with them. *)
NoStrings == "string" \notin ValueKinds

CellOK(cell) == cell = NoCell \/ (cell.ts > 0 /\ cell = Json(cell.ts))

LEMMA CoherentIsOK ==
    ASSUME LoopInv, NEW k \in Keys, NEW cell, CoherentCell(k, cell)
    PROVE  CellOK(cell)
<1>1. facts[k] \in Nat
  BY TypeParts DEF LoopInv, StoreType
<1>2. \A t \in Nat : t > 0 => Json(t).ts > 0 /\ Json(t) = Json(Json(t).ts)
  BY KeyAndTables
<1>3. CASE k \in missed
  <2>1. PICK t \in 1..(facts[k] - 1) : cell = Json(t)
    BY <1>3 DEF CoherentCell
  <2>2. t \in Nat /\ t > 0
    BY <1>1
  <2> QED BY <1>2, <2>1, <2>2 DEF CellOK
<1>4. CASE k \notin missed
  <2>1. cell = NoCell \/ (facts[k] # 0 /\ cell = Json(facts[k]))
    BY <1>4 DEF CoherentCell, Stored, Absent
  <2>2. facts[k] # 0 => facts[k] > 0
    BY <1>1
  <2> QED BY <1>1, <1>2, <2>1, <2>2 DEF CellOK
<1> QED BY <1>3, <1>4

(* The cell that discarding would leave is coherent.                       *)
LEMMA UndoneCoherent ==
    ASSUME LoopInv, CacheOK, NEW k \in Keys
    PROVE  CoherentCell(k, Undone[k])
<1>1. CASE ~WrittenBetween(0, Len(undo) + 1, k) /\ Undone[k] = lww[k]
  BY <1>1 DEF CacheOK
<1>2. ASSUME NEW i \in 1..Len(undo), undo[i].key = k, ~WrittenBetween(0, i, k),
             Undone[k] = undo[i].previous
      PROVE  CoherentCell(k, Undone[k])
  BY <1>2 DEF CacheOK
<1> QED BY <1>1, <1>2, UndoneCases DEF LoopInv

(* A cell stays coherent while its stored fact and its key's status do.    *)
LEMMA CoherentFrame ==
    ASSUME NEW k \in Keys, NEW cell, facts'[k] = facts[k], (k \in missed') = (k \in missed)
    PROVE  CoherentCell(k, cell)' <=> CoherentCell(k, cell)
  BY DEF CoherentCell, Stored

LEMMA CacheInit == Init => CacheOK
<1> SUFFICES ASSUME Init PROVE CacheOK
  OBVIOUS
<1>1. Len(undo) = 0 /\ missed = {} /\ \A k \in Keys : lww[k] = NoCell
  BY DEF Init
<1> QED BY <1>1 DEF CacheOK, CoherentCell

LEMMA CacheSame ==
    ASSUME CacheOK, UNCHANGED <<lww, undo, facts, missed>>
    PROVE  CacheOK'
  BY DEF CacheOK, WrittenBetween, CoherentCell, Stored

(* With nothing to undo the cache itself has to be coherent.               *)
CachedCoherent == \A k \in Keys : CoherentCell(k, lww[k])
CachedOK == \A k \in Keys : CellOK(lww[k])

LEMMA CachedCells == LoopInv /\ CachedCoherent => CachedOK
  BY CoherentIsOK DEF CachedCoherent, CachedOK

LEMMA CacheSettled ==
    ASSUME LoopInv', undo' = <<>>,
           \A k \in Keys : \A cell : cell = lww'[k] => CoherentCell(k, cell)'
    PROVE  CacheOK'
<1>1. Len(undo') = 0
  OBVIOUS
<1>2. CachedCoherent'
  <2> SUFFICES ASSUME NEW k \in Keys PROVE CoherentCell(k, lww[k])'
    BY DEF CachedCoherent
  <2>1. PICK cell : cell = lww'[k]
    OBVIOUS
  <2> QED BY <2>1
<1>3. CachedOK'
  BY <1>2, CachedCells, PTL
<1> QED BY <1>1, <1>2, <1>3 DEF CacheOK, CachedCoherent, CachedOK, CellOK

LEMMA CacheFail ==
    ASSUME LoopInv, CacheOK, LoopInv', Fail
    PROVE  CacheOK'
<1>1. undo' = <<>> /\ lww' = Undone /\ UNCHANGED <<facts, missed>>
  BY DEF Fail, Discard, storeVars, histVars
<1>2. ASSUME NEW k \in Keys, NEW cell, cell = lww'[k] PROVE CoherentCell(k, cell)'
  <2>1. CoherentCell(k, cell)
    BY <1>1, <1>2, UndoneCoherent
  <2> QED BY <1>1, <2>1, CoherentFrame
<1> QED BY <1>1, <1>2, CacheSettled

LEMMA CacheRestart ==
    ASSUME LoopInv', Restart
    PROVE  CacheOK'
<1>1. undo' = <<>> /\ missed' = {} /\ \A k \in Keys : lww'[k] = NoCell
  BY DEF Restart
<1>2. ASSUME NEW k \in Keys, NEW cell, cell = lww'[k] PROVE CoherentCell(k, cell)'
  BY <1>1, <1>2 DEF CoherentCell
<1> QED BY <1>1, <1>2, CacheSettled

LEMMA CacheIngest ==
    ASSUME LoopInv, CacheOK, LoopInv', NEW k \in Keys, Ingest(k)
    PROVE  CacheOK'
<1>1. clock \in Nat /\ facts \in [Keys -> Nat] /\ lww \in [Keys -> Cells]
  BY TypeParts DEF LoopInv, StoreType, CacheType
<1>2. \A x \in Keys : facts[x] <= clock /\ lww[x].ts <= clock /\ lww[x].ts \in Nat
  BY <1>1 DEF LoopInv, ClockOK, Cells
<1>3. undo = <<>> /\ undo' = <<>> /\ clock' = clock + 1 /\ clock' > facts[k]
  BY <1>1, <1>2 DEF Ingest, LoopInv, LoopOK, Between
<1>4. /\ facts' = [facts EXCEPT ![k] = clock + 1]
      /\ \/ lww' = Put(lww, k, Json(clock + 1)) /\ missed' = missed \ {k}
         \/ lww' = lww /\ missed' = missed \union {x \in {k} : lww[x] # NoCell}
  BY <1>3 DEF Ingest
<1>5. ASSUME NEW x \in Keys PROVE CoherentCell(x, lww[x])
  <2>1. Len(undo) = 0
    BY <1>3
  <2>2. ~WrittenBetween(0, Len(undo) + 1, x)
    BY <2>1 DEF WrittenBetween
  <2> QED BY <2>2 DEF CacheOK
<1>6. /\ Json(clock + 1).ts = clock + 1 /\ facts'[k] = clock + 1 /\ clock + 1 # Absent
      /\ clock + 1 \in Nat
  BY <1>1, <1>4, KeyAndTables DEF Absent
<1>7. ASSUME NEW x \in Keys, NEW cell, cell = lww'[x] PROVE CoherentCell(x, cell)'
  <2>1. CASE x # k
    <3>1. lww'[x] = lww[x] /\ facts'[x] = facts[x] /\ (x \in missed') = (x \in missed)
      BY <1>1, <1>4, <2>1 DEF Put
    <3>2. CoherentCell(x, cell)
      BY <1>5, <1>7, <3>1
    <3> QED BY <3>1, <3>2, CoherentFrame
  <2>2. CASE x = k /\ lww' = Put(lww, k, Json(clock + 1)) /\ missed' = missed \ {k}
    <3>1. Json(clock + 1).ts > lww[k].ts
      BY <1>1, <1>2, <1>6
    <3>2. lww'[k] = Json(clock + 1)
      BY <1>1, <2>2, <3>1 DEF Put
    <3> QED BY <1>6, <1>7, <2>2, <3>2 DEF CoherentCell, Stored
  <2>3. CASE x = k /\ lww' = lww /\ missed' = missed \union {y \in {k} : lww[y] # NoCell}
    <3>1. CASE lww[k] = NoCell
      <4>1. k \notin missed
        <5> SUFFICES ASSUME k \in missed PROVE FALSE
          OBVIOUS
        <5>1. PICK t \in 1..(facts[k] - 1) : NoCell = Json(t)
          BY <1>5, <3>1 DEF CoherentCell
        <5>2. t \in Nat
          BY <1>1
        <5> QED BY <5>1, <5>2, KeyAndTables
      <4>2. k \notin missed'
        BY <2>3, <3>1, <4>1
      <4> QED BY <1>7, <2>3, <3>1, <4>2 DEF CoherentCell
    <3>2. CASE lww[k] # NoCell
      <4>1. lww[k].ts > 0 /\ lww[k] = Json(lww[k].ts)
        BY <3>2 DEF CacheOK
      <4>2. k \in missed'
        BY <2>3, <3>2
      <4>3. lww[k].ts \in 1..(facts'[k] - 1)
        BY <1>1, <1>2, <1>6, <4>1
      <4> QED BY <1>7, <2>3, <4>1, <4>2, <4>3 DEF CoherentCell
    <3> QED BY <3>1, <3>2
  <2> QED BY <1>4, <2>1, <2>2, <2>3
<1> QED BY <1>3, <1>7, CacheSettled

LEMMA CacheFlush ==
    ASSUME LoopInv, CacheOK, LoopInv', Flush
    PROVE  CacheOK'
<1>1. /\ undo' = <<>> /\ lww' = lww
      /\ missed' = missed \ {outputs[i].key : i \in DOMAIN outputs}
  BY DEF Flush
<1> DEFINE n == Len(outputs)
<1>2. n \in Nat /\ DOMAIN outputs = 1..n /\ Len(undo) = n
  BY LenProperties, TypeParts DEF LoopInv, CacheType, WritesOK
<1>3. /\ \A k \in Keys : (\A i \in 1..n : outputs[i].key # k) => facts'[k] = facts[k]
      /\ \A i \in 1..n : (\A x \in 1..n : i < x => outputs[x].key # outputs[i].key)
                            => facts'[outputs[i].key] = outputs[i].ts
  BY FlushedFacts DEF LoopInv
<1>4. \A i \in 1..n : undo[i].key = outputs[i].key /\ undo[i].ts = outputs[i].ts
  BY DEF LoopInv, WritesOK
<1>5. \A i \in 1..n : outputs[i].ts \in Nat /\ outputs[i].ts > 0
  <2> SUFFICES ASSUME NEW i \in 1..n PROVE outputs[i].ts \in Nat /\ outputs[i].ts > 0
    OBVIOUS
  <2>1. outputs[i] \in [key : Keys, ts : Nat]
    BY ElementOfSeq, TypeParts DEF LoopInv, CacheType
  <2>2. outputs[i].key \in Keys /\ outputs[i].ts \in Nat
    BY <2>1
  <2>3. facts[outputs[i].key] \in Nat
    BY <2>2, TypeParts DEF LoopInv, StoreType
  <2>4. outputs[i].ts > facts[outputs[i].key]
    BY DEF LoopInv, WritesOK
  <2> QED BY <2>2, <2>3, <2>4
<1> HIDE DEF n
<1>6. ASSUME NEW k \in Keys, NEW cell, cell = lww'[k] PROVE CoherentCell(k, cell)'
  <2>1. CASE \A i \in 1..n : outputs[i].key # k
    <3>1. ~WrittenBetween(0, Len(undo) + 1, k)
      BY <1>2, <1>4, <2>1 DEF WrittenBetween
    <3>2. CoherentCell(k, cell)
      BY <1>1, <1>6, <3>1 DEF CacheOK
    <3>3. facts'[k] = facts[k] /\ (k \in missed') = (k \in missed)
      BY <1>1, <1>2, <1>3, <2>1
    <3> QED BY <3>2, <3>3, CoherentFrame
  <2>2. CASE \E i \in 1..n : outputs[i].key = k
    <3> DEFINE J == {i \in 1..n : outputs[i].key = k}
    <3>1. J \in SUBSET (1..n) /\ J # {}
      BY <2>2
    <3>2. Max(J) \in J /\ \A y \in J : Max(J) >= y
      <4> HIDE DEF J
      <4> QED BY <1>2, <3>1, MaxOfPart
    <3> DEFINE j == Max(J)
    <3>3. j \in 1..n /\ outputs[j].key = k
      BY <3>2
    <3>4. \A x \in 1..n : outputs[x].key = k => j >= x
      BY <3>2
    <3> HIDE DEF j
    <3>5. facts'[k] = outputs[j].ts
      BY <1>2, <1>3, <3>3, <3>4
    <3>6. ~WrittenBetween(j, Len(undo) + 1, undo[j].key)
      BY <1>2, <1>4, <3>3, <3>4 DEF WrittenBetween
    <3>7. lww[k].ts = outputs[j].ts
      BY <1>2, <1>4, <3>3, <3>6 DEF LoopInv, ChainOK
    <3>8. lww[k] # NoCell
      BY <1>5, <3>3, <3>7, KeyAndTables
    <3>9. lww[k] = Json(facts'[k]) /\ facts'[k] # Absent
      BY <1>5, <3>3, <3>5, <3>7, <3>8 DEF CacheOK, Absent
    <3>10. k \notin missed'
      BY <1>1, <1>2, <3>3
    <3> QED BY <1>1, <1>6, <3>9, <3>10 DEF CoherentCell, Stored
  <2> QED BY <2>1, <2>2
<1> QED BY <1>1, <1>6, CacheSettled

(* A loaded miss is the stored fact.                                       *)
LEMMA LoadedCoherent ==
    ASSUME LoopInv, CacheOK, NEW k \in Keys
    PROVE  /\ CellOK(Loaded(k)[k])
           /\ ~WrittenBetween(0, Len(undo) + 1, k) => CoherentCell(k, Loaded(k)[k])
<1>1. CASE Loaded(k) = lww
  BY <1>1 DEF CacheOK, CellOK
<1>2. CASE Loaded(k) # lww
  <2>1. lww[k] = NoCell /\ facts[k] # Absent /\ Loaded(k)[k] = Json(facts[k])
    BY <1>2, LoadedIs
  <2>2. ~WrittenBetween(0, Len(undo) + 1, k)
    BY <1>2, WrittenIsCached
  <2>3. CoherentCell(k, NoCell)
    BY <2>1, <2>2 DEF CacheOK
  <2>4. facts[k] \in Nat
    BY TypeParts DEF LoopInv, StoreType
  <2>5. k \notin missed
    <3> SUFFICES ASSUME k \in missed PROVE FALSE
      OBVIOUS
    <3>1. PICK t \in 1..(facts[k] - 1) : NoCell = Json(t)
      BY <2>3 DEF CoherentCell
    <3>2. t \in Nat
      BY <2>4
    <3> QED BY <3>1, <3>2, KeyAndTables
  <2>6. CoherentCell(k, Loaded(k)[k])
    BY <2>1, <2>5 DEF CoherentCell, Stored
  <2> QED BY <2>6, CoherentIsOK
<1> QED BY <1>1, <1>2

LEMMA CacheRefused ==
    ASSUME LoopInv, CacheOK, NEW k \in Keys, SetQueueFull(k) \/ SetOom(k)
    PROVE  CacheOK'
<1>1. lww' = Loaded(k) /\ UNCHANGED <<undo, facts, missed>>
  BY DEF SetQueueFull, SetOom, SetCall, storeVars, histVars
<1>2. \A i, j, x : WrittenBetween(i, j, x)' <=> WrittenBetween(i, j, x)
  BY <1>1 DEF WrittenBetween
<1>3. \A x \in Keys : \A cell : CoherentCell(x, cell)' <=> CoherentCell(x, cell)
  BY <1>1, CoherentFrame
<1>4. PICK m : m = Len(undo) + 1
  OBVIOUS
<1>5. ASSUME NEW x \in Keys, NEW cell, cell = lww'[x]
      PROVE  CellOK(cell) /\ (~WrittenBetween(0, m, x) => CoherentCell(x, cell))
  <2>1. CASE x = k
    BY <1>1, <1>4, <1>5, <2>1, LoadedCoherent
  <2>2. CASE x # k
    <3>1. cell = lww[x]
      BY <1>1, <1>5, <2>2, LoadedIs
    <3> QED BY <1>4, <3>1 DEF CacheOK, CellOK
  <2> QED BY <2>1, <2>2
<1>6. ASSUME NEW x \in Keys
      PROVE  /\ lww'[x] = NoCell \/ (lww'[x].ts > 0 /\ lww'[x] = Json(lww'[x].ts))
             /\ (~WrittenBetween(0, Len(undo) + 1, x) => CoherentCell(x, lww[x]))'
  <2>1. PICK cell : cell = lww'[x]
    OBVIOUS
  <2>2. CellOK(cell) /\ (~WrittenBetween(0, m, x)' => CoherentCell(x, cell)')
    BY <1>2, <1>3, <1>5, <2>1
  <2>3. m = Len(undo') + 1
    BY <1>1, <1>4
  <2> QED BY <2>1, <2>2, <2>3 DEF CellOK
<1>7. ASSUME NEW i \in 1..Len(undo)
      PROVE  (~WrittenBetween(0, i, undo[i].key) => CoherentCell(undo[i].key, undo[i].previous))'
  <2>1. PICK x : x = undo[i].key
    OBVIOUS
  <2>2. PICK cell : cell = undo[i].previous
    OBVIOUS
  <2>3. x \in Keys
    <3>1. undo[i] \in [key : Keys, ts : Nat, previous : Cells]
      BY ElementOfSeq, TypeParts DEF LoopInv, CacheType
    <3> QED BY <2>1, <3>1
  <2>4. ~WrittenBetween(0, i, x) => CoherentCell(x, cell)
    BY <2>1, <2>2 DEF CacheOK
  <2>5. ~WrittenBetween(0, i, x)' => CoherentCell(x, cell)'
    BY <1>2, <1>3, <2>3, <2>4
  <2> QED BY <1>1, <2>1, <2>2, <2>5
<1> QED BY <1>1, <1>6, <1>7 DEF CacheOK

LEMMA CacheSet ==
    ASSUME NoStrings, LoopInv, CacheOK, NEW k \in Keys, Set(k)
    PROVE  CacheOK'
<1>0. PICK n : n = Len(outputs)
  OBVIOUS
<1>1. UNCHANGED <<facts, missed>>
  BY DEF Set, SetCall, storeVars, histVars
<1>2. /\ n \in Nat /\ Len(undo) = n /\ Len(undo') = n + 1
      /\ \A i \in 1..n : undo'[i] = undo[i]
      /\ undo'[n + 1] = [key |-> k, ts |-> clock + 1, previous |-> Loaded(k)[k]]
  BY <1>0, SetAppends
<1>3. undo'[n + 1].key = k /\ undo'[n + 1].previous = Loaded(k)[k]
  BY <1>2
<1>4. \A x \in Keys : \A cell : CoherentCell(x, cell)' <=> CoherentCell(x, cell)
  BY <1>1, CoherentFrame
<1>5. /\ \A j \in 1..(n + 1) : \A x : WrittenBetween(0, j, x)' <=> WrittenBetween(0, j, x)
      /\ \A x : x # k => (WrittenBetween(0, n + 2, x)' <=> WrittenBetween(0, n + 1, x))
      /\ \A x : x = k => WrittenBetween(0, n + 2, x)'
  <2>1. \A j \in 1..(n + 1) : \A x : WrittenBetween(0, j, x)' <=> WrittenBetween(0, j, x)
    BY <1>2 DEF WrittenBetween
  <2>2. \A x : x # k => (WrittenBetween(0, n + 2, x)' <=> WrittenBetween(0, n + 1, x))
    BY <1>2, <1>3 DEF WrittenBetween
  <2>3. \A x : x = k => WrittenBetween(0, n + 2, x)'
    BY <1>2, <1>3 DEF WrittenBetween
  <2> QED BY <2>1, <2>2, <2>3
<1>6. lww'[k] = Json(clock + 1) /\ clock + 1 \in Nat /\ clock + 1 > 0
  <2>1. clock \in Nat
    BY SetEffect
  <2>2. PICK kind \in ValueKinds : lww' = [Loaded(k) EXCEPT ![k] = Cell(clock + 1, kind)]
    BY SetEffect
  <2>3. Cell(clock + 1, kind) = Json(clock + 1)
    BY <2>2 DEF Cell, Json, NoStrings
  <2>4. k \in DOMAIN Loaded(k)
    BY LoadedIs
  <2> QED BY <2>1, <2>2, <2>3, <2>4
<1>7. ASSUME NEW x \in Keys, NEW cell, cell = lww'[x]
      PROVE  CellOK(cell) /\ (~WrittenBetween(0, n + 2, x)' => CoherentCell(x, cell)')
  <2>1. CASE x = k
    BY <1>5, <1>6, <1>7, <2>1, KeyAndTables DEF CellOK
  <2>2. CASE x # k
    <3>1. cell = lww[x]
      BY <1>7, <2>2, SetEffect
    <3>2. CellOK(cell) /\ (~WrittenBetween(0, n + 1, x) => CoherentCell(x, cell))
      BY <1>2, <3>1 DEF CacheOK, CellOK
    <3> QED BY <1>4, <1>5, <2>2, <3>2
  <2> QED BY <2>1, <2>2
<1>8. ASSUME NEW x \in Keys
      PROVE  /\ lww'[x] = NoCell \/ (lww'[x].ts > 0 /\ lww'[x] = Json(lww'[x].ts))
             /\ (~WrittenBetween(0, Len(undo) + 1, x) => CoherentCell(x, lww[x]))'
  <2>1. PICK cell : cell = lww'[x]
    OBVIOUS
  <2>2. CellOK(cell) /\ (~WrittenBetween(0, n + 2, x)' => CoherentCell(x, cell)')
    BY <1>7, <2>1
  <2>3. n + 2 = Len(undo') + 1
    BY <1>2
  <2> QED BY <2>1, <2>2, <2>3 DEF CellOK
<1>9. ASSUME NEW i \in 1..(n + 1)
      PROVE  (~WrittenBetween(0, i, undo[i].key) => CoherentCell(undo[i].key, undo[i].previous))'
  <2>1. PICK x : x = undo'[i].key
    OBVIOUS
  <2>2. PICK cell : cell = undo'[i].previous
    OBVIOUS
  <2>3. x \in Keys /\ (~WrittenBetween(0, i, x) => CoherentCell(x, cell))
    <3>1. CASE i \in 1..n
      <4>1. undo[i] \in [key : Keys, ts : Nat, previous : Cells]
        BY <1>2, <3>1, ElementOfSeq, TypeParts DEF LoopInv, CacheType
      <4>2. undo[i].key \in Keys
        BY <4>1
      <4> QED BY <1>2, <2>1, <2>2, <3>1, <4>2 DEF CacheOK
    <3>2. CASE i = n + 1
      BY <1>2, <1>3, <2>1, <2>2, <3>2, LoadedCoherent
    <3> QED BY <1>2, <3>1, <3>2
  <2>4. ~WrittenBetween(0, i, x)' => CoherentCell(x, cell)'
    BY <1>4, <1>5, <2>3
  <2> QED BY <2>1, <2>2, <2>4
<1> QED BY <1>2, <1>8, <1>9 DEF CacheOK

LEMMA CacheStep == NoStrings /\ LoopInv /\ CacheOK /\ LoopInv' /\ [Next]_vars => CacheOK'
<1> SUFFICES ASSUME NoStrings, LoopInv, CacheOK, LoopInv', [Next]_vars PROVE CacheOK'
  OBVIOUS
<1>1. CASE UNCHANGED vars
  BY <1>1, CacheSame DEF vars, cacheVars, storeVars, histVars
<1>2. ASSUME NEW k \in Keys, Ingest(k) \/ Set(k) \/ SetQueueFull(k) \/ SetOom(k) PROVE CacheOK'
  BY <1>2, CacheIngest, CacheSet, CacheRefused
<1>3. CASE IngestFails \/ IngestStops \/ Begin
  BY <1>3, CacheSame DEF IngestFails, IngestStops, Begin, storeVars, cacheVars, histVars
<1>4. CASE Restart
  BY <1>4, CacheRestart
<1>5. CASE CycleDurable \/ CycleQueued \/ Dispatch \/ CycleEnds
  BY <1>5, CacheSame
     DEF CycleDurable, CycleQueued, Dispatch, CycleEnds, storeVars, cacheVars, histVars
<1>6. CASE RuleReturns \/ CheckContinues \/ CheckConverged
  BY <1>6, CacheSame
     DEF RuleReturns, CheckContinues, CheckConverged, storeVars, cacheVars, histVars
<1>7. CASE Flush
  BY <1>7, CacheFlush
<1>8. CASE CheckFails \/ RuleTraps \/ CycleOom \/ FlushFails
  BY <1>8, CacheFail DEF CheckFails, RuleTraps, CycleOom, FlushFails
<1> QED BY <1>1, <1>2, <1>3, <1>4, <1>5, <1>6, <1>7, <1>8 DEF Next, RunStep

(* The cache never tells a guest what the store would not, whatever fails  *)
(* and when: discarding a cascade restores the cells from before it, a     *)
(* checkpoint stores exactly what is cached, and only a fact that          *)
(* ingestion could not cache is missed.  For rules that write no JSON      *)
(* strings.  (context.zig discardCascade and flushCascade, generic.zig     *)
(* slung_set, events.zig ingestSourceData)                                 *)
THEOREM CacheCoherentHolds == NoStrings => (Spec => []CacheCoherent)
<1> SUFFICES ASSUME NoStrings PROVE Spec => []CacheCoherent
  OBVIOUS
<1>1. Init => CacheOK
  BY CacheInit
<1>2. LoopInv /\ CacheOK /\ LoopInv' /\ [Next]_vars => CacheOK'
  BY CacheStep
<1>3. LoopInv /\ CacheOK => CacheCoherent
  <2> SUFFICES ASSUME LoopInv, CacheOK, NEW k \in Keys
               PROVE  IF k \in missed THEN Undone[k] \in {Json(t) : t \in 1..(facts[k] - 1)}
                                      ELSE Undone[k] \in {NoCell, Stored(k)}
    BY DEF CacheCoherent
  <2>1. CoherentCell(k, Undone[k])
    BY UndoneCoherent
  <2> QED BY <2>1 DEF CoherentCell
<1> QED BY <1>1, <1>2, <1>3, LoopInvariant, PTL DEF Spec
=============================================================================
