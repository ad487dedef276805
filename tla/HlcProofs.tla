----------------------------- MODULE HlcProofs -----------------------------
(***************************************************************************)
(* Theorems about the hybrid logical clock, for every set of node ids and  *)
(* every behaviour of the wall clocks and the network.                     *)
(***************************************************************************)
EXTENDS Hlc, TLAPS

(* What compare decides, spelled out on the fields.                        *)
Less(s, t) ==
    \/ s.wall < t.wall
    \/ s.wall = t.wall /\ s.logical < t.logical
    \/ s.wall = t.wall /\ s.logical = t.logical /\ s.node_id < t.node_id

LEMMA FieldTypes ==
    ASSUME NEW s \in Timestamp
    PROVE  s.wall \in Nat /\ s.logical \in Nat /\ s.node_id \in Nat
BY HlcAssumption DEF Timestamp

LEMMA CompareMeaning ==
    ASSUME NEW s \in Timestamp, NEW t \in Timestamp
    PROVE  /\ Before(s, t) <=> Less(s, t)
           /\ After(s, t) <=> Less(t, s)
           /\ Compare(s, t) = "eq" <=> s = t
<1>1. /\ s.wall \in Nat /\ s.logical \in Nat /\ s.node_id \in Nat
      /\ t.wall \in Nat /\ t.logical \in Nat /\ t.node_id \in Nat
  BY FieldTypes
<1>2. Before(s, t) <=> Less(s, t)
  BY <1>1 DEF Before, Compare, Order, Less
<1>3. After(s, t) <=> Less(t, s)
  BY <1>1 DEF After, Compare, Order, Less
<1>4. Compare(s, t) = "eq" <=> /\ s.wall = t.wall /\ s.logical = t.logical
                               /\ s.node_id = t.node_id
  BY <1>1 DEF Compare, Order
<1>5. s.wall = t.wall /\ s.logical = t.logical /\ s.node_id = t.node_id <=> s = t
  BY DEF Timestamp
<1> QED BY <1>2, <1>3, <1>4, <1>5

(***************************************************************************)
(* "Totally ordered with no ties" (hlc.zig:7): of two different stamps     *)
(* exactly one is before the other, and the order is transitive.           *)
(***************************************************************************)
THEOREM TimestampsTotallyOrdered ==
    \A s, t, u \in Timestamp :
        /\ s # t => (Before(s, t) <=> ~Before(t, s))
        /\ ~Before(s, s)
        /\ Before(s, t) <=> After(t, s)
        /\ Before(s, t) /\ Before(t, u) => Before(s, u)
<1> TAKE s, t, u \in Timestamp
<1>1. /\ s.wall \in Nat /\ s.logical \in Nat /\ s.node_id \in Nat
      /\ t.wall \in Nat /\ t.logical \in Nat /\ t.node_id \in Nat
      /\ u.wall \in Nat /\ u.logical \in Nat /\ u.node_id \in Nat
  BY FieldTypes
<1>2. s # t => s.wall # t.wall \/ s.logical # t.logical \/ s.node_id # t.node_id
  BY DEF Timestamp
<1>3. /\ s # t => (Less(s, t) <=> ~Less(t, s))
      /\ ~Less(s, s)
      /\ Less(s, t) /\ Less(t, u) => Less(s, u)
  BY <1>1, <1>2 DEF Less
<1> QED BY <1>3, CompareMeaning

LEMMA StampType ==
    ASSUME NEW n \in Nodes, NEW c \in Clock
    PROVE  /\ Stamp(n, c) \in Timestamp
           /\ Stamp(n, c).wall = c.wall /\ Stamp(n, c).logical = c.logical
           /\ Stamp(n, c).node_id = n
BY DEF Stamp, Timestamp, Clock

(* send moves the clock strictly forward, whatever the wall clock shows.   *)
LEMMA SendAdvances ==
    ASSUME NEW c \in Clock, NEW w \in Nat
    PROVE  /\ SendClock(c, w) \in Clock
           /\ \/ c.wall < SendClock(c, w).wall
              \/ c.wall = SendClock(c, w).wall /\ c.logical < SendClock(c, w).logical
BY DEF Clock, SendClock

(* recv moves the clock strictly past both the local and the remote time.  *)
LEMMA RecvAdvances ==
    ASSUME NEW c \in Clock, NEW w \in Nat, NEW m \in Timestamp
    PROVE  /\ RecvClock(c, m, w) \in Clock
           /\ \/ c.wall < RecvClock(c, m, w).wall
              \/ c.wall = RecvClock(c, m, w).wall /\ c.logical < RecvClock(c, m, w).logical
           /\ \/ m.wall < RecvClock(c, m, w).wall
              \/ m.wall = RecvClock(c, m, w).wall /\ m.logical < RecvClock(c, m, w).logical
<1>1. m.wall \in Nat /\ m.logical \in Nat
  BY FieldTypes
<1> QED BY <1>1 DEF Clock, RecvClock, Larger

-----------------------------------------------------------------------------
(* The inductive invariant: a node's clock is at or past everything it     *)
(* knows, and what it has stored is its own, known, and has a newest.      *)
Covered(n) == \A t \in known[n] : ~After(t, Now(n))
StoredKnown(n) == stored[n] \subseteq known[n] /\ \A t \in stored[n] : t.node_id = n
HasLatest(n) ==
    stored[n] # {} => \E s \in stored[n] : \A t \in stored[n] : ~After(t, s)
ClockInv == \A n \in Nodes : Covered(n) /\ StoredKnown(n) /\ HasLatest(n)

LEMMA IssueStep ==
    ASSUME TypeOK, ClockInv, NEW n \in Nodes, NEW c \in Clock, NEW S \in SUBSET Timestamp,
           Issue(n, c, S), UNCHANGED stored,
           \/ clock[n].wall < c.wall
           \/ clock[n].wall = c.wall /\ clock[n].logical < c.logical,
           \A m \in S : \/ m.wall < c.wall
                        \/ m.wall = c.wall /\ m.logical < c.logical
    PROVE  /\ clock' \in [Nodes -> Clock] /\ known' \in [Nodes -> SUBSET Timestamp]
           /\ event'.ts \in SUBSET Timestamp /\ event'.past \in SUBSET Timestamp
           /\ ClockInv' /\ HappensBefore'
<1> DEFINE ts == Stamp(n, c)
<1>1. /\ ts \in Timestamp /\ ts.wall = c.wall /\ ts.logical = c.logical /\ ts.node_id = n
  BY StampType
<1>2. /\ clock' = [clock EXCEPT ![n] = c]
      /\ known' = [known EXCEPT ![n] = known[n] \union S \union {ts}]
      /\ event'.ts = {ts} /\ event'.past = known[n] \union S
  BY DEF Issue
<1>3. /\ clock' \in [Nodes -> Clock] /\ known' \in [Nodes -> SUBSET Timestamp]
      /\ event'.ts \in SUBSET Timestamp /\ event'.past \in SUBSET Timestamp
  BY <1>1, <1>2 DEF TypeOK
<1>4. Now(n)' = ts
  BY <1>2 DEF Now, TypeOK
<1> HIDE DEF ts
<1>5. ASSUME NEW t \in known[n] \union S PROVE Less(t, ts)
  <2>1. CASE t \in S
    BY <1>1, <2>1 DEF Less
  <2>2. CASE t \in known[n]
    <3>1. t \in Timestamp /\ clock[n] \in Clock
      BY <2>2 DEF TypeOK
    <3>2. Now(n) \in Timestamp /\ Now(n).wall = clock[n].wall
          /\ Now(n).logical = clock[n].logical /\ Now(n).node_id = n
      BY <3>1, StampType DEF Now
    <3>3. ~Less(Now(n), t)
      BY <2>2, <3>1, <3>2, CompareMeaning DEF ClockInv, Covered
    <3>4. /\ t.wall \in Nat /\ t.logical \in Nat /\ t.node_id \in Nat
          /\ Now(n).wall \in Nat /\ Now(n).logical \in Nat /\ Now(n).node_id \in Nat
          /\ ts.wall \in Nat /\ ts.logical \in Nat
      BY <1>1, <3>1, <3>2, FieldTypes
    <3> QED BY <1>1, <3>2, <3>3, <3>4 DEF Less
  <2> QED BY <2>1, <2>2
<1>6. known[n] \union S \in SUBSET Timestamp
  BY DEF TypeOK
<1>7. \A t \in known[n] \union S : Before(t, ts)
  BY <1>1, <1>5, <1>6, CompareMeaning
<1>8. HappensBefore'
  BY <1>2, <1>7 DEF HappensBefore
<1>9. ASSUME NEW m \in Nodes PROVE Covered(m)' /\ StoredKnown(m)' /\ HasLatest(m)'
  <2>1. CASE m = n
    <3>1. \A t \in known[n] \union S : ~After(t, ts)
      BY <1>1, <1>6, <1>7, TimestampsTotallyOrdered
    <3>2. ~After(ts, ts)
      BY <1>1, TimestampsTotallyOrdered
    <3>3. known'[n] = known[n] \union S \union {ts}
      BY <1>2 DEF TypeOK
    <3> QED BY <1>4, <2>1, <3>1, <3>2, <3>3
            DEF ClockInv, Covered, StoredKnown, HasLatest
  <2>2. CASE m # n
    <3>1. known'[m] = known[m] /\ clock'[m] = clock[m]
      BY <1>2, <2>2 DEF TypeOK
    <3> QED BY <3>1 DEF ClockInv, Covered, StoredKnown, HasLatest, Now
  <2> QED BY <2>1, <2>2
<1> QED BY <1>3, <1>8, <1>9 DEF ClockInv

LEMMA PersistStep ==
    ASSUME TypeOK, ClockInv, NEW n \in Nodes, Persist(n)
    PROVE  stored' \in [Nodes -> SUBSET Timestamp] /\ ClockInv'
<1>1. Now(n) \in Timestamp /\ Now(n).node_id = n
  BY StampType DEF Now, TypeOK
<1>2. stored' \in [Nodes -> SUBSET Timestamp]
  BY <1>1 DEF Persist, TypeOK
<1>3. ASSUME NEW m \in Nodes PROVE Covered(m)' /\ StoredKnown(m)' /\ HasLatest(m)'
  <2>1. known' = known /\ clock' = clock
    BY DEF Persist
  <2>2. CASE m = n
    <3>1. stored'[n] = stored[n] \union {Now(n)}
      BY DEF Persist, TypeOK
    <3>2. \A t \in stored'[n] : ~After(t, Now(n))
      BY <3>1 DEF Persist, ClockInv, Covered, StoredKnown
    <3> QED BY <1>1, <2>1, <2>2, <3>1, <3>2
            DEF Persist, ClockInv, Covered, StoredKnown, HasLatest, Now
  <2>3. CASE m # n
    BY <2>1, <2>3 DEF Persist, ClockInv, Covered, StoredKnown, HasLatest, Now, TypeOK
  <2> QED BY <2>2, <2>3
<1> QED BY <1>2, <1>3 DEF ClockInv

LEMMA RestartStep ==
    ASSUME TypeOK, ClockInv, NEW n \in Nodes, Restart(n)
    PROVE  /\ clock' \in [Nodes -> Clock] /\ known' \in [Nodes -> SUBSET Timestamp]
           /\ ClockInv'
<1> DEFINE c == RestartClock(stored[n])
<1>1. c \in Clock /\ \A t \in stored[n] : ~After(t, Stamp(n, c))
  <2>1. CASE stored[n] = {}
    BY <2>1 DEF RestartClock, InitialClock, Clock
  <2>2. CASE stored[n] # {}
    <3> DEFINE s == Latest(stored[n])
    <3>1. s \in stored[n] /\ \A t \in stored[n] : ~After(t, s)
      BY <2>2 DEF ClockInv, HasLatest, Latest
    <3>2. s \in Timestamp /\ s.node_id = n
      BY <3>1 DEF ClockInv, StoredKnown, TypeOK
    <3>3. c = [wall |-> s.wall, logical |-> s.logical]
      BY <2>2 DEF RestartClock
    <3> HIDE DEF s
    <3>4. c \in Clock
      BY <3>2, <3>3, FieldTypes DEF Clock
    <3>5. Stamp(n, c) = s
      BY <3>2, <3>3 DEF Stamp, Timestamp
    <3> QED BY <3>1, <3>4, <3>5
  <2> QED BY <2>1, <2>2
<1> HIDE DEF c
<1>2. clock' = [clock EXCEPT ![n] = c] /\ known' = [known EXCEPT ![n] = stored[n]]
      /\ stored' = stored
  BY DEF Restart, c
<1>3. clock' \in [Nodes -> Clock] /\ known' \in [Nodes -> SUBSET Timestamp]
  BY <1>1, <1>2 DEF TypeOK
<1>4. ASSUME NEW m \in Nodes PROVE Covered(m)' /\ StoredKnown(m)' /\ HasLatest(m)'
  <2>1. CASE m = n
    <3>1. known'[n] = stored[n] /\ clock'[n] = c
      BY <1>2 DEF TypeOK
    <3> QED BY <1>1, <1>2, <2>1, <3>1 DEF ClockInv, Covered, StoredKnown, HasLatest, Now
  <2>2. CASE m # n
    <3>1. known'[m] = known[m] /\ clock'[m] = clock[m]
      BY <1>2, <2>2 DEF TypeOK
    <3> QED BY <1>2, <3>1 DEF ClockInv, Covered, StoredKnown, HasLatest, Now
  <2> QED BY <2>1, <2>2
<1> QED BY <1>3, <1>4 DEF ClockInv

LEMMA HlcStep ==
    TypeOK /\ ClockInv /\ HappensBefore /\ [Next]_vars
        => TypeOK' /\ ClockInv' /\ HappensBefore'
<1> SUFFICES ASSUME TypeOK, ClockInv, HappensBefore, [Next]_vars
             PROVE  TypeOK' /\ ClockInv' /\ HappensBefore'
  OBVIOUS
<1>1. CASE UNCHANGED vars
  BY <1>1 DEF vars, TypeOK, ClockInv, Covered, StoredKnown, HasLatest, Now, HappensBefore
<1>2. ASSUME NEW n \in Nodes, Send(n) PROVE TypeOK' /\ ClockInv' /\ HappensBefore'
  <2>1. PICK w \in 0..MaxWall : Issue(n, SendClock(clock[n], w), {})
    BY <1>2 DEF Send
  <2> DEFINE c == SendClock(clock[n], w)
  <2>2. clock[n] \in Clock /\ w \in Nat
    BY HlcAssumption DEF TypeOK
  <2>3. /\ c \in Clock
        /\ clock[n].wall < c.wall \/ (clock[n].wall = c.wall /\ clock[n].logical < c.logical)
    BY <2>2, SendAdvances
  <2>4. Issue(n, c, {}) /\ UNCHANGED stored
    BY <1>2, <2>1 DEF Send
  <2> HIDE DEF c
  <2>5. /\ clock' \in [Nodes -> Clock] /\ known' \in [Nodes -> SUBSET Timestamp]
        /\ event'.ts \in SUBSET Timestamp /\ event'.past \in SUBSET Timestamp
        /\ ClockInv' /\ HappensBefore'
    BY <2>3, <2>4, IssueStep
  <2>6. net' \in SUBSET Timestamp
    BY <1>2, <2>5, StampType DEF Send, TypeOK
  <2> QED BY <2>4, <2>5, <2>6 DEF TypeOK
<1>3. ASSUME NEW n \in Nodes, Recv(n) PROVE TypeOK' /\ ClockInv' /\ HappensBefore'
  <2>1. PICK m \in net, w \in 0..MaxWall : Issue(n, RecvClock(clock[n], m, w), {m})
    BY <1>3 DEF Recv
  <2> DEFINE c == RecvClock(clock[n], m, w)
  <2>2. clock[n] \in Clock /\ w \in Nat /\ m \in Timestamp
    BY HlcAssumption DEF TypeOK
  <2>3. /\ c \in Clock
        /\ clock[n].wall < c.wall \/ (clock[n].wall = c.wall /\ clock[n].logical < c.logical)
        /\ m.wall < c.wall \/ (m.wall = c.wall /\ m.logical < c.logical)
    BY <2>2, RecvAdvances
  <2>4. Issue(n, c, {m}) /\ UNCHANGED <<stored, net>>
    BY <1>3, <2>1 DEF Recv
  <2> HIDE DEF c
  <2>5. /\ clock' \in [Nodes -> Clock] /\ known' \in [Nodes -> SUBSET Timestamp]
        /\ event'.ts \in SUBSET Timestamp /\ event'.past \in SUBSET Timestamp
        /\ ClockInv' /\ HappensBefore'
    BY <2>2, <2>3, <2>4, IssueStep
  <2> QED BY <2>4, <2>5 DEF TypeOK
<1>4. ASSUME NEW n \in Nodes, Persist(n) PROVE TypeOK' /\ ClockInv' /\ HappensBefore'
  <2>1. UNCHANGED <<clock, known, net, event>>
    BY <1>4 DEF Persist
  <2> QED BY <1>4, <2>1, PersistStep DEF TypeOK, HappensBefore
<1>5. ASSUME NEW n \in Nodes, Restart(n) PROVE TypeOK' /\ ClockInv' /\ HappensBefore'
  <2>1. UNCHANGED <<stored, net, event>>
    BY <1>5 DEF Restart
  <2> QED BY <1>5, <2>1, RestartStep DEF TypeOK, HappensBefore
<1> QED BY <1>1, <1>2, <1>3, <1>4, <1>5 DEF Next

(***************************************************************************)
(* Every stamp a node issues is after everything in its causal past, and   *)
(* no restart takes the clock below a persisted fact: for all node ids and *)
(* for wall clocks that stop, jump or run backwards.                       *)
(***************************************************************************)
THEOREM HlcCorrect == Spec => [](TypeOK /\ HappensBefore /\ ClockCoversStore)
<1>1. Init => TypeOK /\ ClockInv /\ HappensBefore
  BY DEF Init, TypeOK, ClockInv, Covered, StoredKnown, HasLatest, HappensBefore,
         InitialClock, Clock
<1>2. ClockInv => ClockCoversStore
  BY DEF ClockInv, Covered, StoredKnown, ClockCoversStore
<1> QED BY <1>1, <1>2, HlcStep, PTL DEF Spec

(* The clock a node runs with covers every fact it has stored, also after  *)
(* a restart that reads it back (hlc.zig, storage.zig).                    *)
THEOREM HlcClockCoversStore == Spec => []ClockCoversStore
BY HlcCorrect, PTL
=============================================================================
