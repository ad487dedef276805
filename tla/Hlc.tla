-------------------------------- MODULE Hlc --------------------------------
(***************************************************************************)
(* The hybrid logical clock (src/src/primitives/hlc.zig) of a set of       *)
(* nodes, with the way the engine restarts it: a session starts its clock  *)
(* from the newest persisted timestamp (engine/events.zig:141-142,         *)
(* wal.zig latestTimestamp).                                               *)
(*                                                                         *)
(* The wall clock is read afresh by every operation and may stand still,   *)
(* jump or run backwards.  A logical counter at its maximum has no         *)
(* successor and no stamp is issued: in a build with safety checks the     *)
(* addition (hlc.zig:84) stops the process.  A build without them may      *)
(* wrap, which is not modelled.                                            *)
(***************************************************************************)
EXTENDS Naturals, FiniteSets

CONSTANTS
    Nodes,       \* node ids
    MaxWall,     \* bound: wall clock readings, 2^64 - 1 in the code
    MaxLogical   \* 2^32 - 1 in the code

ASSUME HlcAssumption ==
    /\ Nodes \subseteq Nat
    /\ MaxWall \in Nat
    /\ MaxLogical \in Nat

VARIABLES
    clock,    \* wall and logical of every node's clock
    known,    \* history: stamps in the causal past of every node
    stored,   \* stamps of the facts every node has persisted
    net,      \* stamps sent to other nodes; a message is never consumed, so
              \* it may be lost, delayed, reordered or delivered again
    event     \* history: the last stamp issued and what was known then

vars == <<clock, known, stored, net, event>>

-----------------------------------------------------------------------------
Clock == [wall : Nat, logical : Nat]
Timestamp == [wall : Nat, logical : Nat, node_id : Nodes]

Order(a, b) == IF a > b THEN "gt" ELSE IF a < b THEN "lt" ELSE "eq"

(* Timestamp.compare: wall, then logical, then node id.                    *)
Compare(s, t) ==
    IF s.wall # t.wall THEN Order(s.wall, t.wall)
    ELSE IF s.logical # t.logical THEN Order(s.logical, t.logical)
    ELSE Order(s.node_id, t.node_id)

After(s, t) == Compare(s, t) = "gt"
Before(s, t) == Compare(s, t) = "lt"

Larger(a, b) == IF a >= b THEN a ELSE b
Stamp(n, c) == [wall |-> c.wall, logical |-> c.logical, node_id |-> n]

(* Hlc.now *)
Now(n) == Stamp(n, clock[n])

(* Hlc.init *)
InitialClock == [wall |-> 0, logical |-> 0]

(* Variant: an unchanged wall clock resets the logical counter.            *)
SendClock_Resets(c, wall_now) ==
    IF wall_now >= c.wall THEN [wall |-> wall_now, logical |-> 0]
                          ELSE [c EXCEPT !.logical = @ + 1]

(* Hlc.send_with_wall *)
SendClock(c, wall_now) ==
    IF wall_now > c.wall THEN [wall |-> wall_now, logical |-> 0]
                         ELSE [c EXCEPT !.logical = @ + 1]

(* Hlc.recv *)
RecvClock(c, remote, wall_now) ==
    LET max_wall == Larger(wall_now, Larger(c.wall, remote.wall)) IN
    [wall    |-> max_wall,
     logical |-> IF max_wall = c.wall /\ max_wall = remote.wall
                 THEN Larger(c.logical, remote.logical) + 1
                 ELSE IF max_wall = c.wall THEN c.logical + 1
                 ELSE IF max_wall = remote.wall THEN remote.logical + 1
                 ELSE 0]

(* The newest of a set of stamps: latestTimestamp keeps a stamp unless     *)
(* another one is after it.                                                *)
Latest(S) == CHOOSE s \in S : \A t \in S : ~After(t, s)

(* Variant: every session starts with a new clock.                         *)
RestartClock_Fresh(S) == InitialClock

(* Hlc.fromTimestamp, or Hlc.init when nothing was persisted.              *)
RestartClock(S) ==
    IF S = {} THEN InitialClock
              ELSE [wall |-> Latest(S).wall, logical |-> Latest(S).logical]

-----------------------------------------------------------------------------
Init ==
    /\ clock = [n \in Nodes |-> InitialClock]
    /\ known = [n \in Nodes |-> {}]
    /\ stored = [n \in Nodes |-> {}]
    /\ net = {}
    /\ event = [ts |-> {}, past |-> {}]

(* The node adopts clock c and issues its stamp, knowing what S adds.      *)
Issue(n, c, S) ==
    LET ts == Stamp(n, c) IN
    /\ c.logical <= MaxLogical
    /\ clock' = [clock EXCEPT ![n] = c]
    /\ known' = [known EXCEPT ![n] = @ \union S \union {ts}]
    /\ event' = [ts |-> {ts}, past |-> known[n] \union S]

(* A stamp for a mutation or for slung_now, possibly sent to other nodes.  *)
Send(n) ==
    /\ \E wall_now \in 0..MaxWall : Issue(n, SendClock(clock[n], wall_now), {})
    /\ net' = net \/ net' = net \union {Stamp(n, clock'[n])}
    /\ UNCHANGED stored

Recv(n) ==
    /\ \E remote \in net, wall_now \in 0..MaxWall :
           Issue(n, RecvClock(clock[n], remote, wall_now), {remote})
    /\ UNCHANGED <<stored, net>>

(* The fact stamped with the node's current time reaches the journal.      *)
Persist(n) ==
    /\ Now(n) \in known[n]
    /\ stored' = [stored EXCEPT ![n] = @ \union {Now(n)}]
    /\ UNCHANGED <<clock, known, net, event>>

(* A new session on the same journal: only what was persisted is known.    *)
Restart(n) ==
    /\ clock' = [clock EXCEPT ![n] = RestartClock(stored[n])]
    /\ known' = [known EXCEPT ![n] = stored[n]]
    /\ UNCHANGED <<stored, net, event>>

Next == \E n \in Nodes : Send(n) \/ Recv(n) \/ Persist(n) \/ Restart(n)

Spec == Init /\ [][Next]_vars

-----------------------------------------------------------------------------
(* Type invariant.                                                         *)
TypeOK ==
    /\ clock \in [Nodes -> Clock]
    /\ known \in [Nodes -> SUBSET Timestamp]
    /\ stored \in [Nodes -> SUBSET Timestamp]
    /\ net \in SUBSET Timestamp
    /\ event.ts \in SUBSET Timestamp /\ event.past \in SUBSET Timestamp

(***************************************************************************)
(* "all subsequent local events are causally after it" (hlc.zig:95-96) and *)
(* "Monotonically increasing on a single node" (hlc.zig:5): the stamp a    *)
(* node issues is after every stamp in its causal past: the ones it issued *)
(* in this session, the ones it received, and the ones it persisted in     *)
(* earlier sessions, whatever the wall clock does.                         *)
(***************************************************************************)
HappensBefore == \A ts \in event.ts : \A t \in event.past : Before(t, ts)

(***************************************************************************)
(* LWW depends on it (wal.zig:706, lww.zig:95): a new local write is never *)
(* rejected as stale, because the clock is at or past every fact the node  *)
(* has stored, also right after a restart with the wall clock set back.    *)
(***************************************************************************)
ClockCoversStore == \A n \in Nodes : \A t \in stored[n] : ~After(t, Now(n))
=============================================================================
