----------------------------- MODULE DurableLog -----------------------------
(***************************************************************************)
(* What the callers of slung's storage may rely on, with no writer thread, *)
(* commit groups, rollbacks or recovery in it: a log of records that grows *)
(* at its end, a durable part that never shrinks, and reports that speak   *)
(* only of durable records.  Failures and crashes take records away from   *)
(* the end, and never durable ones.                                        *)
(***************************************************************************)
EXTENDS Naturals, Sequences

VARIABLES
    log,       \* the accepted records, in order
    durable,   \* length of the prefix that nothing can take away
    reported   \* records the callers know to be durable

vars == <<log, durable, reported>>

DurableRecords == {log[i] : i \in 1..durable}

Init == log = <<>> /\ durable = 0 /\ reported = {}

Accept ==
    /\ Len(log') = Len(log) + 1
    /\ SubSeq(log', 1, Len(log)) = log
    /\ UNCHANGED <<durable, reported>>

Sync ==
    /\ durable' \in durable..Len(log)
    /\ UNCHANGED <<log, reported>>

Report ==
    /\ reported \subseteq reported'
    /\ reported' \subseteq reported \union DurableRecords
    /\ UNCHANGED <<log, durable>>

Lose ==
    /\ \E n \in durable..Len(log) :
           log' = SubSeq(log, 1, n) /\ durable' \in durable..n
    /\ UNCHANGED reported

Next == Accept \/ Sync \/ Report \/ Lose

Spec == Init /\ [][Next]_vars
=============================================================================
