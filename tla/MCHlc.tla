------------------------------- MODULE MCHlc -------------------------------
(* Model-checking instance of the clock.                                   *)
EXTENDS Hlc

(* Bound: the nodes together issue and keep at most this many stamps.      *)
CONSTANT MaxKnown

Bounded ==
    /\ \A n \in Nodes : Cardinality(known[n]) <= MaxKnown
    /\ Cardinality(net) <= 2
=============================================================================
