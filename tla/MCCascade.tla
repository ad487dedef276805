----------------------------- MODULE MCCascade -----------------------------
(* Model-checking instances of a session: both rules watch a and one of    *)
(* them watches b, so cascades can be short, can fan out and can go round. *)
EXTENDS CascadeProperties

CONSTANTS a, b, r1, r2

MCEntityOf == [k \in {a, b} |-> 1]
MCWatchers == (a :> <<r1, r2>>) @@ (b :> <<r2>>)
MCPriority == (r1 :> 1) @@ (r2 :> 2)
=============================================================================
