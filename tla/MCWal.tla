------------------------------- MODULE MCWal -------------------------------
(* Model-checking instances of the write-ahead log.                        *)
EXTENDS WalRefinement

(* Clients and keys are interchangeable: no action or property orders them *)
(* or singles one out.                                                     *)
Symmetry == Permutations(Clients) \union Permutations(Keys)
=============================================================================
