---------------------------- MODULE MCNamespace ----------------------------
(* Instances of Namespace for TLC.                                         *)
EXTENDS NamespaceProperties, TLC

CONSTANTS n1, n2

SourceA == [name |-> "A", components |-> <<"x">>]
SourceB == [name |-> "B", components |-> <<"y", "z">>]

(* Watches a source that does not exist, then one that does.               *)
RuleLow  == [name |-> "Low", watch |-> << <<"Z", "q">>, <<"A", "x">> >>, priority |-> 1]
RuleHigh == [name |-> "High", watch |-> << <<"A", "x">> >>, priority |-> 2]
RuleNew  == [name |-> "New", watch |-> << <<"A", "x">>, <<"B", "z">> >>, priority |-> 2]

First  == [name |-> "app", sources |-> <<SourceA>>, rules |-> <<RuleLow, RuleHigh>>]
Second == [name |-> "app2", sources |-> <<SourceA, SourceB>>, rules |-> <<RuleNew>>]
Tenant == [name |-> "app", sources |-> <<SourceA>>, rules |-> <<RuleLow>>]

(* A version that only adds a source after the ones there were, next to a  *)
(* namespace with one module of the same name.                             *)
Appending == n1 :> {First, Second} @@ n2 :> {Tenant}

(* These versions are as the theorems ask for.                             *)
ASSUME AppendingServes == \A n \in DOMAIN Appending : VersionsServe(Appending[n])

(* A version that declares the new source first.                           *)
Reordered == n1 :> {First, [Second EXCEPT !.sources = <<SourceB, SourceA>>]}
=============================================================================
