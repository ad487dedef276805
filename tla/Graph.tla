------------------------------- MODULE Graph -------------------------------
(***************************************************************************)
(* The capability graph of a module: how wire() reads the descriptors a    *)
(* module exports (src/src/wasm/wire.zig) and GraphBuilder turns them into *)
(* the two indices the inference loop looks things up in                   *)
(* (src/src/wasm/module.zig, src/src/wasm/index.zig).                      *)
(*                                                                         *)
(* A module descriptor is a record                                         *)
(*   [name    |-> the module's name,                                       *)
(*    sources |-> sequence of [name, components], components a sequence of *)
(*                names, in export order,                                  *)
(*    rules   |-> sequence of [name, watch, priority], watch a sequence of *)
(*                <<source, component>> names, in export order]            *)
(* An id is a number from 0, a forward key a pair <<entity, component>>.   *)
(* A mapper export is named after its source and component, so the pair of *)
(* names stands for it.  Component types and connector configurations are  *)
(* left out: the indices do not depend on them.                            *)
(***************************************************************************)
EXTENDS Integers, Sequences, SequencesExt, FiniteSets

(* What a module exports is a descriptor in this sense (the extractors of  *)
(* wire.zig read slices into records).                                     *)
IsSeq(s) == s \in Seq(ToSet(s))
IsDescriptor(m) ==
    /\ IsSeq(m.sources) /\ IsSeq(m.rules)
    /\ \A i \in DOMAIN m.sources : IsSeq(m.sources[i].components)
    /\ \A i \in DOMAIN m.rules :
         /\ IsSeq(m.rules[i].watch)
         /\ \A w \in ToSet(m.rules[i].watch) : w = <<w[1], w[2]>>
         /\ m.rules[i].priority \in Int

(* GraphBuilder.init *)
NewBuilder ==
    [sources |-> <<>>, components |-> <<>>, rules |-> <<>>,
     next_entity_id |-> 0, next_component_id |-> 0]

Names(components) == ToSet(components)

(* A hash map after the entries of another are put into it.                *)
Put(table, entries) ==
    [x \in DOMAIN table \union DOMAIN entries |->
        IF x \in DOMAIN entries THEN entries[x] ELSE table[x]]

(* Phase 1.  A source takes the next entity id and each of its components  *)
(* the next component id.  A name that is met again replaces the earlier   *)
(* entry; its components stay.                                             *)
RegisterSource(b, desc) ==
    LET entity == b.next_entity_id
        Id(i) == b.next_component_id + i - 1
        last(name) == SelectLastInSeq(desc.components, LAMBDA x : x = name)
        ids == [name \in Names(desc.components) |-> Id(last(name))]
        keys == {<<entity, Id(i)>> : i \in DOMAIN desc.components}
        mapper == [key \in keys |->
                      <<desc.name, desc.components[key[2] - b.next_component_id + 1]>>]
        source == [name \in {desc.name} |-> [entity |-> entity, components |-> ids]]
    IN  [b EXCEPT !.sources = Put(@, source), !.components = Put(@, mapper),
                  !.next_entity_id = entity + 1,
                  !.next_component_id = @ + Len(desc.components)]

(* "<Source>::<component>" to a forward key.                               *)
Resolvable(b, w) ==
    w[1] \in DOMAIN b.sources /\ w[2] \in DOMAIN b.sources[w[1]].components
Resolve(b, w) == <<b.sources[w[1]].entity, b.sources[w[1]].components[w[2]]>>

WatchList(b, watch) ==
    FlattenSeq([i \in DOMAIN watch |->
        IF Resolvable(b, watch[i]) THEN <<Resolve(b, watch[i])>> ELSE <<>>])

(* Variant: an unknown watch ends the list.                                *)
RegisterRule_StopsAtUnknown(b, desc) ==
    LET unknown == SelectInSeq(desc.watch, LAMBDA w : ~Resolvable(b, w))
        known == IF unknown = 0 THEN desc.watch ELSE SubSeq(desc.watch, 1, unknown - 1)
    IN  [b EXCEPT !.rules = Append(@, [desc |-> desc, watch_list |-> WatchList(b, known)])]

(* Phase 3.  A rule takes the next rule id, its place in the list.  A      *)
(* watch that names nothing is dropped.                                    *)
RegisterRule(b, desc) ==
    [b EXCEPT !.rules = Append(@, [desc |-> desc, watch_list |-> WatchList(b, desc.watch)])]

RuleIds(b) == 0..(Len(b.rules) - 1)
Rule(b, id) == b.rules[id + 1]

(* The source an entity id belongs to, "" if its name was taken over.      *)
SourceOf(b, entity) ==
    LET owners == {s \in DOMAIN b.sources : b.sources[s].entity = entity}
    IN  IF owners = {} THEN "" ELSE CHOOSE s \in owners : TRUE

(* The hash map hands the rules out in some order; every occurrence of a   *)
(* key in a watch list makes one entry.                                    *)
Hits(b, key, id) ==
    LET list == Rule(b, id).watch_list
    IN  FlattenSeq([j \in DOMAIN list |-> IF list[j] = key THEN <<id>> ELSE <<>>])
WatchersOf(b, key, order) == FlattenSeq([i \in DOMAIN order |-> Hits(b, key, order[i])])

Build(b, order) ==
    [reverse |-> [id \in RuleIds(b) |->
                     [watch |-> Rule(b, id).watch_list,
                      priority |-> Rule(b, id).desc.priority,
                      entrypoint |-> Rule(b, id).desc.name]],
     forward |-> [key \in DOMAIN b.components |->
                     [watchers |-> WatchersOf(b, key, order),
                      source |-> SourceOf(b, key[1]),
                      mapper |-> b.components[key]]]]

(* Variant: the sources are met in another order than they are exported.   *)
Registered_Reversed(m) ==
    FoldLeft(RegisterRule, FoldLeft(RegisterSource, NewBuilder, Reverse(m.sources)), m.rules)

(* fetchSourceDescriptors and then fetchRuleDescriptors.                   *)
Registered(m) ==
    FoldLeft(RegisterRule, FoldLeft(RegisterSource, NewBuilder, m.sources), m.rules)

(* wire: the graphs a module can be given, one for each order of its rules.*)
Graphs(m) ==
    LET b == Registered(m) IN {Build(b, order) : order \in SetToSeqs(RuleIds(b))}

NoGraph == [forward |-> <<>>, reverse |-> <<>>]

(* The loop's candidates of a dirty key, none for a key the graph does not *)
(* have.  They are sorted by descending priority, equal ones staying in    *)
(* the order of the index: NextCandidate is the place of the first.        *)
Candidates(g, key) ==
    IF key \in DOMAIN g.forward THEN g.forward[key].watchers ELSE <<>>
NextCandidate(g, todo) ==
    CHOOSE i \in DOMAIN todo : \A j \in DOMAIN todo :
        LET here == g.reverse[todo[i]].priority
            there == g.reverse[todo[j]].priority
        IN  here > there \/ (here = there /\ i <= j)

(* The keys ingestSourceData finds for a source.                           *)
KeysOf(g, source) == {key \in DOMAIN g.forward : g.forward[key].source = source}
=============================================================================
