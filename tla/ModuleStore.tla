---------------------------- MODULE ModuleStore ----------------------------
(***************************************************************************)
(* The key/value store that modules own: set and delete of src/storage.zig *)
(* behind the slung_store_* calls of src/wasm/host_abi/store.zig.          *)
(*                                                                         *)
(* Every session of the host uses the one SQLite connection, opened in     *)
(* SQLite's serialized mode: one statement runs at a time, but the three   *)
(* statements of one call (BEGIN IMMEDIATE, the change, COMMIT) interleave *)
(* with those of sessions on other executors, and the connection has one   *)
(* transaction.  SQLite itself is modelled by what the code relies on: the *)
(* rows on disk, the rows the connection sees, and whether a transaction   *)
(* is open.  get reads the rows the connection sees and changes nothing.   *)
(* A ROLLBACK is taken to work.                                            *)
(***************************************************************************)
EXTENDS Naturals, FiniteSets

CONSTANTS
    Namespaces,     \* one running session each
    ModuleNames,    \* names modules are deployed under
    Keys,           \* of the module's own choice
    Values,
    MaxCalls        \* bound: slung_store_set and _delete calls

NoValue == "NoValue"

ASSUME ModuleStoreAssumption == MaxCalls \in Nat /\ NoValue \notin Values

VARIABLES
    db,        \* module_kv as committed: row key -> value
    view,      \* module_kv as the connection sees it
    open,      \* the connection is inside a transaction
    changes,   \* sqlite3_changes
    call,      \* control state of every session's call
    calls,     \* history: calls so far
    allowed    \* history: the values the answers so far leave possible

storeVars == <<db, view, open, changes, call, calls, allowed>>

Scopes == Namespaces \X ModuleNames
NoCall == [pc |-> "idle"]

(* Variant: the module's name is not part of the row.                      *)
Slot_NoModule(scope, key) == <<scope[1], key>>

(* The primary key of a row.                                               *)
Slot(scope, key) == <<scope[1], scope[2], key>>

(* Rows of a table.                                                        *)
Lookup(table, slot) == IF slot \in DOMAIN table THEN table[slot] ELSE NoValue

(* A row is written, over the one of its key if there is one.              *)
Upsert(table, slot, value) ==
    [s \in DOMAIN table \union {slot} |-> IF s = slot THEN value ELSE table[s]]

(* Variant: a deleted row is emptied and stays.                            *)
Changed_KeepsRow(table, slot, value) == Upsert(table, slot, value)

(* The statement of set, or of delete where value is NoValue.              *)
Changed(table, slot, value) ==
    IF value = NoValue THEN [s \in DOMAIN table \ {slot} |-> table[s]]
                       ELSE Upsert(table, slot, value)

StoreInit ==
    /\ db = <<>> /\ view = <<>> /\ open = FALSE /\ changes = 0
    /\ call = [n \in Namespaces |-> NoCall]
    /\ calls = 0
    /\ allowed = [s \in Scopes \X Keys |-> {NoValue}]

-----------------------------------------------------------------------------
(* set, or delete where value is NoValue: BEGIN IMMEDIATE.                 *)
StoreBegin(n, scope, key, value) ==
    /\ call[n].pc = "idle" /\ calls < MaxCalls
    /\ ~open
    /\ open' = TRUE
    /\ call' = [call EXCEPT ![n] = [pc |-> "change", scope |-> scope, key |-> key,
                                    value |-> value, before |-> allowed[<<scope, key>>]]]
    /\ calls' = calls + 1
    /\ allowed' = [allowed EXCEPT ![<<scope, key>>] = @ \union {value}]
    /\ UNCHANGED <<db, view, changes>>

(* Variant: the rollback is armed before the transaction is.               *)
StoreBeginFails_RollsBack(n) ==
    /\ call[n].pc = "idle" /\ calls < MaxCalls
    /\ calls' = calls + 1
    /\ view' = db /\ open' = FALSE
    /\ UNCHANGED <<db, changes, call, allowed>>

(* BEGIN fails, always inside another call's transaction: the call answers *)
(* 2 and leaves that transaction alone.                                    *)
StoreBeginFails(n) ==
    /\ call[n].pc = "idle" /\ calls < MaxCalls
    /\ calls' = calls + 1
    /\ UNCHANGED <<db, view, open, changes, call, allowed>>

(* INSERT ... ON CONFLICT DO UPDATE, or DELETE.  Outside a transaction a   *)
(* statement commits by itself.                                            *)
StoreChange(n) ==
    /\ call[n].pc = "change"
    /\ LET slot == Slot(call[n].scope, call[n].key)
       IN  /\ view' = Changed(view, slot, call[n].value)
           /\ changes' = IF call[n].value = NoValue /\ slot \notin DOMAIN view THEN 0 ELSE 1
    /\ db' = IF open THEN db ELSE view'
    /\ call' = [call EXCEPT ![n].pc = "commit"]
    /\ UNCHANGED <<open, calls, allowed>>

(* The values an answer leaves possible: a delete that found a row (0) or  *)
(* none (1) also speaks of what was there before.                          *)
Answered(c, deleted) ==
    IF c.value # NoValue THEN {c.value}
    ELSE {v \in {NoValue} : \E old \in c.before : deleted <=> old # NoValue}

(* COMMIT.                                                                 *)
StoreCommit(n) ==
    /\ call[n].pc = "commit" /\ open
    /\ db' = view
    /\ open' = FALSE
    /\ allowed' = [allowed EXCEPT ![<<call[n].scope, call[n].key>>] =
                                      Answered(call[n], changes # 0)]
    /\ call' = [call EXCEPT ![n] = NoCall]
    /\ UNCHANGED <<view, changes, calls>>

(* Variant: an error leaves the transaction open.                          *)
StoreFails_NoRollback(n) ==
    /\ call[n].pc \in {"change", "commit"}
    /\ allowed' = [allowed EXCEPT ![<<call[n].scope, call[n].key>>] = call[n].before]
    /\ call' = [call EXCEPT ![n] = NoCall]
    /\ UNCHANGED <<db, view, open, changes, calls>>

(* The change or the COMMIT fails: ROLLBACK, and the call answers 2.       *)
StoreFails(n) ==
    /\ call[n].pc \in {"change", "commit"}
    /\ IF open THEN view' = db /\ open' = FALSE ELSE UNCHANGED <<view, open>>
    /\ allowed' = [allowed EXCEPT ![<<call[n].scope, call[n].key>>] = call[n].before]
    /\ call' = [call EXCEPT ![n] = NoCall]
    /\ UNCHANGED <<db, changes, calls>>

(* The process ends; what was committed is on disk (synchronous = FULL).   *)
StoreRestart ==
    /\ view' = db /\ open' = FALSE /\ changes' = 0
    /\ call' = [n \in Namespaces |-> NoCall]
    /\ UNCHANGED <<db, calls, allowed>>

StoreStep(n) == StoreChange(n) \/ StoreCommit(n) \/ StoreFails(n)

-----------------------------------------------------------------------------
StoreTypeOK ==
    /\ open \in BOOLEAN /\ changes \in {0, 1} /\ calls \in 0..MaxCalls
    /\ \A table \in {db, view} : \A s \in DOMAIN table : table[s] \in Values
    /\ \A n \in Namespaces : call[n].pc \in {"idle", "change", "commit"}
    /\ allowed \in [Scopes \X Keys -> SUBSET (Values \union {NoValue})]

(* What a module was told about its store holds, on disk and for the next  *)
(* read: a set or delete that answered 0 or 1 took effect, one that        *)
(* answered 2 did not, a delete told the truth about the row it looked     *)
(* for, and neither other namespaces, nor other modules, nor calls that    *)
(* collide on the shared connection, nor a restart in the middle of a call *)
(* change that (storage.zig set and delete, store.zig).                    *)
AnswersHold ==
    \A scope \in Scopes, key \in Keys :
        \A table \in {db, view} : Lookup(table, Slot(scope, key)) \in allowed[<<scope, key>>]

(* The shared connection is inside a transaction exactly while one call    *)
(* is: provided ROLLBACK itself works, no error path of set or delete      *)
(* leaves it open, which would make every later BEGIN of every module      *)
(* fail, and no call ends the transaction of another (the errdefer of set  *)
(* and delete, storage.zig:191 and 218, which ignore ROLLBACK's error).    *)
NoAbandonedTransaction ==
    LET active == {n \in Namespaces : call[n].pc # "idle"}
    IN  Cardinality(active) = (IF open THEN 1 ELSE 0)
=============================================================================
