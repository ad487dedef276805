-------------------------- MODULE NamespaceProofs --------------------------
(***************************************************************************)
(* Theorems about the namespaces of a host and the store their modules     *)
(* share, for every set of namespaces, modules, keys and values and every  *)
(* bound.                                                                  *)
(***************************************************************************)
EXTENDS NamespaceProperties, FiniteSetTheorems, SequenceLemmas

Cells == Values \union {NoValue}

(* A call that has begun its transaction.                                  *)
ActiveCall == [pc : {"change", "commit"}, scope : Scopes, key : Keys, value : Cells,
               before : SUBSET Cells]
Active(n) == call[n].pc # "idle"
Row(c) == Slot(c.scope, c.key)

-----------------------------------------------------------------------------
(* The inductive invariant of the store, in four parts.                    *)

CallsTyped == call \in [Namespaces -> ActiveCall \union {NoCall}]

(* The transaction belongs to one call.                                    *)
TransactionOwned ==
    /\ \A n, m \in Namespaces : Active(n) /\ Active(m) => n = m
    /\ open <=> \E n \in Namespaces : Active(n)

(* What the connection sees differs from what is committed by the change   *)
(* of the open call.                                                       *)
ViewExplained ==
    /\ ~open => view = db
    /\ \A n \in Namespaces :
         /\ call[n].pc = "change" => view = db
         /\ call[n].pc = "commit" =>
              /\ view = Changed(db, Row(call[n]), call[n].value)
              /\ changes # 0 <=> call[n].value # NoValue \/ Row(call[n]) \in DOMAIN db

(* An answer that is still owed leaves the old values and the new one      *)
(* possible, and what is committed is an old one.                          *)
AnswerOwed ==
    \A n \in Namespaces : Active(n) =>
        /\ allowed[<<call[n].scope, call[n].key>>] = call[n].before \union {call[n].value}
        /\ Lookup(db, Row(call[n])) \in call[n].before

(* What is committed agrees with the answers.                              *)
CommittedHolds ==
    \A scope \in Scopes, key \in Keys :
        Lookup(db, Slot(scope, key)) \in allowed[<<scope, key>>]

StoreInv ==
    /\ StoreTypeOK /\ CallsTyped
    /\ TransactionOwned /\ ViewExplained /\ AnswerOwed /\ CommittedHolds

(* A session that may run rules has one of its namespace's modules.        *)
ModulesNamed ==
    /\ DOMAIN module = Namespaces /\ DOMAIN session = Namespaces
    /\ DOMAIN run = Namespaces
    /\ \A n \in Namespaces :
         session[n] = "running" \/ run[n].pc # "idle" => module[n] \in Modules[n]

-----------------------------------------------------------------------------
(* The operators on rows.                                                  *)

LEMMA ChangedLookup ==
    ASSUME NEW table, NEW slot, NEW value, NEW s
    PROVE  Lookup(Changed(table, slot, value), s) = IF s = slot THEN value ELSE Lookup(table, s)
<1>1. CASE value = NoValue
  BY <1>1 DEF Changed, Lookup
<1>2. CASE value # NoValue
  BY <1>2 DEF Changed, Lookup, Upsert
<1> QED BY <1>1, <1>2

LEMMA ChangedType ==
    ASSUME NEW table, \A s \in DOMAIN table : table[s] \in Values,
           NEW slot, NEW value \in Cells
    PROVE  \A s \in DOMAIN Changed(table, slot, value) :
               Changed(table, slot, value)[s] \in Values
<1>1. CASE value = NoValue
  BY <1>1 DEF Changed
<1>2. CASE value # NoValue
  BY <1>2 DEF Changed, Upsert, Cells
<1> QED BY <1>1, <1>2

(* Two modules, or two keys, never share a row.                            *)
LEMMA SlotInjective ==
    ASSUME NEW s \in Scopes, NEW t \in Scopes, NEW k, NEW l, Slot(s, k) = Slot(t, l)
    PROVE  s = t /\ k = l
<1>1. s[1] = t[1] /\ s[2] = t[2] /\ k = l
  BY DEF Slot
<1> QED BY <1>1 DEF Scopes

(* A row is there exactly if its value is one.                             *)
LEMMA LookupValue ==
    ASSUME NEW table, \A s \in DOMAIN table : table[s] \in Values, NEW slot
    PROVE  /\ slot \in DOMAIN table <=> Lookup(table, slot) # NoValue
           /\ Lookup(table, slot) \in Cells
BY ModuleStoreAssumption DEF Lookup, Cells

(* The fields of a call in progress.                                       *)
LEMMA CallFields ==
    ASSUME CallsTyped, NEW n \in Namespaces, Active(n)
    PROVE  /\ call[n] \in ActiveCall
           /\ call[n].pc \in {"change", "commit"}
           /\ call[n].scope \in Scopes /\ call[n].key \in Keys
           /\ call[n].value \in Cells /\ call[n].before \in SUBSET Cells
           /\ <<call[n].scope, call[n].key>> \in Scopes \X Keys
<1>1. call[n] \in ActiveCall
  BY DEF CallsTyped, NoCall, Active
<1> QED BY <1>1 DEF ActiveCall

-----------------------------------------------------------------------------
LEMMA StoreInitInv == StoreInit => StoreInv
<1> SUFFICES ASSUME StoreInit PROVE StoreInv
  OBVIOUS
<1> USE ModuleStoreAssumption DEF StoreInit
<1>1. StoreTypeOK
  <2>1. \A table \in {db, view} : \A s \in DOMAIN table : table[s] \in Values
    OBVIOUS
  <2>2. \A n \in Namespaces : call[n].pc \in {"idle", "change", "commit"}
    BY DEF NoCall
  <2>3. allowed \in [Scopes \X Keys -> SUBSET (Values \union {NoValue})]
    OBVIOUS
  <2>4. changes \in {0, 1} /\ calls \in 0..MaxCalls
    OBVIOUS
  <2>5. open \in BOOLEAN
    OBVIOUS
  <2> QED BY <2>1, <2>2, <2>3, <2>4, <2>5 DEF StoreTypeOK
<1>2. CallsTyped
  BY DEF CallsTyped
<1>3. TransactionOwned /\ ViewExplained /\ AnswerOwed
  BY DEF TransactionOwned, ViewExplained, AnswerOwed, Active, NoCall
<1>4. CommittedHolds
  <2>1. \A slot : Lookup(db, slot) = NoValue
    BY DEF Lookup
  <2>2. \A scope \in Scopes, key \in Keys : allowed[<<scope, key>>] = {NoValue}
    OBVIOUS
  <2> QED BY <2>1, <2>2 DEF CommittedHolds
<1> QED BY <1>1, <1>2, <1>3, <1>4 DEF StoreInv

LEMMA StoreBeginInv ==
    ASSUME StoreInv, NEW n \in Namespaces, NEW scope \in Scopes, NEW key \in Keys,
           NEW value \in Cells, StoreBegin(n, scope, key, value)
    PROVE  StoreInv'
<1> DEFINE c == [pc |-> "change", scope |-> scope, key |-> key, value |-> value,
                 before |-> allowed[<<scope, key>>]]
<1> USE DEF StoreInv
<1>0. /\ ~open /\ open' = TRUE /\ calls < MaxCalls /\ calls' = calls + 1
      /\ call' = [call EXCEPT ![n] = c]
      /\ allowed' = [allowed EXCEPT ![<<scope, key>>] =
                         allowed[<<scope, key>>] \union {value}]
      /\ UNCHANGED <<db, view, changes>>
  BY DEF StoreBegin
<1>1. <<scope, key>> \in Scopes \X Keys /\ allowed[<<scope, key>>] \in SUBSET Cells
  BY DEF StoreTypeOK, Cells
<1>2. c \in ActiveCall /\ c.pc = "change"
  BY <1>1 DEF ActiveCall
<1>3. \A m \in Namespaces : ~Active(m)
  BY <1>0 DEF TransactionOwned
<1>4. \A m \in Namespaces : call'[m] = IF m = n THEN c ELSE call[m]
  BY <1>0 DEF CallsTyped
<1>5. \A m \in Namespaces : Active(m)' <=> m = n
  BY <1>2, <1>3, <1>4 DEF Active
<1>6. CallsTyped'
  BY <1>0, <1>2 DEF CallsTyped
<1>7. allowed' \in [Scopes \X Keys -> SUBSET Cells]
  BY <1>0, <1>1 DEF StoreTypeOK, Cells
<1>8. StoreTypeOK'
  <2>1. calls' \in 0..MaxCalls
    BY <1>0, ModuleStoreAssumption DEF StoreTypeOK
  <2>2. \A m \in Namespaces : call'[m].pc \in {"idle", "change", "commit"}
    BY <1>2, <1>4 DEF StoreTypeOK
  <2> QED BY <1>0, <1>7, <2>1, <2>2 DEF StoreTypeOK, Cells
<1>9. TransactionOwned'
  BY <1>0, <1>5 DEF TransactionOwned
<1>10. ViewExplained'
  BY <1>0, <1>2, <1>3, <1>4 DEF ViewExplained, Active
<1>11. AnswerOwed'
  <2>1. /\ allowed'[<<scope, key>>] = c.before \union {c.value}
        /\ c.scope = scope /\ c.key = key
    BY <1>0, <1>1 DEF StoreTypeOK
  <2>2. Lookup(db', Slot(scope, key)) \in c.before
    BY <1>0 DEF CommittedHolds
  <2> QED BY <1>4, <1>5, <2>1, <2>2 DEF AnswerOwed, Row
<1>12. CommittedHolds'
  <2>1. \A x \in Scopes \X Keys : allowed[x] \subseteq allowed'[x]
    BY <1>0, <1>1 DEF StoreTypeOK
  <2> QED BY <1>0, <2>1 DEF CommittedHolds
<1> QED BY <1>6, <1>8, <1>9, <1>10, <1>11, <1>12

LEMMA StoreChangeInv ==
    ASSUME StoreInv, NEW n \in Namespaces, StoreChange(n)
    PROVE  StoreInv'
<1> DEFINE slot == Row(call[n])
<1> USE DEF StoreInv
<1>0. /\ call[n].pc = "change" /\ Active(n) /\ open
      /\ call' = [call EXCEPT ![n].pc = "commit"]
      /\ view' = Changed(view, slot, call[n].value) /\ db' = db
      /\ changes' = IF call[n].value = NoValue /\ slot \notin DOMAIN view THEN 0 ELSE 1
      /\ UNCHANGED <<open, calls, allowed>>
  BY DEF StoreChange, Row, TransactionOwned, Active
<1>1. view = db /\ call[n].value \in Cells /\ call[n] \in ActiveCall
  BY <1>0, CallFields DEF ViewExplained
<1>2. \A m \in Namespaces : m # n => ~Active(m) /\ call'[m] = call[m]
  BY <1>0 DEF TransactionOwned, CallsTyped
<1>3. /\ call'[n] = [call[n] EXCEPT !.pc = "commit"]
      /\ call'[n] \in ActiveCall /\ call'[n].pc = "commit"
      /\ call'[n].scope = call[n].scope /\ call'[n].key = call[n].key
      /\ call'[n].value = call[n].value /\ call'[n].before = call[n].before
  BY <1>0, <1>1 DEF CallsTyped, ActiveCall
<1>4. CallsTyped'
  BY <1>0, <1>3 DEF CallsTyped
<1>5. StoreTypeOK'
  <2>1. \A s \in DOMAIN view' : view'[s] \in Values
    BY <1>0, <1>1, ChangedType DEF StoreTypeOK
  <2>2. \A m \in Namespaces : call'[m].pc \in {"idle", "change", "commit"}
    BY <1>2, <1>3 DEF StoreTypeOK
  <2> QED BY <1>0, <2>1, <2>2 DEF StoreTypeOK
<1>6. TransactionOwned'
  BY <1>0, <1>2, <1>3 DEF TransactionOwned, Active
<1>7. ViewExplained'
  <2>1. Row(call[n])' = slot
    BY <1>3 DEF Row
  <2>2. changes' # 0 <=> call[n].value # NoValue \/ slot \in DOMAIN db
    BY <1>0, <1>1
  <2> QED BY <1>0, <1>1, <1>2, <1>3, <2>1, <2>2 DEF ViewExplained, Active
<1>8. AnswerOwed'
  BY <1>0, <1>2, <1>3 DEF AnswerOwed, Row, Active
<1>9. CommittedHolds'
  BY <1>0 DEF CommittedHolds
<1> QED BY <1>4, <1>5, <1>6, <1>7, <1>8, <1>9

(* What a call that ends leaves: no transaction, nothing uncommitted, and  *)
(* an answer about its row that the committed row satisfies.               *)
LEMMA CallEndsInv ==
    ASSUME StoreInv, NEW n \in Namespaces, Active(n), NEW answer \in SUBSET Cells,
           call' = [call EXCEPT ![n] = NoCall],
           allowed' = [allowed EXCEPT ![<<call[n].scope, call[n].key>>] = answer],
           open' = FALSE, view' = db', UNCHANGED <<changes, calls>>,
           \A s \in DOMAIN db' : db'[s] \in Values,
           Lookup(db', Row(call[n])) \in answer,
           \A s : s # Row(call[n]) => Lookup(db', s) = Lookup(db, s)
    PROVE  StoreInv'
<1> USE DEF StoreInv
<1>1. \A m \in Namespaces : call'[m] = NoCall
  <2>1. \A m \in Namespaces : m # n => call[m] = NoCall
    BY CallFields DEF TransactionOwned, CallsTyped, Active, ActiveCall
  <2> QED BY <2>1 DEF CallsTyped
<1>2. \A m \in Namespaces : call'[m].pc = "idle"
  BY <1>1 DEF NoCall
<1>3. CallsTyped'
  BY <1>1 DEF CallsTyped
<1>4. <<call[n].scope, call[n].key>> \in Scopes \X Keys
  BY CallFields
<1>5. StoreTypeOK'
  <2>1. allowed' \in [Scopes \X Keys -> SUBSET Cells]
    BY <1>4 DEF StoreTypeOK, Cells
  <2> QED BY <1>2, <2>1 DEF StoreTypeOK, Cells
<1>6. TransactionOwned' /\ ViewExplained' /\ AnswerOwed'
  BY <1>2 DEF TransactionOwned, ViewExplained, AnswerOwed, Active
<1>7. CommittedHolds'
  <2> SUFFICES ASSUME NEW scope \in Scopes, NEW key \in Keys
               PROVE  Lookup(db', Slot(scope, key)) \in allowed'[<<scope, key>>]
    BY DEF CommittedHolds
  <2>1. CASE scope = call[n].scope /\ key = call[n].key
    BY <1>4, <2>1 DEF Row, StoreTypeOK
  <2>2. CASE ~(scope = call[n].scope /\ key = call[n].key)
    <3>1. Slot(scope, key) # Row(call[n])
      BY <2>2, SlotInjective, CallFields DEF Row
    <3>2. <<scope, key>> # <<call[n].scope, call[n].key>>
      BY <2>2
    <3>3. allowed'[<<scope, key>>] = allowed[<<scope, key>>]
      BY <1>4, <3>2 DEF StoreTypeOK
    <3> QED BY <3>1, <3>3 DEF CommittedHolds
  <2> QED BY <2>1, <2>2
<1> QED BY <1>3, <1>5, <1>6, <1>7

LEMMA StoreCommitInv ==
    ASSUME StoreInv, NEW n \in Namespaces, StoreCommit(n)
    PROVE  StoreInv'
<1> DEFINE c == call[n]
           answer == Answered(c, changes # 0)
<1> USE DEF StoreInv
<1>1. /\ call[n].pc = "commit" /\ Active(n) /\ db' = view /\ view' = view /\ open' = FALSE
      /\ allowed' = [allowed EXCEPT ![<<call[n].scope, call[n].key>>] = answer]
      /\ call' = [call EXCEPT ![n] = NoCall]
      /\ UNCHANGED <<changes, calls>>
  BY DEF StoreCommit, Active
<1>2. c.value \in Cells /\ c.before \in SUBSET Cells
  BY <1>1, CallFields
<1>3. answer \in SUBSET Cells
  BY <1>2 DEF Answered, Cells
<1>4. /\ view = Changed(db, Row(c), c.value)
      /\ changes # 0 <=> c.value # NoValue \/ Row(c) \in DOMAIN db
  BY <1>1 DEF ViewExplained
<1>5. /\ Lookup(db', Row(c)) = c.value
      /\ \A s : s # Row(c) => Lookup(db', s) = Lookup(db, s)
  BY <1>1, <1>4, ChangedLookup
<1>6. Lookup(db', Row(c)) \in answer
  <2>1. CASE c.value # NoValue
    BY <1>5, <2>1 DEF Answered
  <2>2. CASE c.value = NoValue
    <3> DEFINE old == Lookup(db, Row(c))
    <3>1. old \in c.before
      BY <1>1 DEF AnswerOwed
    <3>2. (changes # 0) <=> (old # NoValue)
      BY <1>4, <2>2, LookupValue DEF StoreTypeOK
    <3> HIDE DEF old
    <3>3. answer = {NoValue}
      BY <2>2, <3>1, <3>2 DEF Answered
    <3> QED BY <1>5, <2>2, <3>3
  <2> QED BY <2>1, <2>2
<1>7. \A s \in DOMAIN db' : db'[s] \in Values
  BY <1>1 DEF StoreTypeOK
<1> HIDE DEF answer
<1> QED BY <1>1, <1>3, <1>5, <1>6, <1>7, CallEndsInv

LEMMA StoreFailsInv ==
    ASSUME StoreInv, NEW n \in Namespaces, StoreFails(n)
    PROVE  StoreInv'
<1> DEFINE answer == call[n].before
<1> USE DEF StoreInv
<1>1. /\ Active(n) /\ open /\ db' = db /\ view' = db /\ open' = FALSE
      /\ allowed' = [allowed EXCEPT ![<<call[n].scope, call[n].key>>] = answer]
      /\ call' = [call EXCEPT ![n] = NoCall]
      /\ UNCHANGED <<changes, calls>>
  BY DEF StoreFails, Active, TransactionOwned
<1>2. answer \in SUBSET Cells
  BY <1>1, CallFields
<1>3. Lookup(db', Row(call[n])) \in answer
  BY <1>1 DEF AnswerOwed
<1>4. \A s \in DOMAIN db' : db'[s] \in Values
  BY <1>1 DEF StoreTypeOK
<1> HIDE DEF answer
<1> QED BY <1>1, <1>2, <1>3, <1>4, CallEndsInv

LEMMA StoreRestartInv ==
    ASSUME StoreInv, StoreRestart
    PROVE  StoreInv'
<1> USE DEF StoreInv, StoreRestart
<1>1. \A n \in Namespaces : call'[n] = NoCall /\ call'[n].pc = "idle"
  BY DEF NoCall
<1>2. CallsTyped'
  BY DEF CallsTyped
<1>3. StoreTypeOK'
  BY <1>1 DEF StoreTypeOK
<1>4. TransactionOwned' /\ ViewExplained' /\ AnswerOwed'
  BY <1>1 DEF TransactionOwned, ViewExplained, AnswerOwed, Active
<1>5. CommittedHolds'
  BY DEF CommittedHolds
<1> QED BY <1>2, <1>3, <1>4, <1>5

(* The invariant says nothing of a step that leaves the store alone, and   *)
(* of a BEGIN that fails only that it was counted.                         *)
LEMMA StoreIdleInv ==
    ASSUME StoreInv, UNCHANGED <<db, view, open, changes, call, allowed>>,
           calls' \in 0..MaxCalls
    PROVE  StoreInv'
BY DEF StoreInv, StoreTypeOK, CallsTyped, TransactionOwned, ViewExplained, AnswerOwed,
       CommittedHolds, Active

-----------------------------------------------------------------------------
(* The host around the store.                                              *)

LEMMA ModulesNamedStep == ModulesNamed /\ [Next]_vars => ModulesNamed'
<1> SUFFICES ASSUME ModulesNamed, [Next]_vars PROVE ModulesNamed'
  OBVIOUS
<1> USE DEF ModulesNamed, sessionVars
<1>1. ASSUME NEW n \in Namespaces, NEW m \in Modules[n], Deploy(n, m) PROVE ModulesNamed'
  BY <1>1 DEF Deploy
<1>2. ASSUME NEW n \in Namespaces, NEW source, Ingest(n, source) PROVE ModulesNamed'
  BY <1>2 DEF Ingest
<1>3. ASSUME NEW n \in Namespaces, Begin(n) PROVE ModulesNamed'
  BY <1>3 DEF Begin
<1>4. ASSUME NEW n \in Namespaces, Dispatch(n) PROVE ModulesNamed'
  BY <1>4 DEF Dispatch
<1>5. ASSUME NEW n \in Namespaces, RuleReturns(n) PROVE ModulesNamed'
  BY <1>5 DEF RuleReturns
<1>6. ASSUME NEW n \in Namespaces, Finish(n) PROVE ModulesNamed'
  BY <1>6 DEF Finish, Idle
<1>7. ASSUME NEW n \in Namespaces, StoreCall(n) \/ RuleStores(n) PROVE ModulesNamed'
  BY <1>7 DEF StoreCall, RuleStores
<1>8. ASSUME NEW n \in Namespaces, SessionFails(n) PROVE ModulesNamed'
  BY <1>8 DEF SessionFails, Idle
<1>9. CASE Restart
  BY <1>9 DEF Restart, Idle
<1>10. CASE UNCHANGED vars
  BY <1>10 DEF vars
<1> QED BY <1>1, <1>2, <1>3, <1>4, <1>5, <1>6, <1>7, <1>8, <1>9, <1>10 DEF Next, Work

(* A rule's call names the row of its own namespace and module.            *)
LEMMA StoreInvStep == ModulesNamed /\ StoreInv /\ [Next]_vars => StoreInv'
<1> SUFFICES ASSUME ModulesNamed, StoreInv, [Next]_vars PROVE StoreInv'
  OBVIOUS
<1>1. ASSUME UNCHANGED storeVars PROVE StoreInv'
  BY <1>1, StoreIdleInv DEF storeVars, StoreInv, StoreTypeOK
<1>2. ASSUME NEW n \in Namespaces, StoreStep(n) PROVE StoreInv'
  BY <1>2, StoreChangeInv, StoreCommitInv, StoreFailsInv DEF StoreStep
<1>3. ASSUME NEW n \in Namespaces, RuleStores(n) PROVE StoreInv'
  <2>1. <<n, module[n].name>> \in Scopes
    BY <1>3, NamespaceAssumption DEF RuleStores, ModulesNamed, Scopes
  <2>2. CASE \E key \in Keys, value \in Values \union {NoValue} :
               StoreBegin(n, <<n, module[n].name>>, key, value)
    BY <2>1, <2>2, StoreBeginInv DEF Cells
  <2>3. CASE StoreBeginFails(n)
    <3>1. calls' \in 0..MaxCalls
      BY <2>3, ModuleStoreAssumption DEF StoreBeginFails, StoreInv, StoreTypeOK
    <3> QED BY <2>3, <3>1, StoreIdleInv DEF StoreBeginFails
  <2> QED BY <1>3, <2>2, <2>3 DEF RuleStores
<1>4. CASE Restart
  BY <1>4, StoreRestartInv DEF Restart
<1>5. ASSUME NEW n \in Namespaces, NEW m \in Modules[n], Deploy(n, m) PROVE StoreInv'
  BY <1>1, <1>5 DEF Deploy
<1>6. ASSUME NEW n \in Namespaces, NEW source, Ingest(n, source) PROVE StoreInv'
  BY <1>1, <1>6 DEF Ingest
<1>7. ASSUME NEW n \in Namespaces, Work(n) PROVE StoreInv'
  BY <1>1, <1>2, <1>7 DEF Work, Begin, Dispatch, RuleReturns, Finish, StoreCall
<1>8. ASSUME NEW n \in Namespaces, SessionFails(n) PROVE StoreInv'
  BY <1>1, <1>8 DEF SessionFails
<1>9. CASE UNCHANGED vars
  BY <1>1, <1>9 DEF vars
<1> QED BY <1>3, <1>4, <1>5, <1>6, <1>7, <1>8, <1>9 DEF Next

(* Both invariants hold in every reachable state.                          *)
LEMMA HostInvariant == Spec => [](ModulesNamed /\ StoreInv)
<1>1. Init => ModulesNamed /\ StoreInv
  BY StoreInitInv DEF Init, ModulesNamed, Idle
<1>2. ModulesNamed /\ StoreInv /\ [Next]_vars => (ModulesNamed /\ StoreInv)'
  BY ModulesNamedStep, StoreInvStep
<1> QED BY <1>1, <1>2, PTL DEF Spec

(* What a module was told about its store holds, on disk and for the next  *)
(* read, whatever other namespaces, other modules, failing statements and  *)
(* restarts do (storage.zig set and delete, store.zig).                    *)
THEOREM StoreAnswersHold == Spec => [](StoreTypeOK /\ AnswersHold)
<1>1. StoreInv => StoreTypeOK /\ AnswersHold
  <2> SUFFICES ASSUME StoreInv, NEW scope \in Scopes, NEW key \in Keys
               PROVE  /\ StoreTypeOK
                      /\ Lookup(db, Slot(scope, key)) \in allowed[<<scope, key>>]
                      /\ Lookup(view, Slot(scope, key)) \in allowed[<<scope, key>>]
    BY DEF AnswersHold, StoreInv
  <2> USE DEF StoreInv
  <2>1. Lookup(db, Slot(scope, key)) \in allowed[<<scope, key>>]
    BY DEF CommittedHolds
  <2>2. CASE view = db
    BY <2>1, <2>2
  <2>3. CASE view # db
    <3>1. PICK n \in Namespaces : Active(n) /\ call[n].pc # "change"
      BY <2>3 DEF ViewExplained, TransactionOwned
    <3>2. call[n].pc = "commit"
      BY <3>1, CallFields
    <3>3. view = Changed(db, Row(call[n]), call[n].value)
      BY <3>2 DEF ViewExplained
    <3>4. CASE Slot(scope, key) = Row(call[n])
      <4>1. scope = call[n].scope /\ key = call[n].key
        <5>1. call[n].scope \in Scopes
          BY <3>1, CallFields
        <5>2. Slot(scope, key) = Slot(call[n].scope, call[n].key)
          BY <3>4 DEF Row
        <5> QED BY <5>1, <5>2, SlotInjective
      <4>2. Lookup(view, Slot(scope, key)) = call[n].value
        BY <3>3, <3>4, ChangedLookup
      <4>3. call[n].value \in allowed[<<scope, key>>]
        BY <3>1, <4>1 DEF AnswerOwed
      <4> QED BY <2>1, <4>2, <4>3
    <3>5. CASE Slot(scope, key) # Row(call[n])
      <4>1. Lookup(view, Slot(scope, key)) = Lookup(db, Slot(scope, key))
        BY <3>3, <3>5, ChangedLookup
      <4> QED BY <2>1, <4>1
    <3> QED BY <3>4, <3>5
  <2> QED BY <2>2, <2>3
<1> QED BY <1>1, HostInvariant, PTL

(* The shared connection is inside a transaction exactly while one call    *)
(* is: provided ROLLBACK itself works, no error path leaves it open, and   *)
(* no call ends another's (the errdefer of set and delete, storage.zig).   *)
THEOREM StoreNoAbandonedTransaction == Spec => []NoAbandonedTransaction
<1>1. StoreInv => NoAbandonedTransaction
  <2> DEFINE active == {n \in Namespaces : call[n].pc # "idle"}
  <2> SUFFICES ASSUME StoreInv PROVE Cardinality(active) = (IF open THEN 1 ELSE 0)
    BY DEF NoAbandonedTransaction
  <2>1. \A n, m \in active : n = m
    BY DEF StoreInv, TransactionOwned, Active
  <2>2. open <=> active # {}
    BY DEF StoreInv, TransactionOwned, Active
  <2>3. open \in BOOLEAN
    BY DEF StoreInv, StoreTypeOK
  <2> HIDE DEF active
  <2>4. open = TRUE => Cardinality(active) = 1
    <3>1. open = TRUE => \E n \in active : active = {n}
      BY <2>1, <2>2
    <3> QED BY <3>1, FS_Singleton
  <2>5. open = FALSE => Cardinality(active) = 0
    BY <2>2, FS_EmptySet
  <2> QED BY <2>3, <2>4, <2>5
<1> QED BY <1>1, HostInvariant, PTL

-----------------------------------------------------------------------------
(* How a graph is built.                                                   *)

(* Partial functions from X to Y, the type of a hash map.                  *)
Tables(X, Y) == UNION {[S -> Y] : S \in SUBSET X}

ComponentsOf(m) == UNION {Names(m.sources[i].components) : i \in DOMAIN m.sources}
SourceEntry(m) == [entity : Nat, components : Tables(ComponentsOf(m), Nat)]

(* A builder that has read sources of m.                                   *)
Builders(m) ==
    [sources : Tables(Sources(m), SourceEntry(m)),
     components : Tables(Nat \X Nat, Sources(m) \X ComponentsOf(m)),
     rules : {<<>>}, next_entity_id : Nat, next_component_id : Nat]

(* The key of the i-th component of a source that b reads next.            *)
NewKey(b, i) == <<b.next_entity_id, b.next_component_id + i - 1>>
NewKeys(b, desc) == {NewKey(b, i) : i \in DOMAIN desc.components}

LEMMA TablePut ==
    ASSUME NEW X, NEW Y, NEW f \in Tables(X, Y), NEW g \in Tables(X, Y)
    PROVE  Put(f, g) \in Tables(X, Y)
<1>1. PICK S \in SUBSET X : f \in [S -> Y]
  BY DEF Tables
<1>2. PICK T \in SUBSET X : g \in [T -> Y]
  BY DEF Tables
<1>3. Put(f, g) \in [S \union T -> Y]
  BY <1>1, <1>2 DEF Put
<1> QED BY <1>3 DEF Tables

LEMMA BuilderFields ==
    ASSUME NEW m, NEW b \in Builders(m)
    PROVE  /\ b.next_entity_id \in Nat /\ b.next_component_id \in Nat
           /\ b.sources \in Tables(Sources(m), SourceEntry(m))
           /\ b.components \in Tables(Nat \X Nat, Sources(m) \X ComponentsOf(m))
           /\ b.rules = <<>>
           /\ DOMAIN b.components \subseteq Nat \X Nat
           /\ DOMAIN b.sources \subseteq Sources(m)
           /\ \A name \in DOMAIN b.sources :
                /\ b.sources[name].entity \in Nat
                /\ DOMAIN b.sources[name].components \subseteq ComponentsOf(m)
                /\ \A c \in DOMAIN b.sources[name].components :
                     b.sources[name].components[c] \in Nat
<1>1. /\ b.next_entity_id \in Nat /\ b.next_component_id \in Nat
      /\ b.sources \in Tables(Sources(m), SourceEntry(m))
      /\ b.components \in Tables(Nat \X Nat, Sources(m) \X ComponentsOf(m))
      /\ b.rules = <<>>
  BY DEF Builders
<1>2. PICK K \in SUBSET (Nat \X Nat) : b.components \in [K -> Sources(m) \X ComponentsOf(m)]
  BY <1>1 DEF Tables
<1>3. PICK S \in SUBSET Sources(m) : b.sources \in [S -> SourceEntry(m)]
  BY <1>1 DEF Tables
<1>4. ASSUME NEW name \in DOMAIN b.sources
      PROVE  /\ b.sources[name].entity \in Nat
             /\ DOMAIN b.sources[name].components \subseteq ComponentsOf(m)
             /\ \A c \in DOMAIN b.sources[name].components :
                  b.sources[name].components[c] \in Nat
  <2>1. b.sources[name] \in SourceEntry(m)
    BY <1>3
  <2>2. /\ b.sources[name].entity \in Nat
        /\ b.sources[name].components \in Tables(ComponentsOf(m), Nat)
    BY <2>1 DEF SourceEntry
  <2>3. PICK T \in SUBSET ComponentsOf(m) : b.sources[name].components \in [T -> Nat]
    BY <2>2 DEF Tables
  <2> QED BY <2>2, <2>3
<1> QED BY <1>1, <1>2, <1>3, <1>4

(* What reading one source does to the builder.                            *)
SourceRead(b, desc, r) ==
    /\ r.next_entity_id = b.next_entity_id + 1
    /\ r.next_component_id = b.next_component_id + Len(desc.components)
    /\ Len(desc.components) \in Nat /\ DOMAIN desc.components = 1..Len(desc.components)
    /\ DOMAIN r.sources = DOMAIN b.sources \union {desc.name}
    /\ \A name \in DOMAIN b.sources \ {desc.name} : r.sources[name] = b.sources[name]
    /\ r.sources[desc.name].entity = b.next_entity_id
    /\ DOMAIN r.sources[desc.name].components = Names(desc.components)
    /\ \A c \in Names(desc.components) : \E i \in DOMAIN desc.components :
         /\ desc.components[i] = c
         /\ r.sources[desc.name].components[c] = b.next_component_id + i - 1
    /\ DOMAIN r.components = DOMAIN b.components \union NewKeys(b, desc)
    /\ \A i \in DOMAIN desc.components :
         r.components[NewKey(b, i)] = <<desc.name, desc.components[i]>>
    /\ \A key \in DOMAIN b.components \ NewKeys(b, desc) :
         r.components[key] = b.components[key]

LEMMA RegisterSourceStep ==
    ASSUME NEW m, IsDescriptor(m), NEW b \in Builders(m), NEW d \in DOMAIN m.sources
    PROVE  /\ RegisterSource(b, m.sources[d]) \in Builders(m)
           /\ SourceRead(b, m.sources[d], RegisterSource(b, m.sources[d]))
<1> DEFINE desc == m.sources[d]
           r == RegisterSource(b, desc)
           s == desc.components
           len == Len(s)
           entity == b.next_entity_id
           base == b.next_component_id
           last(name) == SelectLastInSeq(s, LAMBDA x : x = name)
           ids == [name \in Names(s) |-> base + last(name) - 1]
           keys == {<<entity, base + i - 1>> : i \in DOMAIN s}
           mapper == [key \in keys |-> <<desc.name, s[key[2] - base + 1]>>]
           source == [name \in {desc.name} |-> [entity |-> entity, components |-> ids]]
<1>1. s \in Seq(ToSet(s))
  BY DEF IsDescriptor, IsSeq
<1>2. len \in Nat /\ DOMAIN s = 1..len
  BY <1>1, LenProperties
<1>3. entity \in Nat /\ base \in Nat
  BY BuilderFields
<1>4. ASSUME NEW c \in Names(s) PROVE last(c) \in 1..len /\ s[last(c)] = c
  <2> DEFINE I == {i \in 1..len : s[i] = c}
  <2>1. I # {} /\ I \in SUBSET (1..len)
    BY <1>2 DEF Names, ToSet
  <2>2. last(c) = Max(I)
    BY <2>1 DEF SelectLastInSeq
  <2> HIDE DEF I, len
  <2>3. Max(I) \in I
    BY <1>2, <2>1, MaxOfPart
  <2> QED BY <2>2, <2>3 DEF I
<1>5. r = [b EXCEPT !.sources = Put(b.sources, source), !.components = Put(b.components, mapper),
                    !.next_entity_id = entity + 1, !.next_component_id = base + len]
  BY DEF RegisterSource
<1> HIDE DEF r, last, len
<1>6. /\ r.sources = Put(b.sources, source) /\ r.components = Put(b.components, mapper)
      /\ r.next_entity_id = entity + 1 /\ r.next_component_id = base + len /\ r.rules = <<>>
      /\ r = [sources |-> r.sources, components |-> r.components, rules |-> r.rules,
              next_entity_id |-> r.next_entity_id, next_component_id |-> r.next_component_id]
  BY <1>5 DEF Builders
<1>7. desc.name \in Sources(m) /\ Names(s) \subseteq ComponentsOf(m)
  BY DEF Sources, ComponentsOf
<1>8. ids \in [Names(s) -> Nat]
  <2> SUFFICES ASSUME NEW c \in Names(s) PROVE base + last(c) - 1 \in Nat
    OBVIOUS
  <2>1. last(c) \in 1..len
    BY <1>4
  <2> QED BY <1>2, <1>3, <2>1
<1>9. source \in Tables(Sources(m), SourceEntry(m))
  <2>1. ids \in Tables(ComponentsOf(m), Nat)
    <3> HIDE DEF ids
    <3> QED BY <1>7, <1>8 DEF Tables
  <2> HIDE DEF ids
  <2>2. [entity |-> entity, components |-> ids] \in SourceEntry(m)
    BY <1>3, <2>1 DEF SourceEntry
  <2>3. source \in [{desc.name} -> SourceEntry(m)]
    BY <2>2
  <2>4. {desc.name} \in SUBSET Sources(m)
    BY <1>7
  <2> HIDE DEF source
  <2> QED BY <2>3, <2>4 DEF Tables
<1>10. keys \subseteq Nat \X Nat /\ keys = NewKeys(b, desc)
  BY <1>2, <1>3 DEF NewKeys, NewKey
<1>11. ASSUME NEW i \in DOMAIN s
       PROVE  /\ <<entity, base + i - 1>> \in keys
              /\ mapper[<<entity, base + i - 1>>] = <<desc.name, s[i]>>
  <2> DEFINE key == <<entity, base + i - 1>>
  <2>1. key \in keys
    OBVIOUS
  <2>2. key[2] - base + 1 = i
    <3>1. i \in Nat /\ key[2] = base + i - 1
      BY <1>2
    <3> QED BY <1>3, <3>1
  <2> HIDE DEF keys, key
  <2>3. mapper[key] = <<desc.name, s[i]>>
    BY <2>1, <2>2
  <2> QED BY <2>1, <2>3 DEF key
<1>12. mapper \in Tables(Nat \X Nat, Sources(m) \X ComponentsOf(m))
  <2>1. ASSUME NEW key \in keys PROVE mapper[key] \in Sources(m) \X ComponentsOf(m)
    <3>1. PICK i \in DOMAIN s : key = <<entity, base + i - 1>>
      OBVIOUS
    <3>2. s[i] \in ComponentsOf(m)
      BY <1>7 DEF Names, ToSet
    <3>3. mapper[key] = <<desc.name, s[i]>>
      BY <1>11, <3>1
    <3> HIDE DEF mapper, keys, desc
    <3> QED BY <1>7, <3>2, <3>3
  <2>2. DOMAIN mapper = keys /\ mapper = [key \in keys |-> mapper[key]]
    OBVIOUS
  <2> HIDE DEF mapper, keys
  <2>3. mapper \in [keys -> Sources(m) \X ComponentsOf(m)]
    BY <2>1, <2>2
  <2> QED BY <1>10, <2>3 DEF Tables
<1>13. r \in Builders(m)
  <2>1. r.sources \in Tables(Sources(m), SourceEntry(m))
    <3> HIDE DEF source
    <3> QED BY <1>6, <1>9, TablePut, BuilderFields
  <2>2. r.components \in Tables(Nat \X Nat, Sources(m) \X ComponentsOf(m))
    <3> HIDE DEF mapper, keys, desc
    <3>1. b.components \in Tables(Nat \X Nat, Sources(m) \X ComponentsOf(m))
      BY BuilderFields
    <3> QED BY <1>6, <1>12, <3>1, TablePut
  <2>3. r.next_entity_id \in Nat /\ r.next_component_id \in Nat
    BY <1>2, <1>3, <1>6
  <2> QED BY <1>6, <2>1, <2>2, <2>3 DEF Builders
<1>14. /\ DOMAIN r.sources = DOMAIN b.sources \union {desc.name}
       /\ \A name \in DOMAIN b.sources \ {desc.name} : r.sources[name] = b.sources[name]
       /\ r.sources[desc.name] = [entity |-> entity, components |-> ids]
  <2> HIDE DEF ids
  <2> QED BY <1>6 DEF Put
<1>15. \A c \in Names(s) : \E i \in DOMAIN s : s[i] = c /\ ids[c] = base + i - 1
  BY <1>2, <1>4
<1>16. /\ DOMAIN r.components = DOMAIN b.components \union keys
       /\ \A key \in keys : r.components[key] = mapper[key]
       /\ \A key \in DOMAIN b.components \ keys : r.components[key] = b.components[key]
  <2>1. DOMAIN mapper = keys
    OBVIOUS
  <2> HIDE DEF mapper, keys
  <2> QED BY <1>6, <2>1 DEF Put
<1>17. \A i \in DOMAIN s : r.components[NewKey(b, i)] = <<desc.name, s[i]>>
  <2> HIDE DEF mapper, keys
  <2> QED BY <1>11, <1>16 DEF NewKey
<1>18. DOMAIN ids = Names(s)
  OBVIOUS
<1> HIDE DEF ids, mapper, keys
<1>19. SourceRead(b, desc, r)
  <2> HIDE DEF desc
  <2>1. r.sources[desc.name].entity = entity /\ r.sources[desc.name].components = ids
    BY <1>14
  <2> QED BY <1>2, <1>6, <1>10, <1>14, <1>15, <1>16, <1>17, <1>18, <2>1 DEF len, SourceRead
<1> QED BY <1>13, <1>19 DEF r

LEMMA NewBuilderType == ASSUME NEW m PROVE NewBuilder \in Builders(m)
<1>1. <<>> \in Tables(Sources(m), SourceEntry(m))
  <2>1. <<>> \in [{} -> SourceEntry(m)]
    OBVIOUS
  <2> QED BY <2>1 DEF Tables
<1>2. <<>> \in Tables(Nat \X Nat, Sources(m) \X ComponentsOf(m))
  <2>1. <<>> \in [{} -> Sources(m) \X ComponentsOf(m)]
    OBVIOUS
  <2> QED BY <2>1 DEF Tables
<1> QED BY <1>1, <1>2 DEF NewBuilder, Builders

(* The sources are read one by one, in export order.                       *)
LEMMA SourceSteps ==
    ASSUME NEW m, IsDescriptor(m)
    PROVE  \E e \in [0..Len(m.sources) -> Builders(m)] :
             /\ e[0] = NewBuilder
             /\ e[Len(m.sources)] = FoldLeft(RegisterSource, NewBuilder, m.sources)
             /\ \A i \in 1..Len(m.sources) : e[i] = RegisterSource(e[i - 1], m.sources[i])
<1> DEFINE n == Len(m.sources)
           A == Builders(m)
           F == [x \in (1..n) \X A |-> RegisterSource(x[2], m.sources[x[1]])]
           pick == [s \in SUBSET (1..n) |-> Max(s)]
           R(h) == h = [s \in SUBSET (DOMAIN m.sources) |->
                          IF s = {} THEN NewBuilder
                          ELSE RegisterSource(h[s \ {Max(s)}], m.sources[Max(s)])]
<1>1. FoldLeft(RegisterSource, NewBuilder, m.sources) = (CHOOSE h : R(h))[DOMAIN m.sources]
  BY DEF FoldLeft, MapThenFoldSet
<1>2. n \in Nat /\ DOMAIN m.sources = 1..n
  BY LenProperties DEF IsDescriptor, IsSeq
<1> HIDE DEF n, A
<1>3. NewBuilder \in A
  BY NewBuilderType DEF A
<1>4. ASSUME NEW b \in A, NEW i \in 1..n PROVE RegisterSource(b, m.sources[i]) \in A
  BY <1>2, RegisterSourceStep DEF A
<1>5. F \in [(1..n) \X A -> A]
  BY <1>4
<1>6. Picks(n, pick)
  <2> SUFFICES ASSUME NEW s \in SUBSET (1..n), s # {} PROVE Max(s) \in s
    BY DEF Picks
  <2> QED BY <1>2, MaxOfPart
<1>7. PICK g : FoldedBy(n, A, NewBuilder, F, pick, g)
  <2> HIDE DEF F, pick
  <2> QED BY <1>2, <1>3, <1>5, <1>6, FoldExists
<1>8. R(g)
  <2>1. ASSUME NEW s \in SUBSET (1..n), s # {}
        PROVE  g[s] = RegisterSource(g[s \ {Max(s)}], m.sources[Max(s)])
    <3>1. Max(s) \in s /\ pick[s] = Max(s)
      BY <1>6, <2>1 DEF Picks
    <3>2. <<Max(s), g[s \ {Max(s)}]>> \in (1..n) \X A
      BY <1>7, <3>1 DEF FoldedBy
    <3> QED BY <1>7, <2>1, <3>1, <3>2 DEF FoldedBy
  <2> QED BY <1>2, <1>7, <2>1 DEF FoldedBy
<1> DEFINE h == CHOOSE h : R(h)
<1>9. R(h)
  <2> HIDE DEF R
  <2> QED BY <1>8
<1> HIDE DEF h
<1>10. h[{}] = NewBuilder /\ \A s \in SUBSET (1..n) :
         s # {} => h[s] = RegisterSource(h[s \ {Max(s)}], m.sources[Max(s)])
  BY <1>2, <1>9
<1> DEFINE e == [i \in 0..n |-> h[1..i]]
<1>11. e[0] = NewBuilder /\ e[n] = FoldLeft(RegisterSource, NewBuilder, m.sources)
  BY <1>1, <1>2, <1>10 DEF h
<1>12. ASSUME NEW i \in 1..n PROVE e[i] = RegisterSource(e[i - 1], m.sources[i])
  <2>1. e[i - 1] = h[1..(i - 1)] /\ e[i] = h[1..i]
    BY <1>2
  <2>2. Max(1..i) = i /\ (1..i) \ {i} = 1..(i - 1) /\ 1..i # {}
    BY <1>2, IntervalEnds
  <2>3. 1..i \in SUBSET (1..n)
    BY <1>2
  <2> QED BY <1>10, <2>1, <2>2, <2>3
<1>13. e \in [0..n -> A]
  <2> DEFINE P == {i \in 0..n : e[i] \in A}
  <2>1. 0 \in P
    BY <1>2, <1>3, <1>11
  <2>2. ASSUME NEW i \in 1..n, i - 1 \in P PROVE i \in P
    <3>1. e[i - 1] \in A /\ i \in 0..n
      BY <1>2, <2>2
    <3> HIDE DEF e
    <3>2. e[i] \in A
      BY <1>4, <1>12, <3>1
    <3> QED BY <3>1, <3>2
  <2>3. \A i \in 0..n : i \in P
    <3> HIDE DEF P
    <3> QED BY <1>2, <2>1, <2>2, IntervalInduction
  <2> QED BY <2>3
<1> QED
  <2> HIDE DEF e
  <2> QED BY <1>11, <1>12, <1>13 DEF n, A

(* A rule of m as a builder b with its sources keeps it.                   *)
RuleEntry(m, b, i) == [desc |-> m.rules[i], watch_list |-> WatchList(b, m.rules[i].watch)]
RuleEntries(m, b) == {RuleEntry(m, b, i) : i \in DOMAIN m.rules}
RuleBuilders(m, b) == {[b EXCEPT !.rules = r] : r \in Seq(RuleEntries(m, b))}

LEMMA RuleBuilderStep ==
    ASSUME NEW m, NEW b0 \in Builders(m)
    PROVE  /\ b0 \in RuleBuilders(m, b0)
           /\ \A b \in RuleBuilders(m, b0), i \in DOMAIN m.rules :
                /\ b.sources = b0.sources /\ b.components = b0.components
                /\ b.rules \in Seq(RuleEntries(m, b0))
                /\ RegisterRule(b, m.rules[i]) \in RuleBuilders(m, b0)
                /\ RegisterRule(b, m.rules[i]).rules = Append(b.rules, RuleEntry(m, b0, i))
<1>0. /\ "rules" \in DOMAIN b0 /\ b0.rules = <<>>
      /\ \A r : /\ [b0 EXCEPT !.rules = r].sources = b0.sources
               /\ [b0 EXCEPT !.rules = r].components = b0.components
               /\ [b0 EXCEPT !.rules = r].rules = r
      /\ \A r, q : [[b0 EXCEPT !.rules = r] EXCEPT !.rules = q] = [b0 EXCEPT !.rules = q]
      /\ [b0 EXCEPT !.rules = <<>>] = b0
  BY DEF Builders
<1>1. b0 \in RuleBuilders(m, b0)
  <2>1. <<>> \in Seq(RuleEntries(m, b0))
    BY EmptySeq
  <2> QED BY <1>0, <2>1 DEF RuleBuilders
<1>2. ASSUME NEW b \in RuleBuilders(m, b0), NEW i \in DOMAIN m.rules
      PROVE  /\ b.sources = b0.sources /\ b.components = b0.components
             /\ b.rules \in Seq(RuleEntries(m, b0))
             /\ RegisterRule(b, m.rules[i]) \in RuleBuilders(m, b0)
             /\ RegisterRule(b, m.rules[i]).rules = Append(b.rules, RuleEntry(m, b0, i))
  <2>1. PICK r \in Seq(RuleEntries(m, b0)) : b = [b0 EXCEPT !.rules = r]
    BY DEF RuleBuilders
  <2>2. b.sources = b0.sources /\ b.components = b0.components /\ b.rules = r
    BY <1>0, <2>1
  <2>3. WatchList(b, m.rules[i].watch) = WatchList(b0, m.rules[i].watch)
    BY <2>2 DEF WatchList, Resolvable, Resolve
  <2> DEFINE q == Append(r, RuleEntry(m, b0, i))
  <2>4. RegisterRule(b, m.rules[i]) = [b EXCEPT !.rules = q]
    BY <2>2, <2>3 DEF RegisterRule, RuleEntry
  <2>5. q \in Seq(RuleEntries(m, b0))
    <3>1. RuleEntry(m, b0, i) \in RuleEntries(m, b0)
      BY DEF RuleEntries
    <3> QED BY <3>1, AppendProperties
  <2> HIDE DEF q
  <2>6. RegisterRule(b, m.rules[i]) = [b0 EXCEPT !.rules = q]
    BY <1>0, <2>1, <2>4
  <2>7. RegisterRule(b, m.rules[i]).rules = q
    BY <1>0, <2>6
  <2> QED BY <2>2, <2>5, <2>6, <2>7 DEF RuleBuilders, q
<1> QED BY <1>1, <1>2

(* And so are the rules.                                                   *)
LEMMA RuleSteps ==
    ASSUME NEW m, IsDescriptor(m), NEW b0 \in Builders(m)
    PROVE  \E e \in [0..Len(m.rules) -> RuleBuilders(m, b0)] :
             /\ e[0] = b0 /\ e[Len(m.rules)] = FoldLeft(RegisterRule, b0, m.rules)
             /\ \A i \in 1..Len(m.rules) : e[i] = RegisterRule(e[i - 1], m.rules[i])
<1> DEFINE n == Len(m.rules)
           A == RuleBuilders(m, b0)
           F == [x \in (1..n) \X A |-> RegisterRule(x[2], m.rules[x[1]])]
           pick == [s \in SUBSET (1..n) |-> Max(s)]
           R(h) == h = [s \in SUBSET (DOMAIN m.rules) |->
                          IF s = {} THEN b0
                          ELSE RegisterRule(h[s \ {Max(s)}], m.rules[Max(s)])]
<1>1. FoldLeft(RegisterRule, b0, m.rules) = (CHOOSE h : R(h))[DOMAIN m.rules]
  BY DEF FoldLeft, MapThenFoldSet
<1>2. n \in Nat /\ DOMAIN m.rules = 1..n
  BY LenProperties DEF IsDescriptor, IsSeq
<1> HIDE DEF n, A
<1>3. b0 \in A
  BY RuleBuilderStep DEF A
<1>4. ASSUME NEW b \in A, NEW i \in 1..n PROVE RegisterRule(b, m.rules[i]) \in A
  BY <1>2, RuleBuilderStep DEF A
<1>5. F \in [(1..n) \X A -> A]
  BY <1>4
<1>6. Picks(n, pick)
  <2> SUFFICES ASSUME NEW s \in SUBSET (1..n), s # {} PROVE Max(s) \in s
    BY DEF Picks
  <2> QED BY <1>2, MaxOfPart
<1>7. PICK g : FoldedBy(n, A, b0, F, pick, g)
  <2> HIDE DEF F, pick
  <2> QED BY <1>2, <1>3, <1>5, <1>6, FoldExists
<1>8. R(g)
  <2>1. ASSUME NEW s \in SUBSET (1..n), s # {}
        PROVE  g[s] = RegisterRule(g[s \ {Max(s)}], m.rules[Max(s)])
    <3>1. Max(s) \in s /\ pick[s] = Max(s)
      BY <1>6, <2>1 DEF Picks
    <3>2. <<Max(s), g[s \ {Max(s)}]>> \in (1..n) \X A
      BY <1>7, <3>1 DEF FoldedBy
    <3> QED BY <1>7, <2>1, <3>1, <3>2 DEF FoldedBy
  <2> QED BY <1>2, <1>7, <2>1 DEF FoldedBy
<1> DEFINE h == CHOOSE h : R(h)
<1>9. R(h)
  <2> HIDE DEF R
  <2> QED BY <1>8
<1> HIDE DEF h
<1>10. h[{}] = b0 /\ \A s \in SUBSET (1..n) :
         s # {} => h[s] = RegisterRule(h[s \ {Max(s)}], m.rules[Max(s)])
  BY <1>2, <1>9
<1> DEFINE e == [i \in 0..n |-> h[1..i]]
<1>11. e[0] = b0 /\ e[n] = FoldLeft(RegisterRule, b0, m.rules)
  BY <1>1, <1>2, <1>10 DEF h
<1>12. ASSUME NEW i \in 1..n PROVE e[i] = RegisterRule(e[i - 1], m.rules[i])
  <2>1. e[i - 1] = h[1..(i - 1)] /\ e[i] = h[1..i]
    BY <1>2
  <2>2. Max(1..i) = i /\ (1..i) \ {i} = 1..(i - 1) /\ 1..i # {}
    BY <1>2, IntervalEnds
  <2>3. 1..i \in SUBSET (1..n)
    BY <1>2
  <2> QED BY <1>10, <2>1, <2>2, <2>3
<1>13. e \in [0..n -> A]
  <2> DEFINE P == {i \in 0..n : e[i] \in A}
  <2>1. 0 \in P
    BY <1>2, <1>3, <1>11
  <2>2. ASSUME NEW i \in 1..n, i - 1 \in P PROVE i \in P
    <3>1. e[i - 1] \in A /\ i \in 0..n
      BY <1>2, <2>2
    <3> HIDE DEF e
    <3>2. e[i] \in A
      BY <1>4, <1>12, <3>1
    <3> QED BY <3>1, <3>2
  <2>3. \A i \in 0..n : i \in P
    <3> HIDE DEF P
    <3> QED BY <1>2, <2>1, <2>2, IntervalInduction
  <2> QED BY <2>3
<1> QED
  <2> HIDE DEF e
  <2> QED BY <1>11, <1>12, <1>13 DEF n, A

LEMMA RulesRegistered ==
    ASSUME NEW m, IsDescriptor(m), NEW b0 \in Builders(m)
    PROVE  LET b == FoldLeft(RegisterRule, b0, m.rules)
           IN  /\ b.sources = b0.sources /\ b.components = b0.components
               /\ Len(b.rules) = Len(m.rules) /\ Len(m.rules) \in Nat
               /\ DOMAIN m.rules = 1..Len(m.rules)
               /\ \A i \in 1..Len(m.rules) : b.rules[i] = RuleEntry(m, b0, i)
<1> DEFINE n == Len(m.rules)
           X == RuleEntries(m, b0)
<1>1. n \in Nat /\ DOMAIN m.rules = 1..n
  BY LenProperties DEF IsDescriptor, IsSeq
<1>2. PICK e \in [0..n -> RuleBuilders(m, b0)] :
        /\ e[0] = b0 /\ e[n] = FoldLeft(RegisterRule, b0, m.rules)
        /\ \A i \in 1..n : e[i] = RegisterRule(e[i - 1], m.rules[i])
  BY RuleSteps
<1> HIDE DEF n
<1> DEFINE Done(k) == /\ Len(e[k].rules) = k
                      /\ \A i \in 1..k : e[k].rules[i] = RuleEntry(m, b0, i)
           P == {k \in 0..n : Done(k)}
<1>3. 0 \in P
  <2>1. e[0].rules = <<>>
    BY <1>2, BuilderFields
  <2>2. Done(0)
    BY <2>1, EmptySeq
  <2>3. 0 \in 0..n
    BY <1>1
  <2> HIDE DEF Done
  <2> QED BY <2>2, <2>3
<1>4. ASSUME NEW k \in 1..n, k - 1 \in P PROVE k \in P
  <2>1. k - 1 \in 0..n /\ k \in 0..n /\ e[k - 1] \in RuleBuilders(m, b0) /\ k \in DOMAIN m.rules
    BY <1>1, <1>2
  <2>2. /\ e[k - 1].rules \in Seq(X)
        /\ e[k].rules = Append(e[k - 1].rules, RuleEntry(m, b0, k))
    BY <1>2, <2>1, RuleBuilderStep
  <2>3. RuleEntry(m, b0, k) \in X
    BY <2>1 DEF RuleEntries
  <2>4. Done(k - 1)
    BY <1>4
  <2> HIDE DEF X
  <2>5. /\ Len(e[k].rules) = Len(e[k - 1].rules) + 1
        /\ \A i \in 1..Len(e[k - 1].rules) : e[k].rules[i] = e[k - 1].rules[i]
        /\ e[k].rules[Len(e[k - 1].rules) + 1] = RuleEntry(m, b0, k)
    BY <2>2, <2>3, AppendProperties
  <2>6. Done(k)
    <3>1. Len(e[k - 1].rules) = k - 1 /\ k - 1 + 1 = k
      BY <1>1, <2>4
    <3>2. ASSUME NEW i \in 1..k PROVE e[k].rules[i] = RuleEntry(m, b0, i)
      <4>1. i = k \/ i \in 1..(k - 1)
        BY <1>1
      <4> QED BY <2>4, <2>5, <3>1, <4>1
    <3> QED BY <2>5, <3>1, <3>2
  <2> HIDE DEF Done
  <2> QED BY <2>1, <2>6
<1>5. n \in P
  <2>1. \A k \in 0..n : k \in P
    <3> HIDE DEF P
    <3> QED BY <1>1, <1>3, <1>4, IntervalInduction
  <2>2. n \in 0..n
    BY <1>1
  <2> HIDE DEF P
  <2> QED BY <2>1, <2>2
<1>6. e[n] \in RuleBuilders(m, b0)
  BY <1>1, <1>2
<1>7. e[n].sources = b0.sources /\ e[n].components = b0.components
  <2>1. PICK r \in Seq(RuleEntries(m, b0)) : e[n] = [b0 EXCEPT !.rules = r]
    BY <1>6 DEF RuleBuilders
  <2> QED BY <2>1 DEF Builders
<1> QED BY <1>1, <1>2, <1>5, <1>7 DEF n

-----------------------------------------------------------------------------
(* What the builder knows after k sources of m.                            *)

Declares(m, k, w) ==
    \E i \in 1..k : m.sources[i].name = w[1] /\ w[2] \in Names(m.sources[i].components)

ReadInv(m, k, b) ==
    /\ b \in Builders(m) /\ b.next_entity_id = k
    /\ \A key \in DOMAIN b.components :
         /\ key[1] < k /\ key[2] < b.next_component_id
         /\ Declares(m, k, b.components[key])
    /\ \A name \in DOMAIN b.sources : \E i \in 1..k : m.sources[i].name = name
    /\ \A w : Resolvable(b, w) => /\ Resolve(b, w) \in DOMAIN b.components
                                 /\ b.components[Resolve(b, w)] = <<w[1], w[2]>>

(* Where no name is declared twice, names and keys are one to one.         *)
OneToOne(m, k, b) ==
    /\ \A key \in DOMAIN b.components :
         Resolvable(b, b.components[key]) /\ Resolve(b, b.components[key]) = key
    /\ \A w : Declares(m, k, w) => Resolvable(b, w)

LEMMA NamesDiffer ==
    ASSUME NEW m, DistinctNames(m)
    PROVE  /\ \A i, j \in DOMAIN m.sources : i # j => m.sources[i].name # m.sources[j].name
           /\ \A i, j \in DOMAIN m.rules : i # j => m.rules[i].name # m.rules[j].name
<1> DEFINE f == [i \in DOMAIN m.sources |-> m.sources[i].name]
           g == [i \in DOMAIN m.rules |-> m.rules[i].name]
<1>1. IsInjective(f) /\ IsInjective(g)
  BY DEF DistinctNames
<1>2. /\ DOMAIN f = DOMAIN m.sources /\ \A i \in DOMAIN m.sources : f[i] = m.sources[i].name
      /\ DOMAIN g = DOMAIN m.rules /\ \A i \in DOMAIN m.rules : g[i] = m.rules[i].name
  OBVIOUS
<1> HIDE DEF f, g
<1> QED BY <1>1, <1>2 DEF IsInjective

LEMMA ReadInvStep ==
    ASSUME NEW m, IsDescriptor(m), NEW k \in DOMAIN m.sources, NEW b, ReadInv(m, k - 1, b)
    PROVE  LET r == RegisterSource(b, m.sources[k])
           IN  /\ ReadInv(m, k, r)
               /\ \A key \in DOMAIN b.components :
                    key \in DOMAIN r.components /\ r.components[key] = b.components[key]
               /\ DistinctNames(m) /\ OneToOne(m, k - 1, b) => OneToOne(m, k, r)
<1> DEFINE desc == m.sources[k]
           s == desc.components
           r == RegisterSource(b, desc)
           base == b.next_component_id
<1>0. b \in Builders(m) /\ b.next_entity_id = k - 1
  BY DEF ReadInv
<1>13. r \in Builders(m) /\ SourceRead(b, desc, r)
  BY <1>0, RegisterSourceStep
<1> HIDE DEF r
<1>1. /\ r \in Builders(m)
      /\ r.next_entity_id = b.next_entity_id + 1
      /\ r.next_component_id = base + Len(s)
      /\ Len(s) \in Nat /\ DOMAIN s = 1..Len(s)
      /\ DOMAIN r.sources = DOMAIN b.sources \union {desc.name}
      /\ \A name \in DOMAIN b.sources \ {desc.name} : r.sources[name] = b.sources[name]
      /\ r.sources[desc.name].entity = b.next_entity_id
      /\ DOMAIN r.sources[desc.name].components = Names(s)
      /\ \A c \in Names(s) : \E i \in DOMAIN s :
            s[i] = c /\ r.sources[desc.name].components[c] = base + i - 1
      /\ DOMAIN r.components = DOMAIN b.components \union NewKeys(b, desc)
      /\ \A i \in DOMAIN s : r.components[NewKey(b, i)] = <<desc.name, s[i]>>
      /\ \A key \in DOMAIN b.components \ NewKeys(b, desc) : r.components[key] = b.components[key]
  BY <1>13 DEF SourceRead
<1>2. k \in Nat \ {0} /\ b.next_entity_id = k - 1 /\ base \in Nat
  <2>1. DOMAIN m.sources = 1..Len(m.sources) /\ Len(m.sources) \in Nat
    BY LenProperties DEF IsDescriptor, IsSeq
  <2>2. base \in Nat
    BY <1>0, BuilderFields
  <2>3. k \in Nat \ {0}
    BY <2>1
  <2> QED BY <1>0, <2>2, <2>3
<1>3. \A i \in 1..Len(s) : NewKey(b, i)[1] = k - 1 /\ NewKey(b, i)[2] = base + i - 1
  BY <1>2 DEF NewKey
<1>4. ASSUME NEW key \in DOMAIN b.components
      PROVE  /\ key \in DOMAIN r.components /\ r.components[key] = b.components[key]
             /\ key[1] \in Nat /\ key[2] \in Nat /\ key[1] < k - 1 /\ key[2] < base
             /\ key \notin NewKeys(b, desc)
  <2>1. key[1] \in Nat /\ key[2] \in Nat /\ key[1] < k - 1 /\ key[2] < base
    <3>1. key \in Nat \X Nat
      BY BuilderFields DEF ReadInv
    <3> QED BY <3>1 DEF ReadInv
  <2>2. key \notin NewKeys(b, desc)
    <3> SUFFICES ASSUME NEW i \in 1..Len(s), key = NewKey(b, i) PROVE FALSE
      BY <1>1 DEF NewKeys
    <3> QED BY <1>2, <1>3, <2>1
  <2> QED BY <1>1, <2>1, <2>2
<1>5. ASSUME NEW w PROVE Declares(m, k - 1, w) => Declares(m, k, w)
  BY <1>2 DEF Declares
<1>6. ASSUME NEW key \in DOMAIN r.components
      PROVE  key[1] < k /\ key[2] < r.next_component_id /\ Declares(m, k, r.components[key])
  <2>1. CASE key \in DOMAIN b.components
    <3>1. Declares(m, k - 1, b.components[key])
      BY <2>1 DEF ReadInv
    <3>2. Declares(m, k, r.components[key])
      BY <1>4, <1>5, <2>1, <3>1
    <3>3. key[1] < k /\ key[2] < base + Len(s)
      BY <1>1, <1>2, <1>4, <2>1
    <3> QED BY <1>1, <3>2, <3>3
  <2>2. CASE key \in NewKeys(b, desc)
    <3>1. PICK i \in DOMAIN s : key = NewKey(b, i)
      BY <2>2 DEF NewKeys
    <3>2. key[1] < k /\ key[2] < base + Len(s)
      BY <1>1, <1>2, <1>3, <3>1
    <3>3. r.components[key] = <<desc.name, s[i]>>
      BY <1>1, <3>1
    <3>4. s[i] \in Names(s) /\ k \in 1..k
      BY <1>2 DEF Names, ToSet
    <3>5. Declares(m, k, r.components[key])
      BY <3>3, <3>4 DEF Declares
    <3> QED BY <1>1, <3>2, <3>5
  <2> QED BY <1>1, <2>1, <2>2
<1>7. ASSUME NEW name \in DOMAIN r.sources PROVE \E i \in 1..k : m.sources[i].name = name
  <2>1. CASE name = desc.name
    BY <1>2, <2>1
  <2>2. CASE name \in DOMAIN b.sources
    <3>1. PICK i \in 1..(k - 1) : m.sources[i].name = name
      BY <2>2 DEF ReadInv
    <3>2. i \in 1..k
      BY <1>2
    <3> QED BY <3>1, <3>2
  <2> QED BY <1>1, <2>1, <2>2
<1>8. ASSUME NEW w, w[1] # desc.name
      PROVE  /\ Resolvable(r, w) = Resolvable(b, w)
             /\ Resolvable(b, w) => Resolve(r, w) = Resolve(b, w)
  <2>1. w[1] \in DOMAIN r.sources <=> w[1] \in DOMAIN b.sources
    BY <1>1, <1>8
  <2>2. w[1] \in DOMAIN b.sources => r.sources[w[1]] = b.sources[w[1]]
    BY <1>1, <1>8
  <2> QED BY <2>1, <2>2 DEF Resolvable, Resolve
<1>9. ASSUME NEW w, w[1] = desc.name
      PROVE  /\ Resolvable(r, w) <=> w[2] \in Names(s)
             /\ w[2] \in Names(s) => \E i \in DOMAIN s : s[i] = w[2] /\ Resolve(r, w) = NewKey(b, i)
  <2>1. Resolvable(r, w) <=> w[2] \in Names(s)
    BY <1>1, <1>9 DEF Resolvable
  <2>2. ASSUME w[2] \in Names(s)
        PROVE  \E i \in DOMAIN s : s[i] = w[2] /\ Resolve(r, w) = NewKey(b, i)
    <3>1. PICK i \in DOMAIN s : s[i] = w[2] /\ r.sources[desc.name].components[w[2]] = base + i - 1
      BY <1>1, <2>2
    <3>2. Resolve(r, w) = NewKey(b, i)
      BY <1>1, <1>9, <3>1 DEF Resolve, NewKey
    <3> QED BY <3>1, <3>2
  <2> QED BY <2>1, <2>2
<1>10. ASSUME NEW w, Resolvable(r, w)
       PROVE  Resolve(r, w) \in DOMAIN r.components /\ r.components[Resolve(r, w)] = <<w[1], w[2]>>
  <2>1. CASE w[1] = desc.name
    <3>1. PICK i \in DOMAIN s : s[i] = w[2] /\ Resolve(r, w) = NewKey(b, i)
      BY <1>9, <1>10, <2>1
    <3>2. NewKey(b, i) \in NewKeys(b, desc)
      BY DEF NewKeys
    <3> QED BY <1>1, <2>1, <3>1, <3>2
  <2>2. CASE w[1] # desc.name
    <3>1. Resolvable(b, w) /\ Resolve(r, w) = Resolve(b, w)
      BY <1>8, <1>10, <2>2
    <3>2. Resolve(b, w) \in DOMAIN b.components /\ b.components[Resolve(b, w)] = <<w[1], w[2]>>
      BY <3>1 DEF ReadInv
    <3> QED BY <1>4, <3>1, <3>2
  <2> QED BY <2>1, <2>2
<1>11. ReadInv(m, k, r)
  <2>1. r.next_entity_id = k
    BY <1>1, <1>2
  <2> QED BY <1>1, <1>6, <1>7, <1>10, <2>1 DEF ReadInv
<1>12. ASSUME DistinctNames(m), OneToOne(m, k - 1, b) PROVE OneToOne(m, k, r)
  <2>1. ASSUME NEW i \in 1..(k - 1) PROVE m.sources[i].name # desc.name
    <3>1. DOMAIN m.sources = 1..Len(m.sources) /\ Len(m.sources) \in Nat
      BY LenProperties DEF IsDescriptor, IsSeq
    <3>2. i \in DOMAIN m.sources /\ i # k
      BY <1>2, <3>1
    <3> QED BY <1>12, <3>2, NamesDiffer
  <2>2. ASSUME NEW key \in DOMAIN r.components
        PROVE  Resolvable(r, r.components[key]) /\ Resolve(r, r.components[key]) = key
    <3>1. CASE key \in DOMAIN b.components
      <4> DEFINE w == b.components[key]
      <4>1. Resolvable(b, w) /\ Resolve(b, w) = key /\ r.components[key] = w
        BY <1>4, <1>12, <3>1 DEF OneToOne
      <4>2. w[1] # desc.name
        <5>1. Declares(m, k - 1, w)
          BY <3>1 DEF ReadInv
        <5> QED BY <2>1, <5>1 DEF Declares
      <4> HIDE DEF w
      <4> QED BY <1>8, <4>1, <4>2
    <3>2. CASE key \in NewKeys(b, desc)
      <4>1. PICK i \in DOMAIN s : key = NewKey(b, i)
        BY <3>2 DEF NewKeys
      <4> DEFINE w == <<desc.name, s[i]>>
      <4>2. r.components[key] = w /\ w[1] = desc.name /\ w[2] = s[i]
        BY <1>1, <4>1
      <4> HIDE DEF w
      <4>3. w[2] \in Names(s)
        BY <4>2 DEF Names, ToSet
      <4>4. PICK j \in DOMAIN s : s[j] = w[2] /\ Resolve(r, w) = NewKey(b, j)
        BY <1>9, <4>2, <4>3
      <4>5. j = i
        BY <1>12, <4>2, <4>4 DEF DistinctNames, IsInjective
      <4> QED BY <1>9, <4>1, <4>2, <4>3, <4>4, <4>5
    <3> QED BY <1>1, <3>1, <3>2
  <2>3. ASSUME NEW w, Declares(m, k, w) PROVE Resolvable(r, w)
    <3>1. PICK i \in 1..k : m.sources[i].name = w[1] /\ w[2] \in Names(m.sources[i].components)
      BY <2>3 DEF Declares
    <3>2. CASE i = k
      BY <1>9, <3>1, <3>2
    <3>3. CASE i # k
      <4>1. i \in 1..(k - 1)
        BY <1>2, <3>3
      <4>2. Resolvable(b, w)
        BY <1>12, <3>1, <4>1 DEF OneToOne, Declares
      <4>3. w[1] # desc.name
        BY <2>1, <3>1, <4>1
      <4> QED BY <1>8, <4>2, <4>3
    <3> QED BY <3>2, <3>3
  <2> QED BY <2>2, <2>3 DEF OneToOne
<1> QED BY <1>4, <1>11, <1>12 DEF r

(* The builder when all sources of m are read.                             *)
SourcesRead(m) == FoldLeft(RegisterSource, NewBuilder, m.sources)

(* The builders on the way there.                                          *)
Reading(m, e) ==
    /\ e \in [0..Len(m.sources) -> Builders(m)]
    /\ e[0] = NewBuilder /\ e[Len(m.sources)] = SourcesRead(m)
    /\ \A i \in 1..Len(m.sources) : e[i] = RegisterSource(e[i - 1], m.sources[i])
    /\ \A i \in 0..Len(m.sources) :
         ReadInv(m, i, e[i]) /\ (DistinctNames(m) => OneToOne(m, i, e[i]))

LEMMA ReadingExists ==
    ASSUME NEW m, IsDescriptor(m)
    PROVE  /\ Len(m.sources) \in Nat /\ DOMAIN m.sources = 1..Len(m.sources)
           /\ \E e : Reading(m, e)
<1> DEFINE n == Len(m.sources)
<1>1. n \in Nat /\ DOMAIN m.sources = 1..n
  BY LenProperties DEF IsDescriptor, IsSeq
<1>2. PICK e \in [0..n -> Builders(m)] :
        /\ e[0] = NewBuilder /\ e[n] = SourcesRead(m)
        /\ \A i \in 1..n : e[i] = RegisterSource(e[i - 1], m.sources[i])
  BY SourceSteps DEF SourcesRead
<1> HIDE DEF n
<1> DEFINE Inv(k) == ReadInv(m, k, e[k]) /\ (DistinctNames(m) => OneToOne(m, k, e[k]))
           P == {k \in 0..n : Inv(k)}
<1>3. 0 \in P
  <2>1. e[0] \in Builders(m) /\ 0 \in 0..n
    BY <1>1, <1>2
  <2>2. /\ DOMAIN NewBuilder.components = {} /\ DOMAIN NewBuilder.sources = {}
        /\ NewBuilder.next_entity_id = 0
    BY DEF NewBuilder
  <2>3. \A w : ~Resolvable(NewBuilder, w) /\ ~Declares(m, 0, w)
    BY <2>2 DEF Resolvable, Declares
  <2>4. ReadInv(m, 0, e[0]) /\ OneToOne(m, 0, e[0])
    BY <1>2, <2>1, <2>2, <2>3 DEF ReadInv, OneToOne
  <2> QED BY <2>1, <2>4
<1>4. ASSUME NEW k \in 1..n, k - 1 \in P PROVE k \in P
  <2>1. ReadInv(m, k - 1, e[k - 1]) /\ (DistinctNames(m) => OneToOne(m, k - 1, e[k - 1]))
    BY <1>4
  <2>2. k \in DOMAIN m.sources /\ k \in 0..n
    BY <1>1
  <2>3. ReadInv(m, k, e[k]) /\ (DistinctNames(m) => OneToOne(m, k, e[k]))
    BY <1>2, <2>1, <2>2, ReadInvStep
  <2> QED BY <2>2, <2>3
<1>5. \A k \in 0..n : k \in P
  <2> HIDE DEF P
  <2> QED BY <1>1, <1>3, <1>4, IntervalInduction
<1>6. Reading(m, e)
  BY <1>2, <1>5 DEF Reading, n
<1> QED BY <1>1, <1>6 DEF n

(* The index of keys is finite.                                            *)
LEMMA FiniteIndex ==
    ASSUME NEW m, IsDescriptor(m)
    PROVE  IsFiniteSet(DOMAIN SourcesRead(m).components)
<1> DEFINE n == Len(m.sources)
           b == SourcesRead(m)
           E == 0..n
           C == 0..b.next_component_id
<1>1. PICK e : Reading(m, e)
  BY ReadingExists
<1>2. n \in Nat /\ ReadInv(m, n, b)
  <2>1. n \in Nat
    BY ReadingExists
  <2> QED BY <1>1, <2>1 DEF Reading
<1> HIDE DEF n, b
<1>3. b.next_component_id \in Nat /\ DOMAIN b.components \subseteq Nat \X Nat
  BY <1>2, BuilderFields DEF ReadInv
<1>4. IsFiniteSet(E) /\ IsFiniteSet(C)
  BY <1>2, <1>3, FS_Interval
<1>5. IsFiniteSet(E \X C)
  <2> HIDE DEF E, C
  <2> QED BY <1>4, FS_Product
<1>6. DOMAIN b.components \subseteq E \X C
  <2> SUFFICES ASSUME NEW key \in DOMAIN b.components PROVE key \in E \X C
    OBVIOUS
  <2>1. key \in Nat \X Nat /\ key[1] < n /\ key[2] < b.next_component_id
    BY <1>2, <1>3 DEF ReadInv
  <2> QED BY <1>2, <1>3, <2>1
<1> HIDE DEF E, C
<1>7. IsFiniteSet(DOMAIN b.components)
  BY <1>5, <1>6, FS_Subset
<1> QED BY <1>7 DEF b

(* A version that adds sources after those of another keeps its keys.      *)
LEMMA LaterVersion ==
    ASSUME NEW m1, IsDescriptor(m1), NEW m2, IsDescriptor(m2), IsPrefix(m1.sources, m2.sources)
    PROVE  \A key \in DOMAIN SourcesRead(m1).components :
               /\ key \in DOMAIN SourcesRead(m2).components
               /\ SourcesRead(m2).components[key] = SourcesRead(m1).components[key]
<1> DEFINE n1 == Len(m1.sources)
           n2 == Len(m2.sources)
<1>1. /\ n1 \in Nat /\ DOMAIN m1.sources = 1..n1
      /\ n2 \in Nat /\ DOMAIN m2.sources = 1..n2
  BY ReadingExists
<1>2. n1 <= n2 /\ \A i \in 1..n1 : m1.sources[i] = m2.sources[i]
  <2>1. n1 <= n2 /\ SubSeq(m1.sources, 1, n1) = SubSeq(m2.sources, 1, n1)
    BY DEF IsPrefix
  <2>2. /\ \A i \in 1..n1 : m1.sources[i] \in ToSet(m1.sources)
        /\ \A i \in 1..n1 : m2.sources[i] \in ToSet(m2.sources)
    BY <1>1, <2>1 DEF ToSet
  <2> HIDE DEF n1, n2
  <2>3. \A i \in 1..n1 : SubSeq(m1.sources, 1, n1)[i] = m1.sources[i]
    BY <1>1, <2>2, SubSeqProperties
  <2>4. \A i \in 1..n1 : SubSeq(m2.sources, 1, n1)[i] = m2.sources[i]
    BY <1>1, <2>2, SubSeqProperties
  <2> QED BY <2>1, <2>3, <2>4
<1>3. PICK e : Reading(m1, e)
  BY ReadingExists
<1>4. PICK f : Reading(m2, f)
  BY ReadingExists
<1>5. /\ e[0] = NewBuilder /\ e[n1] = SourcesRead(m1)
      /\ \A i \in 1..n1 : e[i] = RegisterSource(e[i - 1], m1.sources[i])
      /\ f[0] = NewBuilder /\ f[n2] = SourcesRead(m2)
      /\ \A i \in 1..n2 : f[i] = RegisterSource(f[i - 1], m2.sources[i])
      /\ \A i \in 0..n2 : ReadInv(m2, i, f[i])
  BY <1>3, <1>4 DEF Reading
<1> HIDE DEF n1, n2
<1> DEFINE P == {k \in 0..n1 : e[k] = f[k]}
<1>6. \A k \in 0..n1 : k \in P
  <2>1. 0 \in P
    BY <1>1, <1>5
  <2>2. ASSUME NEW k \in 1..n1, k - 1 \in P PROVE k \in P
    <3>1. e[k - 1] = f[k - 1] /\ k \in 0..n1 /\ k \in 1..n2
      BY <1>1, <1>2, <2>2
    <3>2. e[k] = f[k]
      BY <1>2, <1>5, <3>1
    <3> QED BY <3>1, <3>2
  <2> HIDE DEF P
  <2> QED BY <1>1, <2>1, <2>2, IntervalInduction
<1>7. f[n1] = SourcesRead(m1)
  BY <1>1, <1>5, <1>6
<1> DEFINE Keeps(k) == \A key \in DOMAIN f[n1].components :
             key \in DOMAIN f[k].components /\ f[k].components[key] = f[n1].components[key]
           Q == {k \in 0..n2 : k < n1 \/ Keeps(k)}
<1>8. \A k \in 0..n2 : k \in Q
  <2>1. 0 \in Q
    BY <1>1
  <2>2. ASSUME NEW k \in 1..n2, k - 1 \in Q PROVE k \in Q
    <3>1. k \in 0..n2 /\ k - 1 \in 0..n2 /\ k \in DOMAIN m2.sources
      BY <1>1
    <3>2. CASE k <= n1
      BY <1>1, <3>1, <3>2
    <3>3. CASE k > n1
      <4>1. Keeps(k - 1)
        BY <1>1, <2>2, <3>3
      <4>2. \A key \in DOMAIN f[k - 1].components :
              key \in DOMAIN f[k].components /\ f[k].components[key] = f[k - 1].components[key]
        <5>1. ReadInv(m2, k - 1, f[k - 1]) /\ f[k] = RegisterSource(f[k - 1], m2.sources[k])
          BY <1>5, <3>1
        <5> QED BY <3>1, <5>1, ReadInvStep
      <4>3. Keeps(k)
        BY <4>1, <4>2
      <4> HIDE DEF Keeps
      <4> QED BY <3>1, <4>3
    <3> QED BY <1>1, <3>2, <3>3
  <2> HIDE DEF Q
  <2> QED BY <1>1, <2>1, <2>2, IntervalInduction
<1>9. Keeps(n2)
  <2>1. n2 \in 0..n2 /\ ~(n2 < n1)
    BY <1>1, <1>2
  <2> HIDE DEF Keeps
  <2> QED BY <1>8, <2>1
<1> QED BY <1>5, <1>7, <1>9

-----------------------------------------------------------------------------
(* The indices.                                                            *)

LEMMA ShortSequences ==
    /\ \A x : ToSet(<<x>>) = {x} /\ IsInjective(<<x>>)
    /\ ToSet(<<>>) = {} /\ IsInjective(<<>>)
BY DEF ToSet, IsInjective

(* A watch list holds the keys of the watches that can be resolved.        *)
LEMMA WatchListElements ==
    ASSUME NEW m, NEW b \in Builders(m), NEW watch, IsSeq(watch)
    PROVE  /\ WatchList(b, watch) \in Seq(Nat \X Nat)
           /\ ToSet(WatchList(b, watch))
                = {Resolve(b, w) : w \in {v \in ToSet(watch) : Resolvable(b, v)}}
           /\ /\ IsInjective(watch)
              /\ \A v, w \in ToSet(watch) :
                   Resolvable(b, v) /\ Resolvable(b, w) /\ Resolve(b, v) = Resolve(b, w) => v = w
              => IsInjective(WatchList(b, watch))
<1> DEFINE ss == [i \in DOMAIN watch |->
                    IF Resolvable(b, watch[i]) THEN <<Resolve(b, watch[i])>> ELSE <<>>]
           S == Nat \X Nat
           n == Len(watch)
<1>1. n \in Nat /\ DOMAIN watch = 1..n
  BY LenProperties DEF IsSeq
<1> HIDE DEF n, S
<1>2. ASSUME NEW w, Resolvable(b, w) PROVE Resolve(b, w) \in S
  BY <1>2, BuilderFields DEF Resolvable, Resolve, S
<1>3. ASSUME NEW i \in 1..n
      PROVE  /\ ss[i] \in Seq(S) /\ IsInjective(ss[i])
             /\ ToSet(ss[i]) = {Resolve(b, w) : w \in {v \in {watch[i]} : Resolvable(b, v)}}
  <2>1. ss[i] = IF Resolvable(b, watch[i]) THEN <<Resolve(b, watch[i])>> ELSE <<>>
    BY <1>1
  <2> HIDE DEF ss
  <2>2. CASE Resolvable(b, watch[i])
    <3> DEFINE x == Resolve(b, watch[i])
    <3>1. ss[i] = <<x>> /\ x \in S
      BY <1>2, <2>1, <2>2
    <3>2. {Resolve(b, w) : w \in {v \in {watch[i]} : Resolvable(b, v)}} = {x}
      BY <2>2
    <3> HIDE DEF x
    <3>3. <<x>> \in Seq(S)
      BY <3>1
    <3> QED BY <3>1, <3>2, <3>3, ShortSequences
  <2>3. CASE ~Resolvable(b, watch[i])
    <3>1. ss[i] = <<>>
      BY <2>1, <2>3
    <3>2. {Resolve(b, w) : w \in {v \in {watch[i]} : Resolvable(b, v)}} = {}
      BY <2>3
    <3>3. <<>> \in Seq(S)
      BY EmptySeq
    <3> QED BY <3>1, <3>2, <3>3, ShortSequences
  <2> QED BY <2>2, <2>3
<1>4. ss \in Seq(Seq(S)) /\ Len(ss) = n
  <2>1. DOMAIN ss = 1..n
    BY <1>1
  <2>2. ss \in [1..n -> Seq(S)]
    BY <1>1, <1>3
  <2> HIDE DEF ss
  <2>3. ss \in Seq(Seq(S))
    BY <1>1, <2>2, SeqDef
  <2>4. Len(ss) \in Nat /\ DOMAIN ss = 1..Len(ss)
    BY <2>3, LenProperties
  <2> QED BY <1>1, <2>1, <2>3, <2>4
<1>5. WatchList(b, watch) = FlattenSeq(ss)
  BY DEF WatchList
<1> HIDE DEF ss
<1>6. /\ FlattenSeq(ss) \in Seq(S)
      /\ ToSet(FlattenSeq(ss)) = UNION {ToSet(ss[i]) : i \in 1..n}
      /\ /\ \A i \in 1..n : IsInjective(ss[i])
         /\ \A i, j \in 1..n : i # j => ToSet(ss[i]) \intersect ToSet(ss[j]) = {}
         => IsInjective(FlattenSeq(ss))
  BY <1>4, FlattenElements
<1>7. UNION {ToSet(ss[i]) : i \in 1..n}
        = {Resolve(b, w) : w \in {v \in ToSet(watch) : Resolvable(b, v)}}
  <2>1. \A i \in 1..n : \A x :
          x \in ToSet(ss[i]) <=> Resolvable(b, watch[i]) /\ x = Resolve(b, watch[i])
    BY <1>3
  <2>2. \A w : w \in ToSet(watch) <=> \E i \in 1..n : w = watch[i]
    BY <1>1 DEF ToSet
  <2>3. ASSUME NEW x
        PROVE  (\E i \in 1..n : x \in ToSet(ss[i]))
                 <=> \E w \in ToSet(watch) : Resolvable(b, w) /\ x = Resolve(b, w)
    BY <2>1, <2>2
  <2> QED BY <2>3
<1>8. ASSUME IsInjective(watch),
             \A v, w \in ToSet(watch) :
               Resolvable(b, v) /\ Resolvable(b, w) /\ Resolve(b, v) = Resolve(b, w) => v = w
      PROVE  \A i, j \in 1..n : i # j => ToSet(ss[i]) \intersect ToSet(ss[j]) = {}
  <2> SUFFICES ASSUME NEW i \in 1..n, NEW j \in 1..n, i # j,
                      NEW x \in ToSet(ss[i]) \intersect ToSet(ss[j])
               PROVE  FALSE
    OBVIOUS
  <2>1. /\ Resolvable(b, watch[i]) /\ x = Resolve(b, watch[i])
        /\ Resolvable(b, watch[j]) /\ x = Resolve(b, watch[j])
    BY <1>3
  <2>2. watch[i] \in ToSet(watch) /\ watch[j] \in ToSet(watch) /\ watch[i] # watch[j]
    BY <1>1, <1>8 DEF ToSet, IsInjective
  <2> QED BY <1>8, <2>1, <2>2
<1> QED BY <1>3, <1>5, <1>6, <1>7, <1>8 DEF S

(* A rule is found under a key once for every time it is in its list.      *)
LEMMA HitsElements ==
    ASSUME NEW list, IsSeq(list), NEW b, NEW id, NEW S, id \in S, NEW key,
           Rule(b, id).watch_list = list
    PROVE  /\ Hits(b, key, id) \in Seq(S)
           /\ ToSet(Hits(b, key, id)) = IF key \in ToSet(list) THEN {id} ELSE {}
           /\ IsInjective(list) => IsInjective(Hits(b, key, id))
<1> DEFINE ss == [j \in DOMAIN list |-> IF list[j] = key THEN <<id>> ELSE <<>>]
           n == Len(list)
<1>1. n \in Nat /\ DOMAIN list = 1..n
  BY LenProperties DEF IsSeq
<1> HIDE DEF n
<1>2. <<id>> \in Seq(S) /\ <<>> \in Seq(S)
  BY EmptySeq
<1>3. ASSUME NEW i \in 1..n
      PROVE  /\ ss[i] \in Seq(S) /\ IsInjective(ss[i])
             /\ ToSet(ss[i]) = IF list[i] = key THEN {id} ELSE {}
  <2>1. ss[i] = IF list[i] = key THEN <<id>> ELSE <<>>
    BY <1>1
  <2> HIDE DEF ss
  <2> QED BY <1>2, <2>1, ShortSequences
<1>4. ss \in Seq(Seq(S)) /\ Len(ss) = n
  <2>1. DOMAIN ss = 1..n
    BY <1>1
  <2>2. ss \in [1..n -> Seq(S)]
    BY <1>1, <1>3
  <2> HIDE DEF ss
  <2>3. ss \in Seq(Seq(S))
    BY <1>1, <2>2, SeqDef
  <2>4. Len(ss) \in Nat /\ DOMAIN ss = 1..Len(ss)
    BY <2>3, LenProperties
  <2> QED BY <1>1, <2>1, <2>3, <2>4
<1>5. Hits(b, key, id) = FlattenSeq(ss)
  BY DEF Hits
<1> HIDE DEF ss
<1>6. /\ FlattenSeq(ss) \in Seq(S)
      /\ ToSet(FlattenSeq(ss)) = UNION {ToSet(ss[i]) : i \in 1..n}
      /\ /\ \A i \in 1..n : IsInjective(ss[i])
         /\ \A i, j \in 1..n : i # j => ToSet(ss[i]) \intersect ToSet(ss[j]) = {}
         => IsInjective(FlattenSeq(ss))
  BY <1>4, FlattenElements
<1>7. UNION {ToSet(ss[i]) : i \in 1..n} = IF key \in ToSet(list) THEN {id} ELSE {}
  <2>1. key \in ToSet(list) <=> \E i \in 1..n : list[i] = key
    BY <1>1 DEF ToSet
  <2> QED BY <1>3, <2>1
<1>8. ASSUME IsInjective(list)
      PROVE  \A i, j \in 1..n : i # j => ToSet(ss[i]) \intersect ToSet(ss[j]) = {}
  BY <1>1, <1>3, <1>8 DEF IsInjective
<1> QED BY <1>3, <1>5, <1>6, <1>7, <1>8

(* An order of a finite set lists all of it.                               *)
LEMMA OrderProperties ==
    ASSUME NEW S, IsFiniteSet(S), NEW order \in SetToSeqs(S)
    PROVE  /\ order \in Seq(S) /\ Len(order) = Cardinality(S)
           /\ ToSet(order) = S /\ IsInjective(order)
<1> DEFINE n == Cardinality(S)
<1>1. n \in Nat
  BY FS_CardinalityType
<1>2. order \in [1..n -> S] /\ \A i, j \in 1..n : i # j => order[i] # order[j]
  BY DEF SetToSeqs
<1>3. IsFiniteSet(1..n) /\ Cardinality(1..n) = n
  BY <1>1, FS_Interval
<1>4. order \in Injection(1..n, S)
  BY <1>2 DEF Injection, IsInjective
<1> HIDE DEF n
<1>5. order \in Surjection(1..n, S)
  <2>1. Cardinality(1..n) = Cardinality(S) <=> order \in Surjection(1..n, S)
    BY <1>4, FS_Injection
  <2> QED BY <1>3, <2>1 DEF n
<1>6. \A x \in S : \E i \in 1..n : order[i] = x
  BY <1>5 DEF Surjection
<1>7. order \in Seq(S)
  BY <1>1, <1>2, SeqDef
<1>8. DOMAIN order = 1..n
  BY <1>2
<1>9. Len(order) = n
  <2>1. Len(order) \in Nat /\ DOMAIN order = 1..Len(order)
    BY <1>7, LenProperties
  <2> QED BY <1>1, <1>8, <2>1
<1>10. ToSet(order) = S
  BY <1>2, <1>6, <1>8 DEF ToSet
<1>11. IsInjective(order)
  BY <1>2, <1>8 DEF IsInjective
<1> QED BY <1>7, <1>9, <1>10, <1>11 DEF n

(* What a graph of m says: the rules by id, and for every key the          *)
(* component it stands for and the rules that watch it.                    *)
RulesOf(m) == 0..(Len(m.rules) - 1)
WatchersIn(m, component) == {id \in RulesOf(m) : component \in ToSet(m.rules[id + 1].watch)}

GraphIs(m, g) ==
    /\ DOMAIN g.reverse = RulesOf(m)
    /\ \A id \in RulesOf(m) :
         /\ id + 1 \in DOMAIN m.rules
         /\ g.reverse[id].entrypoint = m.rules[id + 1].name
         /\ g.reverse[id].priority = m.rules[id + 1].priority
    /\ DOMAIN g.forward = DOMAIN SourcesRead(m).components
    /\ \A key \in DOMAIN g.forward :
         /\ g.forward[key].mapper = SourcesRead(m).components[key]
         /\ g.forward[key].watchers \in Seq(RulesOf(m))
         /\ DistinctNames(m) =>
              /\ ToSet(g.forward[key].watchers) = WatchersIn(m, g.forward[key].mapper)
              /\ IsInjective(g.forward[key].watchers)

(* The watchers of a key, for an order of the rules.                       *)
LEMMA WatchersElements ==
    ASSUME NEW m, IsDescriptor(m), NEW order \in SetToSeqs(RulesOf(m)),
           NEW key \in DOMAIN SourcesRead(m).components
    PROVE  LET watchers == WatchersOf(Registered(m), key, order)
           IN  /\ watchers \in Seq(RulesOf(m))
               /\ DistinctNames(m) =>
                    /\ ToSet(watchers) = WatchersIn(m, SourcesRead(m).components[key])
                    /\ IsInjective(watchers)
<1> DEFINE b0 == SourcesRead(m)
           b == Registered(m)
           n == Len(m.rules)
           S == RulesOf(m)
           list(id) == WatchList(b0, m.rules[id + 1].watch)
           ss == [i \in DOMAIN order |-> Hits(b, key, order[i])]
<1>1. b0 \in Builders(m) /\ ReadInv(m, Len(m.sources), b0)
      /\ (DistinctNames(m) => OneToOne(m, Len(m.sources), b0))
  <2>1. PICK e : Reading(m, e)
    BY ReadingExists
  <2>2. Len(m.sources) \in 0..Len(m.sources)
    BY ReadingExists
  <2>3. ReadInv(m, Len(m.sources), b0) /\ (DistinctNames(m) => OneToOne(m, Len(m.sources), b0))
    BY <2>1, <2>2 DEF Reading
  <2> QED BY <2>3 DEF ReadInv
<1>2. /\ n \in Nat /\ DOMAIN m.rules = 1..n
      /\ \A i \in 1..n : b.rules[i] = RuleEntry(m, b0, i)
  <2> HIDE DEF b0
  <2>1. b = FoldLeft(RegisterRule, b0, m.rules)
    BY DEF Registered, b0, SourcesRead
  <2> QED BY <1>1, <2>1, RulesRegistered
<1> HIDE DEF b0, b, n
<1>3. \A id \in S : id + 1 \in 1..n
  BY <1>2 DEF RulesOf, n
<1>4. ASSUME NEW id \in S
      PROVE  /\ Rule(b, id).watch_list = list(id) /\ IsSeq(list(id))
             /\ DistinctNames(m) =>
                  /\ key \in ToSet(list(id)) <=> b0.components[key] \in ToSet(m.rules[id + 1].watch)
                  /\ IsInjective(list(id))
  <2> DEFINE watch == m.rules[id + 1].watch
  <2>1. Rule(b, id).watch_list = list(id)
    <3>1. id + 1 \in 1..n
      BY <1>3
    <3>2. b.rules[id + 1] = RuleEntry(m, b0, id + 1)
      BY <1>2, <3>1
    <3> QED BY <3>2 DEF Rule, RuleEntry
  <2>2. IsSeq(watch) /\ \A w \in ToSet(watch) : w = <<w[1], w[2]>>
    BY <1>2, <1>3 DEF IsDescriptor
  <2> HIDE DEF watch
  <2>3. /\ WatchList(b0, watch) \in Seq(Nat \X Nat)
        /\ ToSet(WatchList(b0, watch))
             = {Resolve(b0, w) : w \in {v \in ToSet(watch) : Resolvable(b0, v)}}
        /\ /\ IsInjective(watch)
           /\ \A v, w \in ToSet(watch) :
                Resolvable(b0, v) /\ Resolvable(b0, w) /\ Resolve(b0, v) = Resolve(b0, w) => v = w
           => IsInjective(WatchList(b0, watch))
    BY <1>1, <2>2, WatchListElements
  <2>4. \A w \in ToSet(watch) : Resolvable(b0, w) => b0.components[Resolve(b0, w)] = w
    BY <1>1, <2>2 DEF ReadInv
  <2>5. \A v, w \in ToSet(watch) :
          Resolvable(b0, v) /\ Resolvable(b0, w) /\ Resolve(b0, v) = Resolve(b0, w) => v = w
    <3> SUFFICES ASSUME NEW v \in ToSet(watch), NEW w \in ToSet(watch), Resolvable(b0, v),
                        Resolvable(b0, w), Resolve(b0, v) = Resolve(b0, w)
                 PROVE  v = w
      OBVIOUS
    <3>1. b0.components[Resolve(b0, v)] = v /\ b0.components[Resolve(b0, w)] = w
      BY <2>4
    <3> QED BY <3>1
  <2>6. IsSeq(list(id))
    <3> DEFINE l == WatchList(b0, watch)
    <3> HIDE DEF l
    <3>1. l \in Seq(Nat \X Nat)
      BY <2>3 DEF l
    <3>2. Len(l) \in Nat /\ DOMAIN l = 1..Len(l) /\ l \in [1..Len(l) -> Nat \X Nat]
      BY <3>1, LenProperties
    <3>3. l \in [1..Len(l) -> ToSet(l)]
      BY <3>2 DEF ToSet
    <3>4. l \in Seq(ToSet(l))
      BY <3>2, <3>3, SeqDef
    <3> QED BY <3>4 DEF IsSeq, l, watch
  <2>7. ASSUME DistinctNames(m)
        PROVE  key \in ToSet(WatchList(b0, watch)) <=> b0.components[key] \in ToSet(watch)
    <3>1. Resolvable(b0, b0.components[key]) /\ Resolve(b0, b0.components[key]) = key
      BY <1>1, <2>7 DEF OneToOne, b0
    <3>2. key \in ToSet(WatchList(b0, watch))
            <=> \E w \in ToSet(watch) : Resolvable(b0, w) /\ key = Resolve(b0, w)
      BY <2>3
    <3> QED BY <2>4, <3>1, <3>2
  <2>8. DistinctNames(m) => IsInjective(watch)
    BY <1>2, <1>3 DEF DistinctNames, watch
  <2> QED BY <2>1, <2>3, <2>5, <2>6, <2>7, <2>8 DEF watch
<1>5. IsFiniteSet(S)
  <2>1. 0 \in Int /\ n - 1 \in Int
    BY <1>2
  <2> QED BY <2>1, FS_Interval DEF RulesOf, n
<1> HIDE DEF S
<1>6. order \in Seq(S) /\ ToSet(order) = S /\ IsInjective(order)
  BY <1>5, OrderProperties DEF S
<1>7. Len(order) \in Nat /\ DOMAIN order = 1..Len(order)
      /\ \A i \in 1..Len(order) : order[i] \in S
  BY <1>6, LenProperties, ElementOfSeq
<1> HIDE DEF list
<1>8. ASSUME NEW i \in 1..Len(order)
      PROVE  /\ ss[i] \in Seq(S)
             /\ ToSet(ss[i]) = IF key \in ToSet(list(order[i])) THEN {order[i]} ELSE {}
             /\ IsInjective(list(order[i])) => IsInjective(ss[i])
  <2>1. ss[i] = Hits(b, key, order[i]) /\ order[i] \in S
    BY <1>7
  <2>2. Rule(b, order[i]).watch_list = list(order[i]) /\ IsSeq(list(order[i]))
    BY <1>4, <2>1
  <2> DEFINE l == list(order[i])
             h == Hits(b, key, order[i])
  <2> HIDE DEF ss, l
  <2>3. /\ h \in Seq(S)
        /\ ToSet(h) = IF key \in ToSet(l) THEN {order[i]} ELSE {}
        /\ IsInjective(l) => IsInjective(h)
    <3>1. Rule(b, order[i]).watch_list = l /\ IsSeq(l)
      BY <2>2 DEF l
    <3> DEFINE id == order[i]
    <3>2. id \in S /\ Rule(b, id).watch_list = l
      BY <2>1, <3>1
    <3> HIDE DEF id
    <3>3. /\ Hits(b, key, id) \in Seq(S)
          /\ ToSet(Hits(b, key, id)) = IF key \in ToSet(l) THEN {id} ELSE {}
          /\ IsInjective(l) => IsInjective(Hits(b, key, id))
      BY <3>1, <3>2, HitsElements
    <3> QED BY <3>3 DEF id
  <2> QED BY <2>1, <2>3 DEF l
<1>9. ss \in Seq(Seq(S)) /\ Len(ss) = Len(order)
  <2>1. DOMAIN ss = 1..Len(order)
    BY <1>7
  <2>2. ss \in [1..Len(order) -> Seq(S)]
    BY <1>7, <1>8
  <2> HIDE DEF ss
  <2>3. ss \in Seq(Seq(S))
    BY <1>7, <2>2, SeqDef
  <2>4. Len(ss) \in Nat /\ DOMAIN ss = 1..Len(ss)
    BY <2>3, LenProperties
  <2> QED BY <1>7, <2>1, <2>3, <2>4
<1>10. WatchersOf(b, key, order) = FlattenSeq(ss)
  BY DEF WatchersOf
<1> HIDE DEF ss
<1>11. /\ FlattenSeq(ss) \in Seq(S)
       /\ ToSet(FlattenSeq(ss)) = UNION {ToSet(ss[i]) : i \in 1..Len(order)}
       /\ /\ \A i \in 1..Len(order) : IsInjective(ss[i])
          /\ \A i, j \in 1..Len(order) : i # j => ToSet(ss[i]) \intersect ToSet(ss[j]) = {}
          => IsInjective(FlattenSeq(ss))
  BY <1>9, FlattenElements
<1>12. ASSUME DistinctNames(m)
       PROVE  UNION {ToSet(ss[i]) : i \in 1..Len(order)} = WatchersIn(m, b0.components[key])
  <2>1. \A id : id \in S <=> \E i \in 1..Len(order) : order[i] = id
    BY <1>6, <1>7 DEF ToSet
  <2>2. \A id : (\E i \in 1..Len(order) : id \in ToSet(ss[i]))
                 <=> id \in S /\ key \in ToSet(list(id))
    BY <1>8, <2>1
  <2>3. \A id \in S :
          key \in ToSet(list(id)) <=> b0.components[key] \in ToSet(m.rules[id + 1].watch)
    BY <1>4, <1>12
  <2>4. \A id : id \in UNION {ToSet(ss[i]) : i \in 1..Len(order)}
                 <=> id \in WatchersIn(m, b0.components[key])
    BY <2>2, <2>3 DEF WatchersIn, S
  <2> QED BY <2>4
<1>13. ASSUME DistinctNames(m) PROVE IsInjective(FlattenSeq(ss))
  <2>1. \A i \in 1..Len(order) : IsInjective(ss[i])
    BY <1>4, <1>7, <1>8, <1>13
  <2>2. \A i, j \in 1..Len(order) : i # j => order[i] # order[j]
    BY <1>6, <1>7 DEF IsInjective
  <2>3. \A i, j \in 1..Len(order) : i # j => ToSet(ss[i]) \intersect ToSet(ss[j]) = {}
    BY <1>8, <2>2
  <2> QED BY <1>11, <2>1, <2>3
<1> QED BY <1>10, <1>11, <1>12, <1>13 DEF b, b0, S

LEMMA GraphsAre ==
    ASSUME NEW m, IsDescriptor(m), NEW g \in Graphs(m)
    PROVE  GraphIs(m, g)
<1> DEFINE b0 == SourcesRead(m)
           b == Registered(m)
           n == Len(m.rules)
<1>1. /\ n \in Nat /\ DOMAIN m.rules = 1..n /\ Len(b.rules) = n /\ b.components = b0.components
      /\ \A i \in 1..n : b.rules[i] = RuleEntry(m, b0, i)
  <2>1. PICK e : Reading(m, e)
    BY ReadingExists
  <2>2. Len(m.sources) \in 0..Len(m.sources)
    BY ReadingExists
  <2>3. b0 \in Builders(m)
    BY <2>1, <2>2 DEF Reading
  <2>4. b = FoldLeft(RegisterRule, b0, m.rules)
    BY DEF Registered, SourcesRead
  <2> HIDE DEF b0, b
  <2> QED BY <2>3, <2>4, RulesRegistered
<1>2. RuleIds(b) = RulesOf(m)
  BY <1>1 DEF RuleIds, RulesOf
<1>3. PICK order \in SetToSeqs(RulesOf(m)) : g = Build(b, order)
  BY <1>2 DEF Graphs
<1> HIDE DEF b, b0
<1>4. /\ g.reverse = [id \in RuleIds(b) |-> [watch |-> Rule(b, id).watch_list,
                          priority |-> Rule(b, id).desc.priority,
                          entrypoint |-> Rule(b, id).desc.name]]
      /\ g.forward = [key \in DOMAIN b.components |->
                        [watchers |-> WatchersOf(b, key, order), source |-> SourceOf(b, key[1]),
                         mapper |-> b.components[key]]]
  BY <1>3 DEF Build
<1>5. ASSUME NEW id \in RulesOf(m)
      PROVE  /\ id + 1 \in DOMAIN m.rules
             /\ g.reverse[id].entrypoint = m.rules[id + 1].name
             /\ g.reverse[id].priority = m.rules[id + 1].priority
  <2>1. id + 1 \in 1..n
    BY <1>1 DEF RulesOf
  <2>2. Rule(b, id).desc = m.rules[id + 1]
    <3>1. b.rules[id + 1] = RuleEntry(m, b0, id + 1)
      BY <1>1, <2>1
    <3> QED BY <3>1 DEF Rule, RuleEntry
  <2> QED BY <1>1, <1>2, <1>4, <2>1, <2>2
<1>6. DOMAIN g.reverse = RulesOf(m) /\ DOMAIN g.forward = DOMAIN b0.components
  BY <1>1, <1>2, <1>4
<1>7. ASSUME NEW key \in DOMAIN g.forward
      PROVE  /\ g.forward[key].mapper = b0.components[key]
             /\ g.forward[key].watchers = WatchersOf(b, key, order)
  BY <1>1, <1>4, <1>6
<1>8. ASSUME NEW key \in DOMAIN g.forward
      PROVE  /\ g.forward[key].watchers \in Seq(RulesOf(m))
             /\ DistinctNames(m) =>
                  /\ ToSet(g.forward[key].watchers) = WatchersIn(m, g.forward[key].mapper)
                  /\ IsInjective(g.forward[key].watchers)
  <2>1. key \in DOMAIN SourcesRead(m).components
    BY <1>6 DEF b0
  <2>2. /\ WatchersOf(b, key, order) \in Seq(RulesOf(m))
        /\ DistinctNames(m) =>
             /\ ToSet(WatchersOf(b, key, order)) = WatchersIn(m, b0.components[key])
             /\ IsInjective(WatchersOf(b, key, order))
    BY <2>1, WatchersElements DEF b, b0
  <2> QED BY <1>7, <2>2
<1> QED BY <1>5, <1>6, <1>7, <1>8 DEF GraphIs, b0

-----------------------------------------------------------------------------
(* The meaning of keys across redeployments.                               *)

(* The graphs the modules of a namespace can be given.                     *)
GraphsOf(n) == UNION {Graphs(m) : m \in Modules[n]}

(* The descriptors of a namespace's modules give every key the same        *)
(* mapper: a version may add sources after the ones there were, and may    *)
(* not move or replace them.                                               *)
VersionsAgree ==
    \A n \in Namespaces : \A g, h \in GraphsOf(n) :
        \A key \in DOMAIN g.forward \intersect DOMAIN h.forward :
            g.forward[key].mapper = h.forward[key].mapper

(* The pending entries that some graph of a namespace can have written.    *)
Entry(i, n, g, key) ==
    [id |-> i, namespace |-> n, key |-> key, meaning |-> g.forward[key].mapper]
Entries(n) == UNION {{Entry(i, n, g, key) : i \in Nat, key \in DOMAIN g.forward}
                       : g \in GraphsOf(n)}
AllEntries == UNION {Entries(n) : n \in Namespaces}

(* The inductive invariant: what is stored was written by a graph of its   *)
(* namespace.                                                              *)
MeaningInv ==
    /\ pending \in Seq(AllEntries) /\ next_id \in Nat
    /\ DOMAIN facts = Namespaces /\ DOMAIN graph = Namespaces
    /\ \A n \in Namespaces :
         /\ graph[n] \in GraphsOf(n) \union {NoGraph}
         /\ \A key \in DOMAIN facts[n] : \E g \in GraphsOf(n) :
              key \in DOMAIN g.forward /\ g.forward[key].mapper = facts[n][key]

LEMMA EntryFields ==
    ASSUME NEW e \in AllEntries
    PROVE  \E i \in Nat, n \in Namespaces : \E g \in GraphsOf(n) : \E key \in DOMAIN g.forward :
               /\ e = Entry(i, n, g, key) /\ e.id = i /\ e.namespace = n /\ e.key = key
               /\ e.meaning = g.forward[key].mapper
BY DEF AllEntries, Entries, Entry

(* The keys a source is ingested under are finitely many keys of the       *)
(* graph.                                                                  *)
LEMMA IngestedKeys ==
    ASSUME MeaningInv, NEW n \in Namespaces, NEW source,
           NEW keys \in SUBSET KeysOf(graph[n], source), NEW order \in SetToSeqs(keys)
    PROVE  /\ keys \subseteq DOMAIN graph[n].forward
           /\ keys # {} => graph[n] \in GraphsOf(n)
           /\ order \in Seq(keys) /\ IsInjective(order)
<1>1. keys \subseteq DOMAIN graph[n].forward
  BY DEF KeysOf
<1>2. keys # {} => graph[n] \in GraphsOf(n)
  BY <1>1 DEF MeaningInv, NoGraph
<1>3. IsFiniteSet(keys)
  <2>1. CASE keys = {}
    BY <2>1, FS_EmptySet
  <2>2. CASE keys # {}
    <3>1. IsFiniteSet(DOMAIN graph[n].forward)
      <4>1. PICK m \in Modules[n] : graph[n] \in Graphs(m)
        BY <1>2, <2>2 DEF GraphsOf
      <4>2. IsDescriptor(m)
        BY NamespaceAssumption
      <4> QED BY <4>1, <4>2, FiniteIndex, GraphsAre DEF GraphIs
    <3> QED BY <1>1, <3>1, FS_Subset
  <2> QED BY <2>1, <2>2
<1>4. order \in Seq(keys) /\ IsInjective(order)
  BY <1>3, OrderProperties
<1> QED BY <1>1, <1>2, <1>4

(* An accepted payload leaves entries of its namespace, with the next ids. *)
LEMMA IngestAppends ==
    ASSUME MeaningInv, NEW n \in Namespaces, NEW source, Ingest(n, source)
    PROVE  \E new \in Seq(AllEntries) :
             /\ pending' = pending \o new /\ next_id' = next_id + Len(new)
             /\ \A i \in 1..Len(new) : new[i].id = next_id + i - 1 /\ new[i].namespace = n
<1> DEFINE meaning(key) == graph[n].forward[key].mapper
           New(order) == [i \in DOMAIN order |->
                            [id |-> next_id + i - 1, namespace |-> n, key |-> order[i],
                             meaning |-> meaning(order[i])]]
<1>1. PICK keys \in SUBSET KeysOf(graph[n], source) :
        \E order \in SetToSeqs(keys) :
            pending' = pending \o New(order) /\ next_id' = next_id + Len(order)
  BY DEF Ingest
<1>2. PICK order \in SetToSeqs(keys) :
        pending' = pending \o New(order) /\ next_id' = next_id + Len(order)
  BY <1>1
<1>3. /\ keys \subseteq DOMAIN graph[n].forward
      /\ keys # {} => graph[n] \in GraphsOf(n)
      /\ order \in Seq(keys)
  BY IngestedKeys
<1> DEFINE len == Len(order)
<1>4. len \in Nat /\ DOMAIN order = 1..len /\ \A i \in 1..len : order[i] \in keys
  BY <1>3, LenProperties, ElementOfSeq
<1> HIDE DEF len
<1>5. ASSUME NEW i \in 1..len
      PROVE  /\ New(order)[i] \in AllEntries
             /\ New(order)[i].id = next_id + i - 1 /\ New(order)[i].namespace = n
  <2>1. order[i] \in keys /\ graph[n] \in GraphsOf(n) /\ order[i] \in DOMAIN graph[n].forward
    BY <1>3, <1>4
  <2>2. next_id + i - 1 \in Nat
    BY <1>4 DEF MeaningInv
  <2>3. New(order)[i] = Entry(next_id + i - 1, n, graph[n], order[i])
    BY <1>4 DEF Entry
  <2>4. Entry(next_id + i - 1, n, graph[n], order[i]) \in AllEntries
    BY <2>1, <2>2 DEF AllEntries, Entries
  <2>5. New(order)[i].id = next_id + i - 1 /\ New(order)[i].namespace = n
    BY <2>3 DEF Entry
  <2> HIDE DEF New
  <2> QED BY <2>3, <2>4, <2>5
<1> DEFINE new == New(order)
<1>6. new \in Seq(AllEntries) /\ Len(new) = len
  <2>1. DOMAIN new = 1..len
    BY <1>4
  <2>2. new \in [1..len -> AllEntries]
    BY <1>4, <1>5
  <2> HIDE DEF new
  <2>3. new \in Seq(AllEntries)
    BY <1>4, <2>2, SeqDef
  <2>4. Len(new) \in Nat /\ DOMAIN new = 1..Len(new)
    BY <2>3, LenProperties
  <2> QED BY <1>4, <2>1, <2>3, <2>4
<1>7. pending' = pending \o new /\ next_id' = next_id + Len(new)
  BY <1>2, <1>6 DEF len
<1>8. \A i \in 1..Len(new) : new[i].id = next_id + i - 1 /\ new[i].namespace = n
  BY <1>5, <1>6
<1> HIDE DEF new
<1> QED BY <1>6, <1>7, <1>8

LEMMA IngestMeaning ==
    ASSUME MeaningInv, NEW n \in Namespaces, NEW source, Ingest(n, source)
    PROVE  MeaningInv'
<1> DEFINE Written(keys) ==
             facts' = [facts EXCEPT ![n] = [key \in keys \union DOMAIN facts[n] |->
                         IF key \in keys THEN graph[n].forward[key].mapper ELSE facts[n][key]]]
<1>0. PICK keys \in SUBSET KeysOf(graph[n], source) :
        Written(keys) /\ \E order \in SetToSeqs(keys) : TRUE
  BY DEF Ingest
<1>1. PICK order \in SetToSeqs(keys) : TRUE
  BY <1>0
<1>2. graph' = graph
  BY DEF Ingest, sessionVars
<1>3. keys \subseteq DOMAIN graph[n].forward /\ (keys # {} => graph[n] \in GraphsOf(n))
  BY IngestedKeys
<1>4. PICK new \in Seq(AllEntries) : pending' = pending \o new /\ next_id' = next_id + Len(new)
  BY IngestAppends
<1>5. next_id' \in Nat
  BY <1>4, LenProperties DEF MeaningInv
<1>6. pending' \in Seq(AllEntries)
  BY <1>4, ConcatProperties DEF MeaningInv
<1>7. ASSUME NEW m \in Namespaces, NEW key \in DOMAIN facts'[m]
      PROVE  \E g \in GraphsOf(m) :
                 key \in DOMAIN g.forward /\ g.forward[key].mapper = facts'[m][key]
  <2>1. CASE m # n
    BY <1>0, <2>1 DEF MeaningInv
  <2>2. CASE m = n /\ key \in keys
    BY <1>0, <1>3, <2>2 DEF MeaningInv
  <2>3. CASE m = n /\ key \notin keys
    BY <1>0, <2>3 DEF MeaningInv
  <2> QED BY <2>1, <2>2, <2>3
<1>8. DOMAIN facts' = Namespaces
  BY <1>0 DEF MeaningInv
<1> QED BY <1>2, <1>5, <1>6, <1>7, <1>8 DEF MeaningInv

(* A run that finishes removes the first entry with its id.                *)
LEMMA FinishRemoves ==
    ASSUME pending \in Seq(AllEntries), NEW n \in Namespaces, Finish(n)
    PROVE  \/ /\ pending' = pending
              /\ \A i \in DOMAIN pending : pending[i].id # run[n].id
           \/ \E i \in DOMAIN pending : pending[i].id = run[n].id /\ pending' = RemoveAt(pending, i)
<1> DEFINE len == Len(pending)
           I == {i \in 1..len : pending[i].id = run[n].id}
<1>1. pending' = IF I = {} THEN pending ELSE RemoveAt(pending, Min(I))
  BY DEF Finish, RemoveFirstMatch, SelectInSeq
<1>2. len \in Nat /\ DOMAIN pending = 1..len
  BY LenProperties
<1> HIDE DEF len
<1>3. CASE I = {}
  <2>1. \A i \in DOMAIN pending : pending[i].id # run[n].id
    BY <1>2, <1>3
  <2> HIDE DEF I
  <2> QED BY <1>1, <1>3, <2>1
<1>4. CASE I # {}
  <2>1. I \subseteq Nat
    BY <1>2
  <2>2. Min(I) \in I
    <3> HIDE DEF I
    <3> QED BY <1>4, <2>1, MinIsLeast
  <2>3. Min(I) \in DOMAIN pending /\ pending[Min(I)].id = run[n].id
    BY <1>2, <2>2
  <2> HIDE DEF I
  <2> QED BY <1>1, <1>4, <2>3
<1> QED BY <1>3, <1>4

LEMMA FinishMeaning ==
    ASSUME MeaningInv, NEW n \in Namespaces, Finish(n)
    PROVE  MeaningInv'
<1>1. pending' \in Seq(AllEntries)
  <2>1. CASE pending' = pending
    BY <2>1 DEF MeaningInv
  <2>2. CASE \E i \in DOMAIN pending : pending' = RemoveAt(pending, i)
    <3>1. PICK i \in 1..Len(pending) : pending' = RemoveAt(pending, i)
      BY <2>2, LenProperties DEF MeaningInv
    <3> QED BY <3>1, RemoveAtProperties DEF MeaningInv
  <2> QED BY <2>1, <2>2, FinishRemoves DEF MeaningInv
<1> QED BY <1>1 DEF Finish, MeaningInv, sessionVars

LEMMA MeaningStep == MeaningInv /\ [Next]_vars => MeaningInv'
<1> SUFFICES ASSUME MeaningInv, [Next]_vars PROVE MeaningInv'
  OBVIOUS
<1>1. ASSUME UNCHANGED <<graph, facts, pending, next_id>> PROVE MeaningInv'
  BY <1>1 DEF MeaningInv
<1>2. ASSUME NEW n \in Namespaces, NEW m \in Modules[n], Deploy(n, m) PROVE MeaningInv'
  <2>1. PICK g \in GraphsOf(n) : graph' = [graph EXCEPT ![n] = g]
    BY <1>2 DEF Deploy, Loaded, GraphsOf
  <2>2. UNCHANGED <<facts, pending, next_id>>
    BY <1>2 DEF Deploy, workVars
  <2> QED BY <2>1, <2>2 DEF MeaningInv
<1>3. ASSUME NEW n \in Namespaces, Work(n) PROVE MeaningInv'
  BY <1>1, <1>3, FinishMeaning
     DEF Work, Begin, Dispatch, RuleReturns, StoreCall, sessionVars, workVars
<1>4. ASSUME NEW n \in Namespaces, RuleStores(n) \/ SessionFails(n) PROVE MeaningInv'
  BY <1>1, <1>4 DEF RuleStores, SessionFails, sessionVars, workVars
<1>5. CASE Restart
  <2>1. graph' = [n \in Namespaces |-> NoGraph] /\ UNCHANGED <<facts, pending, next_id>>
    BY <1>5 DEF Restart, workVars
  <2> QED BY <2>1 DEF MeaningInv
<1>6. CASE UNCHANGED vars
  BY <1>1, <1>6 DEF vars, sessionVars, workVars
<1> QED BY <1>2, <1>3, <1>4, <1>5, <1>6, IngestMeaning DEF Next

LEMMA MeaningInvariant == Spec => []MeaningInv
<1>1. Init => MeaningInv
  BY EmptySeq DEF Init, MeaningInv
<1> QED BY <1>1, MeaningStep, PTL DEF Spec

LEMMA MeaningInvKeeps == VersionsAgree /\ MeaningInv => FactsKeepMeaning
<1> SUFFICES ASSUME VersionsAgree, MeaningInv, NEW n \in Namespaces
             PROVE  LET forward == graph[n].forward IN
               /\ \A key \in DOMAIN facts[n] \intersect DOMAIN forward :
                    forward[key].mapper = facts[n][key]
               /\ \A i \in DOMAIN pending :
                    pending[i].namespace = n /\ pending[i].key \in DOMAIN forward
                       => forward[pending[i].key].mapper = pending[i].meaning
  BY DEF FactsKeepMeaning
<1>1. ASSUME NEW g \in GraphsOf(n), NEW key \in DOMAIN g.forward,
             key \in DOMAIN graph[n].forward
      PROVE  graph[n].forward[key].mapper = g.forward[key].mapper
  <2>1. graph[n] \in GraphsOf(n)
    BY <1>1 DEF MeaningInv, NoGraph
  <2> QED BY <1>1, <2>1 DEF VersionsAgree
<1>2. ASSUME NEW key \in DOMAIN facts[n] \intersect DOMAIN graph[n].forward
      PROVE  graph[n].forward[key].mapper = facts[n][key]
  BY <1>1 DEF MeaningInv
<1>3. ASSUME NEW i \in DOMAIN pending, pending[i].namespace = n,
             pending[i].key \in DOMAIN graph[n].forward
      PROVE  graph[n].forward[pending[i].key].mapper = pending[i].meaning
  <2>1. pending[i] \in AllEntries
    BY LenProperties, ElementOfSeq DEF MeaningInv
  <2> QED BY <1>1, <1>3, <2>1, EntryFields
<1> QED BY <1>2, <1>3

(* If the versions of each namespace's module agree on the keys they have  *)
(* in common, then no order of deployments, payloads, runs, failures and   *)
(* restarts hands a stored fact or a pending entry of one component to the *)
(* rules of another (module.zig GraphBuilder, events.zig                   *)
(* ModuleSession.init).                                                    *)
THEOREM MeaningKept == VersionsAgree => (Spec => []FactsKeepMeaning)
<1> SUFFICES ASSUME VersionsAgree PROVE Spec => []FactsKeepMeaning
  OBVIOUS
<1>1. MeaningInv => FactsKeepMeaning
  BY MeaningInvKeeps
<1> QED BY <1>1, MeaningInvariant, PTL

-----------------------------------------------------------------------------
(* Versions that only add sources agree on the keys they have in common.   *)
LEMMA AppendingAgrees ==
    (\A n \in Namespaces : VersionsAppend(Modules[n])) => VersionsAgree
<1> SUFFICES ASSUME \A n \in Namespaces : VersionsAppend(Modules[n]),
                    NEW n \in Namespaces, NEW g \in GraphsOf(n), NEW h \in GraphsOf(n),
                    NEW key \in DOMAIN g.forward \intersect DOMAIN h.forward
             PROVE  g.forward[key].mapper = h.forward[key].mapper
  BY DEF VersionsAgree
<1>1. PICK m1 \in Modules[n] : g \in Graphs(m1)
  BY DEF GraphsOf
<1>2. PICK m2 \in Modules[n] : h \in Graphs(m2)
  BY DEF GraphsOf
<1>3. IsDescriptor(m1) /\ IsDescriptor(m2)
  BY NamespaceAssumption
<1>4. GraphIs(m1, g) /\ GraphIs(m2, h)
  BY <1>1, <1>2, <1>3, GraphsAre
<1>5. /\ g.forward[key].mapper = SourcesRead(m1).components[key]
      /\ h.forward[key].mapper = SourcesRead(m2).components[key]
      /\ key \in DOMAIN SourcesRead(m1).components /\ key \in DOMAIN SourcesRead(m2).components
  BY <1>4 DEF GraphIs
<1>6. IsPrefix(m1.sources, m2.sources) \/ IsPrefix(m2.sources, m1.sources)
  BY DEF VersionsAppend
<1> QED BY <1>3, <1>5, <1>6, LaterVersion

(* A redeployment that only adds sources, after the ones there were, never *)
(* makes a stored fact or a pending entry one of another component         *)
(* (module.zig GraphBuilder, events.zig ModuleSession.init).               *)
THEOREM AppendingKeepsMeaning ==
    (\A n \in Namespaces : VersionsAppend(Modules[n])) => (Spec => []FactsKeepMeaning)
BY AppendingAgrees, MeaningKept

-----------------------------------------------------------------------------
(* Sessions and their runs.                                                *)

RuleNames(m) == {m.rules[i].name : i \in DOMAIN m.rules}
Runs(m) == [pc : {"dispatch", "rule"}, id : Nat, todo : Seq(RulesOf(m)), fired : Seq(RuleNames(m))]

(* A session that runs, and only such a session has a run, has a graph of  *)
(* its module.                                                             *)
SessionsTyped ==
    \A n \in Namespaces :
        /\ module[n] \in Modules[n] \union {NoModule}
        /\ session[n] \in {"none", "running", "ended"}
        /\ session[n] = "running" => module[n] \in Modules[n] /\ graph[n] \in Graphs(module[n])
        /\ run[n] = Idle \/ (session[n] = "running" /\ run[n] \in Runs(module[n]))

(* Pending ids are given out in order.                                     *)
IdsCounted ==
    /\ \A i \in DOMAIN pending : pending[i].id < next_id
    /\ \A i, j \in DOMAIN pending : i < j => pending[i].id < pending[j].id

HostInv == ModulesNamed /\ StoreInv /\ MeaningInv /\ SessionsTyped /\ IdsCounted

(* The candidate picked first is the one of the highest priority.          *)
LEMMA NextCandidateFirst ==
    ASSUME NEW g, NEW S, NEW todo \in Seq(S), todo # <<>>,
           \A id \in S : g.reverse[id].priority \in Int
    PROVE  /\ NextCandidate(g, todo) \in 1..Len(todo)
           /\ \A j \in 1..Len(todo) : g.reverse[todo[NextCandidate(g, todo)]].priority
                                        >= g.reverse[todo[j]].priority
<1> DEFINE n == Len(todo)
           p(i) == g.reverse[todo[i]].priority
           Before(i, j) == p(i) > p(j) \/ (p(i) = p(j) /\ i <= j)
           First(k, i) == \A j \in 1..k : Before(i, j)
           P == {k \in 0..n : k = 0 \/ \E i \in 1..k : First(k, i)}
<1>1. n \in Nat \ {0} /\ DOMAIN todo = 1..n /\ \A i \in 1..n : p(i) \in Int
  <2>1. \A i \in 1..n : todo[i] \in S
    BY ElementOfSeq
  <2> QED BY <2>1, EmptySeq, LenProperties
<1> HIDE DEF n
<1>2. 0 \in P
  BY <1>1
<1>3. ASSUME NEW k \in 1..n, k - 1 \in P PROVE k \in P
  <2>0. k \in 0..n /\ p(k) \in Int
    BY <1>1
  <2>1. CASE k = 1
    <3>1. First(k, 1)
      BY <1>1, <2>1
    <3> QED BY <2>0, <2>1, <3>1
  <2>2. CASE k # 1
    <3>1. PICK a \in 1..(k - 1) : First(k - 1, a)
      <4> HIDE DEF First
      <4> QED BY <1>1, <1>3, <2>2
    <3>2. a \in 1..k /\ p(a) \in Int /\ k \in 1..k
      BY <1>1, <2>0
    <3> HIDE DEF p
    <3>3. CASE p(a) >= p(k)
      <4>1. \A j \in 1..k : j \in 1..(k - 1) \/ j = k
        BY <1>1
      <4>2. First(k, a)
        BY <3>1, <3>2, <3>3, <2>0, <4>1
      <4> QED BY <2>0, <3>2, <4>2
    <3>4. CASE p(k) > p(a)
      <4>1. \A j \in 1..k : p(j) \in Int /\ (j \in 1..(k - 1) \/ j = k)
        BY <1>1
      <4>2. First(k, k)
        BY <2>0, <3>1, <3>2, <3>4, <4>1
      <4> QED BY <2>0, <3>2, <4>2
    <3> QED BY <2>0, <3>2, <3>3, <3>4
  <2> QED BY <2>1, <2>2
<1>4. \A k \in 0..n : k \in P
  <2> HIDE DEF P
  <2> QED BY <1>1, <1>2, <1>3, IntervalInduction
<1>5. \E i \in 1..n : First(n, i)
  <2>1. n \in 0..n /\ n # 0
    BY <1>1
  <2> HIDE DEF First
  <2> QED BY <1>4, <2>1
<1> DEFINE c == NextCandidate(g, todo)
<1>6. c \in 1..n /\ First(n, c)
  <2>1. c = CHOOSE i \in 1..n : First(n, i)
    BY <1>1 DEF NextCandidate
  <2> HIDE DEF First, c
  <2> QED BY <1>5, <2>1
<1> HIDE DEF c
<1>7. \A j \in 1..n : p(c) >= p(j)
  BY <1>1, <1>6
<1> QED BY <1>6, <1>7 DEF n, c

LEMMA CandidatesTyped ==
    ASSUME NEW m, IsDescriptor(m), NEW g \in Graphs(m), NEW key
    PROVE  Candidates(g, key) \in Seq(RulesOf(m))
<1>1. <<>> \in Seq(RulesOf(m))
  BY EmptySeq
<1> QED BY <1>1, GraphsAre DEF GraphIs, Candidates

(* The place of a namespace's oldest entry.                                *)
IsOldest(i, n) ==
    /\ i \in DOMAIN pending /\ pending[i].namespace = n
    /\ \A j \in DOMAIN pending : j < i => pending[j].namespace # n

LEMMA OldestEntry ==
    ASSUME pending \in Seq(AllEntries), NEW n
    PROVE  /\ Oldest(n) = 0 \/ IsOldest(Oldest(n), n)
           /\ \A i : IsOldest(i, n) => Oldest(n) = i
<1> DEFINE len == Len(pending)
           I == {i \in 1..len : pending[i].namespace = n}
<1>1. Oldest(n) = IF I # {} THEN Min(I) ELSE 0
  BY DEF Oldest, SelectInSeq
<1>2. len \in Nat /\ DOMAIN pending = 1..len
  BY LenProperties
<1> HIDE DEF len
<1>3. I \subseteq Nat
  BY <1>2
<1>4. ASSUME I # {} PROVE Min(I) \in I /\ \A y \in I : Min(I) <= y
  <2> HIDE DEF I
  <2> QED BY <1>3, <1>4, MinIsLeast
<1>5. CASE I = {}
  <2>1. \A i : ~IsOldest(i, n)
    BY <1>2, <1>5 DEF IsOldest
  <2> QED BY <1>1, <1>5, <2>1
<1>6. CASE I # {}
  <2> DEFINE k == Min(I)
  <2>1. k \in I /\ \A y \in I : k <= y
    BY <1>4, <1>6
  <2> HIDE DEF k
  <2>2. k \in DOMAIN pending /\ pending[k].namespace = n /\ k \in Nat
    BY <1>2, <2>1
  <2>3. ASSUME NEW j \in DOMAIN pending, j < k PROVE pending[j].namespace # n
    BY <1>2, <2>1, <2>2, <2>3
  <2>4. IsOldest(k, n)
    BY <2>2, <2>3 DEF IsOldest
  <2>5. ASSUME NEW i, IsOldest(i, n) PROVE i = k
    <3>1. i \in I /\ i \in Nat
      BY <1>2, <2>5 DEF IsOldest
    <3>2. k <= i /\ ~(k < i)
      BY <2>1, <2>2, <2>5, <3>1 DEF IsOldest
    <3> QED BY <2>2, <3>1, <3>2
  <2> QED BY <1>1, <1>6, <2>4, <2>5 DEF k
<1> QED BY <1>5, <1>6

(* A run that begins is about the namespace's oldest entry.                *)
RunOf(e, g) == [pc |-> "dispatch", id |-> e.id, todo |-> Candidates(g, e.key), fired |-> <<>>]

LEMMA BeginStep ==
    ASSUME pending \in Seq(AllEntries), NEW n \in Namespaces, Begin(n)
    PROVE  /\ IsOldest(Oldest(n), n)
           /\ run' = [run EXCEPT ![n] = RunOf(pending[Oldest(n)], graph[n])]
<1> DEFINE s == NextPendingDirtyFor(n)
           e == pending[Oldest(n)]
<1>1. PICK i \in DOMAIN s : run' = [run EXCEPT ![n] = RunOf(s[i], graph[n])]
  BY DEF Begin, RunOf
<1>2. Oldest(n) # 0 /\ s[i] = e
  <2>1. CASE Oldest(n) = 0
    BY <1>1, <2>1 DEF NextPendingDirtyFor
  <2>2. CASE Oldest(n) # 0
    <3>1. s = <<e>>
      BY <2>2 DEF NextPendingDirtyFor
    <3> HIDE DEF e
    <3>2. i = 1
      BY <1>1, <3>1
    <3> QED BY <2>2, <3>1, <3>2
  <2> QED BY <2>1, <2>2
<1> QED BY <1>1, <1>2, OldestEntry

(* A rule that is invoked leaves the candidates for the list of those that *)
(* were.                                                                   *)
NameOf(m, id) == m.rules[id + 1].name
PriorityIn(m, id) == m.rules[id + 1].priority
Invoked(r, m, i) == [r EXCEPT !.pc = "rule", !.todo = RemoveAt(r.todo, i),
                              !.fired = Append(r.fired, NameOf(m, r.todo[i]))]

LEMMA ActiveRun ==
    ASSUME ModulesNamed, SessionsTyped, NEW n \in Namespaces, run[n].pc # "idle"
    PROVE  /\ session[n] = "running" /\ module[n] \in Modules[n] /\ IsDescriptor(module[n])
           /\ graph[n] \in Graphs(module[n]) /\ run[n] \in Runs(module[n])
           /\ run[n].todo \in Seq(RulesOf(module[n])) /\ run[n].fired \in Seq(RuleNames(module[n]))
           /\ run[n] = [pc |-> run[n].pc, id |-> run[n].id, todo |-> run[n].todo,
                        fired |-> run[n].fired]
<1>1. run[n] # Idle
  BY DEF Idle
<1>2. session[n] = "running" /\ run[n] \in Runs(module[n])
  BY <1>1 DEF SessionsTyped
<1>3. module[n] \in Modules[n] /\ graph[n] \in Graphs(module[n])
  BY <1>2 DEF SessionsTyped
<1>4. IsDescriptor(module[n])
  BY <1>3, NamespaceAssumption
<1> QED BY <1>2, <1>3, <1>4 DEF Runs

LEMMA DispatchStep ==
    ASSUME ModulesNamed, SessionsTyped, NEW n \in Namespaces, Dispatch(n)
    PROVE  LET m == module[n]
               todo == run[n].todo
           IN  \E i \in 1..Len(todo) :
                 /\ run' = [run EXCEPT ![n] = Invoked(run[n], m, i)]
                 /\ \A j \in 1..Len(todo) : PriorityIn(m, todo[i]) >= PriorityIn(m, todo[j])
                 /\ Invoked(run[n], m, i) \in Runs(m)
                 /\ NameOf(m, todo[i]) \in RuleNames(m) /\ todo[i] \in RulesOf(m)
<1> DEFINE m == module[n]
           g == graph[n]
           r == run[n]
           todo == run[n].todo
           i == NextCandidate(g, todo)
<1>1. /\ r \in Runs(m) /\ todo \in Seq(RulesOf(m)) /\ r.fired \in Seq(RuleNames(m))
      /\ g \in Graphs(m) /\ IsDescriptor(m)
      /\ r = [pc |-> r.pc, id |-> r.id, todo |-> r.todo, fired |-> r.fired]
  BY ActiveRun DEF Dispatch
<1>2. \A id \in RulesOf(m) : /\ id + 1 \in DOMAIN m.rules
                             /\ g.reverse[id].entrypoint = NameOf(m, id)
                             /\ g.reverse[id].priority = PriorityIn(m, id)
                             /\ PriorityIn(m, id) \in Int
  BY <1>1, GraphsAre DEF GraphIs, NameOf, PriorityIn, IsDescriptor
<1>3. todo # <<>> /\ run' = [run EXCEPT ![n].pc = "rule", ![n].todo = RemoveAt(todo, i),
                        ![n].fired = Append(r.fired, g.reverse[todo[i]].entrypoint)]
  BY DEF Dispatch
<1>4. /\ i \in 1..Len(todo)
      /\ \A j \in 1..Len(todo) : g.reverse[todo[i]].priority >= g.reverse[todo[j]].priority
  <2>1. \A id \in RulesOf(m) : g.reverse[id].priority \in Int
    BY <1>2
  <2> HIDE DEF g, todo, m
  <2> QED BY <1>1, <1>3, <2>1, NextCandidateFirst DEF i
<1> HIDE DEF i
<1>5. \A j \in 1..Len(todo) : todo[j] \in RulesOf(m)
  BY <1>1, ElementOfSeq
<1>6. \A j \in 1..Len(todo) : PriorityIn(m, todo[i]) >= PriorityIn(m, todo[j])
  BY <1>2, <1>4, <1>5
<1>7. NameOf(m, todo[i]) \in RuleNames(m) /\ g.reverse[todo[i]].entrypoint = NameOf(m, todo[i])
  BY <1>2, <1>4, <1>5 DEF NameOf, RuleNames
<1>8. run' = [run EXCEPT ![n] = Invoked(r, m, i)]
  <2>1. n \in DOMAIN run
    BY DEF ModulesNamed
  <2> QED BY <1>3, <1>7, <2>1 DEF Invoked
<1>9. Invoked(r, m, i) \in Runs(m)
  <2>1. RemoveAt(todo, i) \in Seq(RulesOf(m))
    BY <1>1, <1>4, RemoveAtProperties
  <2>2. Append(r.fired, NameOf(m, todo[i])) \in Seq(RuleNames(m))
    BY <1>1, <1>7, AppendProperties
  <2> QED BY <1>1, <2>1, <2>2 DEF Invoked, Runs
<1> QED BY <1>4, <1>5, <1>6, <1>7, <1>8, <1>9

LEMMA SessionsTypedStep ==
    ModulesNamed /\ MeaningInv /\ SessionsTyped /\ [Next]_vars => SessionsTyped'
<1> SUFFICES ASSUME ModulesNamed, MeaningInv, SessionsTyped, [Next]_vars PROVE SessionsTyped'
  OBVIOUS
<1> DEFINE Typed(n) == /\ module[n] \in Modules[n] \union {NoModule}
                       /\ session[n] \in {"none", "running", "ended"}
                       /\ session[n] = "running" =>
                            module[n] \in Modules[n] /\ graph[n] \in Graphs(module[n])
                       /\ run[n] = Idle \/ (session[n] = "running" /\ run[n] \in Runs(module[n]))
<1>0. \A n \in Namespaces : Typed(n)
  BY DEF SessionsTyped
<1>1. ASSUME UNCHANGED <<module, session, graph, run>> PROVE SessionsTyped'
  BY <1>1 DEF SessionsTyped
<1>2. ASSUME NEW n \in Namespaces, UNCHANGED <<module, session, graph>>,
             NEW r, run' = [run EXCEPT ![n] = r],
             r = Idle \/ (session[n] = "running" /\ r \in Runs(module[n]))
      PROVE  SessionsTyped'
  BY <1>2 DEF SessionsTyped, ModulesNamed
<1>3. ASSUME NEW n \in Namespaces, NEW m \in Modules[n], Deploy(n, m) PROVE SessionsTyped'
  <2>1. PICK g \in Graphs(m) : graph' = [graph EXCEPT ![n] = g]
    BY <1>3 DEF Deploy, Loaded
  <2>2. /\ run' = run /\ run[n] = Idle /\ module' = [module EXCEPT ![n] = m]
        /\ session' = [session EXCEPT ![n] = "running"]
    BY <1>3 DEF Deploy
  <2> QED BY <2>1, <2>2 DEF SessionsTyped, ModulesNamed, MeaningInv
<1>4. ASSUME NEW n \in Namespaces, Begin(n) PROVE SessionsTyped'
  <2> DEFINE e == pending[Oldest(n)]
             r == RunOf(e, graph[n])
  <2>1. IsOldest(Oldest(n), n) /\ run' = [run EXCEPT ![n] = r]
    BY <1>4, BeginStep DEF MeaningInv
  <2>2. session[n] = "running" /\ UNCHANGED <<module, session, graph>>
    BY <1>4 DEF Begin, sessionVars
  <2>3. e \in AllEntries
    BY <2>1, LenProperties, ElementOfSeq DEF IsOldest, MeaningInv
  <2>4. e.id \in Nat
    BY <2>3, EntryFields
  <2>5. r.todo \in Seq(RulesOf(module[n]))
    <3>1. module[n] \in Modules[n] /\ graph[n] \in Graphs(module[n])
      BY <2>2 DEF SessionsTyped
    <3>2. IsDescriptor(module[n])
      BY <3>1, NamespaceAssumption
    <3> QED BY <3>1, <3>2, CandidatesTyped DEF RunOf
  <2>6. r \in Runs(module[n])
    <3>1. <<>> \in Seq(RuleNames(module[n]))
      BY EmptySeq
    <3> QED BY <2>4, <2>5, <3>1 DEF RunOf, Runs
  <2> HIDE DEF r
  <2> QED BY <1>2, <2>1, <2>2, <2>6
<1>5. ASSUME NEW n \in Namespaces, Dispatch(n) PROVE SessionsTyped'
  <2>1. PICK i \in 1..Len(run[n].todo) :
          /\ run' = [run EXCEPT ![n] = Invoked(run[n], module[n], i)]
          /\ Invoked(run[n], module[n], i) \in Runs(module[n])
    BY <1>5, DispatchStep
  <2>2. session[n] = "running"
    BY <1>5, ActiveRun DEF Dispatch
  <2>3. UNCHANGED <<module, session, graph>>
    BY <1>5 DEF Dispatch, sessionVars
  <2> QED BY <1>2, <2>1, <2>2, <2>3
<1>6. ASSUME NEW n \in Namespaces, RuleReturns(n) PROVE SessionsTyped'
  <2> DEFINE r == [run[n] EXCEPT !.pc = "dispatch"]
  <2>1. UNCHANGED <<module, session, graph>> /\ run' = [run EXCEPT ![n] = r] /\ run[n].pc = "rule"
    BY <1>6 DEF RuleReturns, sessionVars, ModulesNamed
  <2>2. session[n] = "running" /\ run[n] \in Runs(module[n])
    BY <2>1, ActiveRun
  <2>3. r \in Runs(module[n])
    BY <2>2 DEF Runs
  <2> HIDE DEF r
  <2> QED BY <1>2, <2>1, <2>2, <2>3
<1>7. ASSUME NEW n \in Namespaces, Finish(n) PROVE SessionsTyped'
  <2>1. UNCHANGED <<module, session, graph>> /\ run' = [run EXCEPT ![n] = Idle]
    BY <1>7 DEF Finish, sessionVars
  <2> QED BY <1>2, <2>1
<1>8. ASSUME NEW n \in Namespaces, SessionFails(n) PROVE SessionsTyped'
  <2>1. UNCHANGED <<module, graph>> /\ run' = [run EXCEPT ![n] = Idle]
        /\ session' = [session EXCEPT ![n] = "ended"]
    BY <1>8 DEF SessionFails
  <2> QED BY <2>1 DEF SessionsTyped, ModulesNamed
<1>9. CASE Restart
  <2>1. /\ module' = [n \in Namespaces |-> NoModule] /\ session' = [n \in Namespaces |-> "none"]
        /\ run' = [n \in Namespaces |-> Idle]
    BY <1>9 DEF Restart
  <2> QED BY <2>1 DEF SessionsTyped
<1>10. ASSUME NEW n \in Namespaces, StoreCall(n) \/ RuleStores(n) \/ \E source : Ingest(n, source)
       PROVE  SessionsTyped'
  BY <1>1, <1>10 DEF StoreCall, RuleStores, Ingest, sessionVars
<1>11. CASE UNCHANGED vars
  BY <1>1, <1>11 DEF vars, sessionVars
<1> QED BY <1>3, <1>4, <1>5, <1>6, <1>7, <1>8, <1>9, <1>10, <1>11 DEF Next, Work

(* What the pending list loses and gains.                                  *)
LEMMA PendingStep ==
    ASSUME MeaningInv, [Next]_vars
    PROVE  \/ UNCHANGED <<pending, next_id>>
           \/ \E n \in Namespaces : \E source : Ingest(n, source)
           \/ \E n \in Namespaces, i \in DOMAIN pending :
                /\ Finish(n) /\ pending[i].id = run[n].id
                /\ pending' = RemoveAt(pending, i) /\ next_id' = next_id
<1>1. ASSUME NEW n \in Namespaces, Finish(n)
      PROVE  \/ UNCHANGED <<pending, next_id>>
             \/ \E i \in DOMAIN pending :
                  pending[i].id = run[n].id /\ pending' = RemoveAt(pending, i) /\ next_id' = next_id
  BY <1>1, FinishRemoves DEF MeaningInv, Finish
<1>2. ASSUME NEW n \in Namespaces,
             \/ \E m \in Modules[n] : Deploy(n, m)
             \/ Begin(n) \/ Dispatch(n) \/ RuleReturns(n) \/ StoreCall(n)
             \/ RuleStores(n) \/ SessionFails(n)
      PROVE  UNCHANGED <<pending, next_id>>
  BY <1>2 DEF Deploy, Begin, Dispatch, RuleReturns, StoreCall, RuleStores, SessionFails, workVars
<1>3. CASE Restart
  BY <1>3 DEF Restart, workVars
<1>4. CASE UNCHANGED vars
  BY <1>4 DEF vars, workVars
<1> QED BY <1>1, <1>2, <1>3, <1>4 DEF Next, Work

(* New entries get new ids, and those that stay keep their order.          *)
LEMMA PendingIds ==
    ASSUME pending \in Seq(AllEntries)
    PROVE  /\ Len(pending) \in Nat /\ DOMAIN pending = 1..Len(pending)
           /\ \A i \in 1..Len(pending) : pending[i] \in AllEntries /\ pending[i].id \in Nat
<1>1. \A i \in 1..Len(pending) : pending[i] \in AllEntries
  BY ElementOfSeq
<1> QED BY <1>1, EntryFields, LenProperties

LEMMA IngestPlaces ==
    ASSUME MeaningInv, NEW n \in Namespaces, NEW source, Ingest(n, source)
    PROVE  \E k \in Nat :
             /\ DOMAIN pending' = 1..(Len(pending) + k) /\ next_id' = next_id + k
             /\ \A i \in 1..Len(pending) : pending'[i] = pending[i]
             /\ \A i \in (Len(pending) + 1)..(Len(pending) + k) :
                  /\ pending'[i].id = next_id + (i - Len(pending)) - 1
                  /\ pending'[i].namespace = n
<1>1. PICK new \in Seq(AllEntries) :
        /\ pending' = pending \o new /\ next_id' = next_id + Len(new)
        /\ \A i \in 1..Len(new) : new[i].id = next_id + i - 1 /\ new[i].namespace = n
  BY IngestAppends
<1> DEFINE k == Len(new)
           len == Len(pending)
<1>2. k \in Nat /\ len \in Nat /\ DOMAIN pending = 1..len /\ pending \in Seq(AllEntries)
  BY LenProperties DEF MeaningInv
<1>3. /\ pending' \in Seq(AllEntries) /\ Len(pending') = len + k
      /\ \A i \in 1..(len + k) : pending'[i] = IF i <= len THEN pending[i] ELSE new[i - len]
  BY <1>1, <1>2, ConcatProperties
<1>4. DOMAIN pending' = 1..(len + k)
  BY <1>3, LenProperties
<1>5. ASSUME NEW i \in (len + 1)..(len + k)
      PROVE  pending'[i].id = next_id + (i - len) - 1 /\ pending'[i].namespace = n
  <2>1. i - len \in 1..k /\ i \in 1..(len + k) /\ ~(i <= len)
    BY <1>2
  <2> HIDE DEF len, k
  <2> QED BY <1>1, <1>3, <2>1 DEF k
<1>6. \A i \in 1..len : pending'[i] = pending[i]
  BY <1>2, <1>3
<1> QED BY <1>1, <1>2, <1>4, <1>5, <1>6

LEMMA IdsCountedStep == MeaningInv /\ IdsCounted /\ [Next]_vars => IdsCounted'
<1> SUFFICES ASSUME MeaningInv, IdsCounted, [Next]_vars PROVE IdsCounted'
  OBVIOUS
<1> DEFINE len == Len(pending)
           id(i) == pending[i].id
<1>1. /\ len \in Nat /\ DOMAIN pending = 1..len /\ next_id \in Nat
      /\ \A i \in 1..len : id(i) \in Nat
  BY PendingIds DEF MeaningInv
<1>2. /\ \A i \in 1..len : id(i) < next_id
      /\ \A i, j \in 1..len : i < j => id(i) < id(j)
  BY <1>1 DEF IdsCounted
<1>3. CASE UNCHANGED <<pending, next_id>>
  BY <1>3 DEF IdsCounted
<1>4. ASSUME NEW n \in Namespaces, NEW source, Ingest(n, source) PROVE IdsCounted'
  <2>1. PICK k \in Nat :
          /\ DOMAIN pending' = 1..(len + k) /\ next_id' = next_id + k
          /\ \A i \in 1..len : pending'[i] = pending[i]
          /\ \A i \in (len + 1)..(len + k) : pending'[i].id = next_id + (i - len) - 1
    BY <1>4, IngestPlaces
  <2>2. ASSUME NEW i \in 1..(len + k)
        PROVE  \/ i \in 1..len /\ pending'[i].id = id(i)
               \/ i \in (len + 1)..(len + k) /\ pending'[i].id = next_id + (i - len) - 1
    BY <1>1, <2>1
  <2> HIDE DEF len, id
  <2>3. \A i \in 1..(len + k) : pending'[i].id < next_id'
    BY <1>1, <1>2, <2>1, <2>2
  <2>4. ASSUME NEW i \in 1..(len + k), NEW j \in 1..(len + k), i < j
        PROVE  pending'[i].id < pending'[j].id
    <3>1. CASE j \in 1..len
      BY <1>1, <1>2, <2>2, <2>4, <3>1
    <3>2. CASE j \notin 1..len
      <4>1. pending'[j].id = next_id + (j - len) - 1 /\ j > len
        BY <1>1, <2>2, <3>2
      <4> QED BY <1>1, <1>2, <2>2, <2>4, <4>1
    <3> QED BY <3>1, <3>2
  <2> QED BY <2>1, <2>3, <2>4 DEF IdsCounted
<1>5. ASSUME NEW k \in DOMAIN pending, pending' = RemoveAt(pending, k), next_id' = next_id
      PROVE  IdsCounted'
  <2>0. k \in 1..len /\ pending \in Seq(AllEntries)
    BY <1>1 DEF MeaningInv
  <2>1. /\ pending' \in Seq(AllEntries) /\ Len(pending') = len - 1
        /\ \A j \in 1..(len - 1) : pending'[j] = IF j < k THEN pending[j] ELSE pending[j + 1]
    BY <1>5, <2>0, RemoveAtProperties
  <2>2. DOMAIN pending' = 1..(len - 1) /\ k \in 1..len
    BY <2>0, <2>1, LenProperties
  <2> DEFINE at(j) == IF j < k THEN j ELSE j + 1
  <2>3. \A j \in 1..(len - 1) : at(j) \in 1..len /\ pending'[j].id = id(at(j))
    BY <1>1, <2>1, <2>2
  <2>4. \A i, j \in 1..(len - 1) : i < j => at(i) < at(j)
    BY <1>1, <2>2
  <2> HIDE DEF len, id, at
  <2>5. \A j \in 1..(len - 1) : pending'[j].id < next_id'
    BY <1>2, <1>5, <2>3
  <2>6. \A i, j \in 1..(len - 1) : i < j => pending'[i].id < pending'[j].id
    BY <1>2, <2>3, <2>4
  <2> QED BY <2>2, <2>5, <2>6 DEF IdsCounted
<1> QED BY <1>3, <1>4, <1>5, PendingStep

LEMMA HostInvHolds == Spec => []HostInv
<1>1. Init => SessionsTyped /\ IdsCounted
  <2> SUFFICES ASSUME Init PROVE SessionsTyped /\ IdsCounted
    OBVIOUS
  <2>1. DOMAIN pending = {}
    BY EmptySeq DEF Init
  <2> QED BY <2>1 DEF Init, SessionsTyped, IdsCounted
<1>2. Spec => [](ModulesNamed /\ StoreInv)
  BY HostInvariant
<1>3. Spec => []MeaningInv
  BY MeaningInvariant
<1>4. ModulesNamed /\ MeaningInv /\ SessionsTyped /\ IdsCounted /\ [Next]_vars
        => (SessionsTyped /\ IdsCounted)'
  BY SessionsTypedStep, IdsCountedStep
<1> QED BY <1>1, <1>2, <1>3, <1>4, PTL DEF Spec, HostInv

(* Types, a session has a graph of its module and only its module's rules  *)
(* to run, and ids are counted (events.zig ModuleSession.init, loop.zig    *)
(* runTimed, wal.zig enqueue).                                             *)
THEOREM NamespaceTypeOK == Spec => []TypeOK
<1>1. HostInv => TypeOK
  <2> SUFFICES ASSUME HostInv PROVE TypeOK
    OBVIOUS
  <2>1. ASSUME NEW n \in Namespaces
        PROVE  /\ module[n] \in Modules[n] \union {NoModule}
               /\ session[n] \in {"none", "running", "ended"}
               /\ run[n].pc \in {"idle", "dispatch", "rule"}
    <3>1. CASE run[n] = Idle
      BY <3>1 DEF HostInv, SessionsTyped, Idle
    <3>2. CASE run[n] \in Runs(module[n])
      BY <3>2 DEF HostInv, SessionsTyped, Runs
    <3> QED BY <3>1, <3>2 DEF HostInv, SessionsTyped
  <2>2. ASSUME NEW n \in Namespaces, run[n].pc # "idle"
        PROVE  ToSet(run[n].todo) \subseteq DOMAIN graph[n].reverse
    <3>1. /\ run[n].todo \in Seq(RulesOf(module[n])) /\ IsDescriptor(module[n])
          /\ graph[n] \in Graphs(module[n])
      BY <2>2, ActiveRun DEF HostInv
    <3>2. DOMAIN graph[n].reverse = RulesOf(module[n])
      BY <3>1, GraphsAre DEF GraphIs
    <3>3. \A i \in DOMAIN run[n].todo : run[n].todo[i] \in RulesOf(module[n])
      BY <3>1, LenProperties, ElementOfSeq
    <3> QED BY <3>2, <3>3 DEF ToSet
  <2> QED BY <2>1, <2>2 DEF TypeOK, HostInv, StoreInv, IdsCounted
<1> QED BY <1>1, HostInvHolds, PTL

-----------------------------------------------------------------------------
(* What a run serves.                                                      *)

(* The versions of every namespace's module keep its work served.          *)
ModulesServe == \A n \in Namespaces : VersionsServe(Modules[n])

(* Where the rules have different names, a name stands for one rule.       *)
LEMMA RuleNamed ==
    ASSUME NEW m, IsDescriptor(m), DistinctNames(m), NEW id \in RulesOf(m)
    PROVE  /\ PriorityOf(m, NameOf(m, id)) = PriorityIn(m, id) /\ PriorityIn(m, id) \in Int
           /\ \A other \in RulesOf(m) : NameOf(m, other) = NameOf(m, id) => other = id
<1> DEFINE len == Len(m.rules)
           k == id + 1
           I == {j \in 1..len : m.rules[j].name = m.rules[k].name}
<1>1. len \in Nat /\ DOMAIN m.rules = 1..len
  <2>1. m.rules \in Seq(ToSet(m.rules))
    BY DEF IsDescriptor, IsSeq
  <2> QED BY <2>1, LenProperties
<1>2. k \in 1..len /\ id \in Int
  BY <1>1 DEF RulesOf
<1>3. I = {k}
  <2>1. \A j \in 1..len : m.rules[j].name = m.rules[k].name => j = k
    BY <1>1, <1>2, NamesDiffer
  <2> HIDE DEF len, k
  <2> QED BY <1>2, <2>1
<1>4. Min(I) = k
  <2>1. I \subseteq Nat /\ I # {}
    <3> HIDE DEF I, k
    <3> QED BY <1>2, <1>3
  <2> HIDE DEF I
  <2>2. Min(I) \in I
    BY <2>1, MinIsLeast
  <2> QED BY <1>3, <2>2
<1>5. PriorityOf(m, NameOf(m, id)) = m.rules[k].priority
  <2>1. PriorityOf(m, NameOf(m, id)) = m.rules[IF I # {} THEN Min(I) ELSE 0].priority
    BY DEF PriorityOf, NameOf, SelectInSeq
  <2>2. I # {}
    <3> HIDE DEF I, k
    <3> QED BY <1>3
  <2> HIDE DEF I, k
  <2> QED BY <1>4, <2>1, <2>2
<1>6. PriorityIn(m, id) = m.rules[k].priority /\ PriorityIn(m, id) \in Int
  BY <1>1, <1>2 DEF PriorityIn, IsDescriptor
<1>7. ASSUME NEW other \in RulesOf(m), NameOf(m, other) = NameOf(m, id) PROVE other = id
  <2>1. other + 1 \in 1..len /\ other \in Int
    BY <1>1 DEF RulesOf
  <2>2. other + 1 = k
    BY <1>1, <1>2, <1>7, <2>1, NamesDiffer DEF NameOf
  <2> QED BY <1>2, <2>1, <2>2
<1> QED BY <1>5, <1>6, <1>7

Left(r, m) == {NameOf(m, id) : id \in ToSet(r.todo)}

(* A run has invoked no rule twice and will not, and no rule before one of *)
(* higher priority.                                                        *)
RunOrdered(r, m) ==
    /\ IsInjective(r.todo)
    /\ \A i, j \in DOMAIN r.fired : i < j =>
         /\ r.fired[i] # r.fired[j]
         /\ PriorityOf(m, r.fired[i]) >= PriorityOf(m, r.fired[j])
    /\ \A i \in DOMAIN r.fired, j \in DOMAIN r.todo :
         /\ r.fired[i] # NameOf(m, r.todo[j])
         /\ PriorityOf(m, r.fired[i]) >= PriorityIn(m, r.todo[j])

LEMMA InvokedOrdered ==
    ASSUME NEW m, IsDescriptor(m), DistinctNames(m), NEW r \in Runs(m), RunOrdered(r, m),
           NEW i \in 1..Len(r.todo),
           \A j \in 1..Len(r.todo) : PriorityIn(m, r.todo[i]) >= PriorityIn(m, r.todo[j])
    PROVE  LET s == Invoked(r, m, i)
           IN  RunOrdered(s, m) /\ ToSet(s.fired) \union Left(s, m) = ToSet(r.fired) \union Left(r, m)
<1> DEFINE s == Invoked(r, m, i)
           todo == r.todo
           fired == r.fired
           len == Len(todo)
           k == Len(fired)
           at(j) == IF j < i THEN j ELSE j + 1
           name == NameOf(m, todo[i])
<1>1. /\ todo \in Seq(RulesOf(m)) /\ fired \in Seq(RuleNames(m)) /\ len \in Nat /\ k \in Nat
      /\ DOMAIN todo = 1..len /\ DOMAIN fired = 1..k
      /\ \A j \in 1..len : todo[j] \in RulesOf(m)
  <2>1. todo \in Seq(RulesOf(m)) /\ fired \in Seq(RuleNames(m))
    BY DEF Runs
  <2> HIDE DEF todo, fired
  <2> QED BY <2>1, LenProperties, ElementOfSeq
<1>2. s.todo = RemoveAt(todo, i) /\ s.fired = Append(fired, name)
  <2>1. r = [pc |-> r.pc, id |-> r.id, todo |-> r.todo, fired |-> r.fired]
    BY DEF Runs
  <2> QED BY <2>1 DEF Invoked
<1> HIDE DEF s, todo, fired
<1>3. /\ name \in RuleNames(m) /\ PriorityOf(m, name) = PriorityIn(m, todo[i])
      /\ \A j \in 1..len : PriorityIn(m, todo[j]) \in Int
      /\ \A j \in 1..len : NameOf(m, todo[j]) = name => todo[j] = todo[i]
  <2>1. todo[i] \in RulesOf(m)
    BY <1>1 DEF todo
  <2>2. name \in RuleNames(m)
    <3>1. IsSeq(m.rules)
      BY DEF IsDescriptor
    <3>2. Len(m.rules) \in Nat /\ DOMAIN m.rules = 1..Len(m.rules)
      BY <3>1, LenProperties DEF IsSeq
    <3>3. todo[i] + 1 \in DOMAIN m.rules
      BY <2>1, <3>2 DEF RulesOf
    <3> QED BY <3>3 DEF NameOf, RuleNames
  <2> QED BY <1>1, <2>1, <2>2, RuleNamed
<1>4. /\ DOMAIN s.todo = 1..(len - 1) /\ i \in 1..len
      /\ \A j \in 1..(len - 1) : s.todo[j] = todo[at(j)]
  <2>1. i \in 1..len
    BY DEF todo
  <2>2. /\ s.todo \in Seq(RulesOf(m)) /\ Len(s.todo) = len - 1
        /\ \A j \in 1..(len - 1) : s.todo[j] = IF j < i THEN todo[j] ELSE todo[j + 1]
    BY <1>1, <1>2, <2>1, RemoveAtProperties
  <2> QED BY <2>1, <2>2, LenProperties
<1>5. /\ DOMAIN s.fired = 1..(k + 1) /\ s.fired[k + 1] = name
      /\ \A j \in 1..k : s.fired[j] = fired[j]
  BY <1>1, <1>2, <1>3, AppendProperties, LenProperties
<1>6. /\ \A j \in 1..(len - 1) : at(j) \in 1..len /\ at(j) # i
      /\ \A j, l \in 1..(len - 1) : at(j) = at(l) => j = l
      /\ \A l \in 1..len : l # i => \E j \in 1..(len - 1) : at(j) = l
  <2>1. ASSUME NEW l \in 1..len, l # i PROVE \E j \in 1..(len - 1) : at(j) = l
    <3>1. CASE l < i
      <4>1. l \in 1..(len - 1) /\ at(l) = l
        BY <1>1, <1>4, <3>1
      <4> QED BY <4>1
    <3>2. CASE l > i
      <4>1. l - 1 \in 1..(len - 1) /\ at(l - 1) = l
        BY <1>1, <1>4, <3>2
      <4> QED BY <4>1
    <3> QED BY <1>1, <1>4, <2>1, <3>1, <3>2
  <2>2. /\ \A j \in 1..(len - 1) : at(j) \in 1..len /\ at(j) # i
        /\ \A j, l \in 1..(len - 1) : at(j) = at(l) => j = l
    BY <1>1, <1>4
  <2> QED BY <2>1, <2>2
<1> HIDE DEF at, len, k
<1>7. /\ \A j, l \in 1..len : todo[j] = todo[l] => j = l
      /\ \A j, l \in 1..k : j < l =>
           fired[j] # fired[l] /\ PriorityOf(m, fired[j]) >= PriorityOf(m, fired[l])
      /\ \A j \in 1..k, l \in 1..len :
           fired[j] # NameOf(m, todo[l]) /\ PriorityOf(m, fired[j]) >= PriorityIn(m, todo[l])
      /\ \A j \in 1..len : PriorityIn(m, todo[i]) >= PriorityIn(m, todo[j])
  BY <1>1 DEF RunOrdered, IsInjective, todo, fired, len
<1>8. RunOrdered(s, m)
  <2>1. IsInjective(s.todo)
    BY <1>4, <1>6, <1>7 DEF IsInjective
  <2>2. ASSUME NEW a \in 1..(k + 1), NEW b \in 1..(k + 1), a < b
        PROVE  s.fired[a] # s.fired[b] /\ PriorityOf(m, s.fired[a]) >= PriorityOf(m, s.fired[b])
    <3>1. a \in 1..k /\ (b \in 1..k \/ b = k + 1)
      <4>1. k \in Nat
        BY <1>1
      <4>2. a \in Int /\ b \in Int /\ 1 <= a /\ a < b /\ b <= k + 1
        BY <2>2, <4>1
      <4> QED BY <4>1, <4>2
    <3>2. CASE b \in 1..k
      BY <1>5, <1>7, <2>2, <3>1, <3>2
    <3>3. CASE b = k + 1
      <4>1. fired[a] # name /\ PriorityOf(m, fired[a]) >= PriorityIn(m, todo[i])
        BY <1>4, <1>7, <3>1
      <4>2. s.fired[a] = fired[a] /\ s.fired[b] = name
        BY <1>5, <3>1, <3>3
      <4> HIDE DEF name
      <4> QED BY <1>3, <4>1, <4>2
    <3> QED BY <3>1, <3>2, <3>3
  <2>3. ASSUME NEW a \in 1..(k + 1), NEW b \in 1..(len - 1)
        PROVE  s.fired[a] # NameOf(m, s.todo[b]) /\ PriorityOf(m, s.fired[a]) >= PriorityIn(m, s.todo[b])
    <3>1. a \in 1..k \/ a = k + 1
      BY <1>1
    <3>2. s.todo[b] = todo[at(b)] /\ at(b) \in 1..len /\ at(b) # i
      BY <1>4, <1>6
    <3>3. CASE a \in 1..k
      BY <1>5, <1>7, <3>2, <3>3
    <3>4. CASE a = k + 1
      BY <1>3, <1>4, <1>5, <1>7, <3>2, <3>4
    <3> QED BY <3>1, <3>3, <3>4
  <2> QED BY <1>4, <1>5, <2>1, <2>2, <2>3 DEF RunOrdered
<1>9. ToSet(s.fired) = ToSet(fired) \union {name}
  <2>1. \A j \in 1..(k + 1) : j \in 1..k \/ j = k + 1
    BY <1>1
  <2>2. k + 1 \in 1..(k + 1) /\ \A j \in 1..k : j \in 1..(k + 1)
    BY <1>1
  <2> QED BY <1>1, <1>5, <2>1, <2>2 DEF ToSet
<1>10. Left(r, m) = Left(s, m) \union {name}
  <2>1. ToSet(todo) = ToSet(s.todo) \union {todo[i]}
    <3>1. ASSUME NEW l \in 1..len PROVE todo[l] \in ToSet(s.todo) \union {todo[i]}
      <4>1. CASE l = i
        BY <4>1
      <4>2. CASE l # i
        <5>1. PICK j \in 1..(len - 1) : at(j) = l
          BY <1>6, <4>2
        <5>2. s.todo[j] = todo[l]
          BY <1>4, <5>1
        <5> QED BY <1>4, <5>2 DEF ToSet
      <4> QED BY <4>1, <4>2
    <3>2. \A j \in 1..(len - 1) : s.todo[j] \in ToSet(todo)
      BY <1>1, <1>4, <1>6 DEF ToSet
    <3> QED BY <1>1, <1>4, <3>1, <3>2 DEF ToSet
  <2> QED BY <2>1 DEF Left, todo
<1>11. ToSet(s.fired) \union Left(s, m) = ToSet(r.fired) \union Left(r, m)
  BY <1>9, <1>10 DEF fired
<1> QED BY <1>8, <1>11 DEF s

(* The builder of a module whose sources are all read.                     *)
LEMMA ReadBuilder ==
    ASSUME NEW m, IsDescriptor(m)
    PROVE  LET k == Len(m.sources)
               b == SourcesRead(m)
           IN  /\ k \in Nat /\ DOMAIN m.sources = 1..k
               /\ ReadInv(m, k, b) /\ (DistinctNames(m) => OneToOne(m, k, b))
<1>1. PICK e : Reading(m, e)
  BY ReadingExists
<1>2. Len(m.sources) \in Nat /\ DOMAIN m.sources = 1..Len(m.sources)
  BY ReadingExists
<1>3. Len(m.sources) \in 0..Len(m.sources)
  BY <1>2
<1> QED BY <1>1, <1>2, <1>3 DEF Reading

LEMMA WatchingNames ==
    ASSUME NEW m, IsDescriptor(m), NEW component
    PROVE  Watching(m, component) = {NameOf(m, id) : id \in WatchersIn(m, component)}
<1>1. Len(m.rules) \in Nat /\ DOMAIN m.rules = 1..Len(m.rules)
  <2>1. IsSeq(m.rules)
    BY DEF IsDescriptor
  <2> QED BY <2>1, LenProperties DEF IsSeq
<1>2. ASSUME NEW j \in DOMAIN m.rules, component \in ToSet(m.rules[j].watch)
      PROVE  \E id \in WatchersIn(m, component) : m.rules[j].name = NameOf(m, id)
  <2>1. j - 1 \in RulesOf(m) /\ (j - 1) + 1 = j
    BY <1>1 DEF RulesOf
  <2> QED BY <1>2, <2>1 DEF WatchersIn, NameOf
<1>3. ASSUME NEW id \in WatchersIn(m, component)
      PROVE  \E j \in DOMAIN m.rules : component \in ToSet(m.rules[j].watch)
                                       /\ m.rules[j].name = NameOf(m, id)
  <2>1. id + 1 \in DOMAIN m.rules
    BY <1>1 DEF RulesOf, WatchersIn
  <2> QED BY <2>1 DEF WatchersIn, NameOf
<1> QED BY <1>2, <1>3 DEF Watching

(* The rules found for an entry are those whose descriptors name its       *)
(* component, whichever version wrote it.                                  *)
LEMMA CandidatesWatch ==
    ASSUME ModulesServe, NEW n \in Namespaces, NEW m \in Modules[n], NEW g \in Graphs(m),
           NEW e \in AllEntries, e.namespace = n
    PROVE  /\ {NameOf(m, id) : id \in ToSet(Candidates(g, e.key))} = Watching(m, e.meaning)
           /\ IsInjective(Candidates(g, e.key))
<1> DEFINE key == e.key
           w == e.meaning
           b == SourcesRead(m)
<1>1. IsDescriptor(m) /\ DistinctNames(m) /\ GraphIs(m, g)
  BY NamespaceAssumption, GraphsAre DEF ModulesServe, VersionsServe
<1>2. PICK m1 \in Modules[n] :
        \E g1 \in Graphs(m1) : key \in DOMAIN g1.forward /\ w = g1.forward[key].mapper
  BY EntryFields DEF GraphsOf
<1> DEFINE b1 == SourcesRead(m1)
<1>3. IsDescriptor(m1) /\ DistinctNames(m1)
  BY NamespaceAssumption DEF ModulesServe, VersionsServe
<1>4. key \in DOMAIN b1.components /\ w = b1.components[key] /\ DOMAIN g.forward = DOMAIN b.components
  <2>1. PICK g1 \in Graphs(m1) : key \in DOMAIN g1.forward /\ w = g1.forward[key].mapper
    BY <1>2
  <2>2. GraphIs(m1, g1)
    BY <1>3, GraphsAre
  <2> QED BY <1>1, <2>1, <2>2 DEF GraphIs
<1>5. IsPrefix(m1.sources, m.sources) \/ IsPrefix(m.sources, m1.sources)
  BY DEF ModulesServe, VersionsServe, VersionsAppend
<1> HIDE DEF key, w, b, b1
<1>6. CASE key \in DOMAIN g.forward
  <2>1. g.forward[key].mapper = w
    <3>1. key \in DOMAIN b.components /\ g.forward[key].mapper = b.components[key]
      BY <1>1, <1>6 DEF GraphIs, b
    <3>2. b.components[key] = b1.components[key]
      BY <1>1, <1>3, <1>4, <1>5, <3>1, LaterVersion DEF b, b1
    <3> QED BY <1>4, <3>1, <3>2
  <2>2. Candidates(g, key) = g.forward[key].watchers
    BY <1>6 DEF Candidates
  <2>3. ToSet(g.forward[key].watchers) = WatchersIn(m, w) /\ IsInjective(g.forward[key].watchers)
    BY <1>1, <1>6, <2>1 DEF GraphIs
  <2> QED BY <1>1, <2>2, <2>3, WatchingNames DEF key, w
<1>7. CASE key \notin DOMAIN g.forward
  <2>1. Candidates(g, key) = <<>>
    BY <1>7 DEF Candidates
  <2>2. ASSUME NEW j \in DOMAIN m.rules, w \in ToSet(m.rules[j].watch) PROVE FALSE
    <3>1. ReadInv(m1, Len(m1.sources), b1) /\ OneToOne(m1, Len(m1.sources), b1)
          /\ DOMAIN m1.sources = 1..Len(m1.sources)
      BY <1>3, ReadBuilder DEF b1
    <3>2. ReadInv(m, Len(m.sources), b) /\ OneToOne(m, Len(m.sources), b)
          /\ DOMAIN m.sources = 1..Len(m.sources)
      BY <1>1, ReadBuilder DEF b
    <3>3. Declared(m1, w)
      BY <1>4, <3>1 DEF ReadInv, Declares, Declared
    <3>4. Declared(m, w)
      BY <2>2, <3>3 DEF ModulesServe, VersionsServe, WatchesDeclared
    <3>5. Resolvable(b, w)
      BY <3>2, <3>4 DEF OneToOne, Declares, Declared
    <3> DEFINE found == Resolve(b, w)
    <3>6. found \in DOMAIN b.components /\ b.components[found] = <<w[1], w[2]>>
      BY <3>2, <3>5 DEF ReadInv
    <3>7. w = <<w[1], w[2]>>
      BY <1>1, <2>2 DEF IsDescriptor
    <3> HIDE DEF found
    <3>8. CASE IsPrefix(m1.sources, m.sources)
      <4>1. key \in DOMAIN b.components
        BY <1>1, <1>3, <1>4, <3>8, LaterVersion DEF b, b1
      <4> QED BY <1>4, <1>7, <4>1
    <3>9. CASE IsPrefix(m.sources, m1.sources)
      <4>1. found \in DOMAIN b1.components /\ b1.components[found] = w
        BY <1>1, <1>3, <3>6, <3>7, <3>9, LaterVersion DEF b, b1
      <4>2. found = key
        BY <1>4, <3>1, <4>1 DEF OneToOne
      <4> QED BY <1>4, <1>7, <3>6, <4>2
    <3> QED BY <1>5, <3>8, <3>9
  <2>3. Watching(m, w) = {}
    BY <2>2 DEF Watching
  <2> QED BY <2>1, <2>3, ShortSequences DEF key, w
<1> QED BY <1>6, <1>7

(* A run in progress is about its namespace's oldest entry: what it has    *)
(* invoked and what it has left are the rules that watch the entry.        *)
Serves(n, i) ==
    /\ IsOldest(i, n) /\ pending[i].id = run[n].id
    /\ ToSet(run[n].fired) \union Left(run[n], module[n])
         = Watching(module[n], pending[i].meaning)
ServeInv ==
    \A n \in Namespaces : run[n].pc # "idle" =>
        RunOrdered(run[n], module[n]) /\ \E i : Serves(n, i)

(* A run that finishes removes its namespace's oldest entry.               *)
LEMMA FinishOldest ==
    ASSUME HostInv, ServeInv, NEW n \in Namespaces, Finish(n)
    PROVE  \E i : Serves(n, i) /\ pending' = RemoveAt(pending, i)
<1>1. PICK i : Serves(n, i)
  BY DEF ServeInv, Finish
<1>2. /\ pending \in Seq(AllEntries) /\ DOMAIN pending = 1..Len(pending)
      /\ \A j \in 1..Len(pending) : pending[j].id \in Nat
  BY PendingIds DEF HostInv, MeaningInv
<1>3. i \in 1..Len(pending) /\ pending[i].id = run[n].id
  BY <1>1, <1>2 DEF Serves, IsOldest
<1>4. PICK j \in 1..Len(pending) : pending[j].id = run[n].id /\ pending' = RemoveAt(pending, j)
  BY <1>2, <1>3, FinishRemoves
<1>5. j = i
  <2>1. i \in Int /\ j \in Int /\ ~(i < j) /\ ~(j < i)
    BY <1>2, <1>3, <1>4, LenProperties DEF HostInv, IdsCounted
  <2> QED BY <2>1
<1> QED BY <1>1, <1>4, <1>5

(* An entry leaves only so, and what is left keeps its order.              *)
LEMMA OldestStays ==
    ASSUME HostInv, ServeInv, [Next]_vars, NEW n \in Namespaces, NEW i, IsOldest(i, n), ~Finish(n)
    PROVE  \E j : IsOldest(j, n)' /\ pending'[j] = pending[i]
<1>1. /\ pending \in Seq(AllEntries) /\ Len(pending) \in Nat /\ DOMAIN pending = 1..Len(pending)
      /\ i \in 1..Len(pending) /\ pending[i].namespace = n
      /\ \A j \in 1..Len(pending) : j < i => pending[j].namespace # n
  BY PendingIds DEF HostInv, MeaningInv, IsOldest
<1>2. CASE UNCHANGED <<pending, next_id>>
  BY <1>2 DEF IsOldest
<1>3. ASSUME NEW o \in Namespaces, NEW source, Ingest(o, source)
      PROVE  \E j : IsOldest(j, n)' /\ pending'[j] = pending[i]
  <2>1. PICK k \in Nat : /\ DOMAIN pending' = 1..(Len(pending) + k)
                         /\ \A j \in 1..Len(pending) : pending'[j] = pending[j]
    BY <1>3, IngestPlaces DEF HostInv
  <2>2. i \in 1..(Len(pending) + k) /\ \A j \in 1..(Len(pending) + k) : j < i => j \in 1..Len(pending)
    BY <1>1
  <2>3. IsOldest(i, n)'
    BY <1>1, <2>1, <2>2 DEF IsOldest
  <2> QED BY <1>1, <2>1, <2>3
<1>4. ASSUME NEW o \in Namespaces, Finish(o)
      PROVE  \E j : IsOldest(j, n)' /\ pending'[j] = pending[i]
  <2>1. PICK k \in 1..Len(pending) : pending[k].namespace = o /\ pending' = RemoveAt(pending, k)
    BY <1>1, <1>4, FinishOldest DEF Serves, IsOldest
  <2>2. k # i
    BY <1>1, <1>4, <2>1
  <2> DEFINE len == Len(pending)
             at(j) == IF j < k THEN j ELSE j + 1
             new == IF i < k THEN i ELSE i - 1
  <2>3. /\ DOMAIN pending' = 1..(len - 1)
        /\ \A j \in 1..(len - 1) : pending'[j] = pending[at(j)]
    <3>1. /\ pending' \in Seq(AllEntries) /\ Len(pending') = len - 1
          /\ \A j \in 1..(len - 1) : pending'[j] = IF j < k THEN pending[j] ELSE pending[j + 1]
      BY <1>1, <2>1, RemoveAtProperties
    <3> QED BY <3>1, LenProperties
  <2>4. new \in 1..(len - 1) /\ at(new) = i
    BY <1>1, <2>1, <2>2
  <2>5. ASSUME NEW j \in 1..(len - 1), j < new PROVE at(j) \in 1..len /\ at(j) < i
    BY <1>1, <2>1, <2>2, <2>5
  <2> HIDE DEF len, at, new
  <2>6. \A j \in 1..(len - 1) : j < new => pending'[j].namespace # n
    BY <1>1, <2>3, <2>5 DEF len
  <2>7. pending'[new] = pending[i]
    BY <2>3, <2>4
  <2>8. IsOldest(new, n)'
    BY <1>1, <2>3, <2>4, <2>6, <2>7 DEF IsOldest
  <2> QED BY <2>7, <2>8
<1> QED BY <1>2, <1>3, <1>4, PendingStep DEF HostInv

(* The run of a session that no step touches goes on serving its entry.    *)
LEMMA OtherRun ==
    ASSUME HostInv, ServeInv, [Next]_vars, NEW n \in Namespaces, ~Finish(n),
           run'[n].pc # "idle" => /\ run[n].pc # "idle"
                                  /\ run'[n].id = run[n].id /\ module'[n] = module[n]
                                  /\ RunOrdered(run'[n], module[n])
                                  /\ ToSet(run'[n].fired) \union Left(run'[n], module[n])
                                       = ToSet(run[n].fired) \union Left(run[n], module[n]),
           run'[n].pc # "idle"
    PROVE  RunOrdered(run'[n], module'[n]) /\ \E i : Serves(n, i)'
<1>1. PICK i : Serves(n, i)
  BY DEF ServeInv
<1>2. PICK j : IsOldest(j, n)' /\ pending'[j] = pending[i]
  BY <1>1, OldestStays DEF Serves
<1>3. Serves(n, j)'
  BY <1>1, <1>2 DEF Serves
<1> QED BY <1>3

(* A run that begins has everything to serve still to do.                  *)
LEMMA BeginServes ==
    ASSUME ModulesServe, HostInv, NEW n \in Namespaces, Begin(n)
    PROVE  RunOrdered(run[n], module[n])' /\ \E i : Serves(n, i)'
<1>1. PICK i : IsOldest(i, n) /\ run' = [run EXCEPT ![n] = RunOf(pending[i], graph[n])]
  BY BeginStep DEF HostInv, MeaningInv
<1> DEFINE e == pending[i]
           m == module[n]
<1>2. /\ session[n] = "running" /\ module' = module /\ pending' = pending
      /\ n \in DOMAIN run
  BY DEF Begin, sessionVars, workVars, HostInv, ModulesNamed
<1>3. m \in Modules[n] /\ graph[n] \in Graphs(m) /\ IsDescriptor(m)
  BY <1>2, NamespaceAssumption DEF HostInv, SessionsTyped
<1>4. e \in AllEntries /\ e.namespace = n
  BY <1>1, PendingIds DEF HostInv, MeaningInv, IsOldest
<1> DEFINE c == Candidates(graph[n], e.key)
<1>5. {NameOf(m, id) : id \in ToSet(c)} = Watching(m, e.meaning) /\ IsInjective(c)
  BY <1>3, <1>4, CandidatesWatch
<1>6. run'[n] = [pc |-> "dispatch", id |-> e.id, todo |-> c, fired |-> <<>>]
  BY <1>1, <1>2 DEF RunOf
<1> HIDE DEF e, c
<1>7. run'[n].todo = c /\ run'[n].fired = <<>> /\ run'[n].id = e.id
  BY <1>6
<1>8. DOMAIN run'[n].fired = {}
  BY <1>7, EmptySeq
<1>9. RunOrdered(run[n], module[n])'
  BY <1>5, <1>7, <1>8 DEF RunOrdered
<1>10. Serves(n, i)'
  <2>1. IsOldest(i, n)'
    BY <1>1, <1>2 DEF IsOldest
  <2>2. pending'[i] = e /\ module'[n] = m
    BY <1>2 DEF e
  <2>3. ToSet(run'[n].fired) \union Left(run'[n], m) = Watching(m, e.meaning)
    BY <1>5, <1>7, ShortSequences DEF Left
  <2> QED BY <1>7, <2>1, <2>2, <2>3 DEF Serves
<1> QED BY <1>9, <1>10

LEMMA ServeInvStep == ModulesServe /\ HostInv /\ ServeInv /\ [Next]_vars => ServeInv'
<1> SUFFICES ASSUME ModulesServe, HostInv, ServeInv, [Next]_vars,
                    NEW n \in Namespaces, run'[n].pc # "idle"
             PROVE  RunOrdered(run[n], module[n])' /\ \E i : Serves(n, i)'
  BY DEF ServeInv
<1> DEFINE Kept == RunOrdered(run[n], module[n])' /\ \E i : Serves(n, i)'
<1>1. n \in DOMAIN run /\ n \in DOMAIN module /\ DOMAIN run = Namespaces /\ DOMAIN module = Namespaces
  BY DEF HostInv, ModulesNamed
<1>2. ~Finish(n)
  BY <1>1 DEF Finish, Idle
<1>3. ASSUME run'[n] = run[n], module'[n] = module[n] PROVE Kept
  <2>1. RunOrdered(run[n], module[n])
    BY <1>3 DEF ServeInv
  <2> QED BY <1>2, <1>3, <2>1, OtherRun
<1>4. ASSUME NEW o \in Namespaces, NEW m \in Modules[o], Deploy(o, m) PROVE Kept
  <2>1. run' = run /\ run[o] = Idle /\ module' = [module EXCEPT ![o] = m]
    BY <1>4 DEF Deploy
  <2>2. o # n
    BY <2>1 DEF Idle
  <2> QED BY <1>1, <1>3, <2>1, <2>2
<1>5. ASSUME NEW o \in Namespaces,
             \/ \E source : Ingest(o, source)
             \/ StoreCall(o) \/ RuleStores(o)
      PROVE  Kept
  BY <1>3, <1>5 DEF Ingest, StoreCall, RuleStores, sessionVars
<1>6. ASSUME NEW o \in Namespaces, NEW r, run' = [run EXCEPT ![o] = r], o # n, module' = module
      PROVE  Kept
  BY <1>1, <1>3, <1>6
<1>7. ASSUME NEW o \in Namespaces, Begin(o) PROVE Kept
  <2>1. CASE o = n
    BY <1>7, <2>1, BeginServes
  <2>2. CASE o # n
    <3>1. run' = [run EXCEPT ![o] = RunOf(pending[Oldest(o)], graph[o])] /\ module' = module
      BY <1>7, BeginStep DEF Begin, sessionVars, HostInv, MeaningInv
    <3> QED BY <1>6, <2>2, <3>1
  <2> QED BY <2>1, <2>2
<1>8. ASSUME NEW o \in Namespaces, Dispatch(o) PROVE Kept
  <2> DEFINE m == module[o]
             r == run[o]
  <2>1. PICK i \in 1..Len(r.todo) :
          /\ run' = [run EXCEPT ![o] = Invoked(r, m, i)]
          /\ \A j \in 1..Len(r.todo) : PriorityIn(m, r.todo[i]) >= PriorityIn(m, r.todo[j])
    BY <1>8, DispatchStep DEF HostInv
  <2>2. module' = module /\ r.pc # "idle"
    BY <1>8 DEF Dispatch, sessionVars
  <2>3. CASE o # n
    BY <1>6, <2>1, <2>2, <2>3
  <2>4. CASE o = n
    <3> DEFINE s == Invoked(r, m, i)
    <3>1. m \in Modules[n] /\ IsDescriptor(m) /\ r \in Runs(m)
      BY <2>2, <2>4, ActiveRun DEF HostInv
    <3>2. DistinctNames(m) /\ RunOrdered(r, m)
      BY <2>2, <2>4, <3>1 DEF ModulesServe, VersionsServe, ServeInv
    <3>3. RunOrdered(s, m) /\ ToSet(s.fired) \union Left(s, m) = ToSet(r.fired) \union Left(r, m)
      BY <2>1, <3>1, <3>2, InvokedOrdered
    <3>4. run'[n] = s /\ s.id = r.id
      <4>1. r = [pc |-> r.pc, id |-> r.id, todo |-> r.todo, fired |-> r.fired]
        BY <3>1 DEF Runs
      <4>2. s.id = r.id
        BY <4>1 DEF Invoked
      <4> QED BY <1>1, <2>1, <2>4, <4>2
    <3> HIDE DEF s
    <3> QED BY <1>2, <2>2, <2>4, <3>3, <3>4, OtherRun
  <2> QED BY <2>3, <2>4
<1>9. ASSUME NEW o \in Namespaces, RuleReturns(o) PROVE Kept
  <2>1. /\ run' = [run EXCEPT ![o].pc = "dispatch"] /\ module' = module /\ run[o].pc = "rule"
    BY <1>9 DEF RuleReturns, sessionVars
  <2>2. CASE o # n
    BY <1>1, <1>3, <2>1, <2>2
  <2>3. CASE o = n
    <3>1. run[n] = [pc |-> run[n].pc, id |-> run[n].id, todo |-> run[n].todo, fired |-> run[n].fired]
      BY <2>1, <2>3, ActiveRun DEF HostInv
    <3>2. run'[n] = [run[n] EXCEPT !.pc = "dispatch"]
      BY <1>1, <2>1, <2>3
    <3>3. run'[n].id = run[n].id /\ run'[n].todo = run[n].todo /\ run'[n].fired = run[n].fired
      BY <3>1, <3>2
    <3>4. RunOrdered(run[n], module[n])
      BY <2>1, <2>3 DEF ServeInv
    <3>5. RunOrdered(run'[n], module[n]) /\ Left(run'[n], module[n]) = Left(run[n], module[n])
      BY <3>3, <3>4 DEF RunOrdered, Left
    <3> QED BY <1>2, <2>1, <2>3, <3>3, <3>5, OtherRun
  <2> QED BY <2>2, <2>3
<1>10. ASSUME NEW o \in Namespaces, Finish(o) PROVE Kept
  <2>1. o # n
    BY <1>2, <1>10
  <2>2. run' = [run EXCEPT ![o] = Idle] /\ module' = module
    BY <1>10 DEF Finish, sessionVars
  <2> QED BY <1>6, <2>1, <2>2
<1>11. ASSUME NEW o \in Namespaces, SessionFails(o) PROVE Kept
  <2>1. o # n
    BY <1>1, <1>11 DEF SessionFails, Idle
  <2> QED BY <1>6, <1>11, <2>1 DEF SessionFails
<1>12. CASE Restart
  BY <1>12 DEF Restart, Idle
<1>13. CASE UNCHANGED vars
  BY <1>3, <1>13 DEF vars, sessionVars
<1> QED BY <1>4, <1>5, <1>7, <1>8, <1>9, <1>10, <1>11, <1>12, <1>13 DEF Next, Work

(* Pending work is served or kept.  If of two versions of a namespace's    *)
(* module one only adds sources to the other's and declares what it        *)
(* watches of the other's components, then an entry leaves the storage     *)
(* only in a run of its namespace that has invoked exactly the rules that  *)
(* name its component, each once and in descending priority (wire.zig,     *)
(* module.zig build, loop.zig runTimed, wal.zig nextPendingFor and ack).   *)
THEOREM EntriesAreServed == ModulesServe => (Spec => EntriesServed)
<1> SUFFICES ASSUME ModulesServe PROVE Spec => EntriesServed
  OBVIOUS
<1> DEFINE Gone(e) ==
             LET n == e.namespace
                 fired == run[n].fired
             IN  /\ e = pending[Oldest(n)]
                 /\ run[n].pc # "idle"
                 /\ ToSet(fired) = Watching(module[n], e.meaning)
                 /\ \A i, j \in DOMAIN fired : i < j =>
                      /\ fired[i] # fired[j]
                      /\ PriorityOf(module[n], fired[i]) >= PriorityOf(module[n], fired[j])
           Served == \A e \in ToSet(pending) \ ToSet(pending') : Gone(e)
<1>1. Init => ServeInv
  BY DEF Init, ServeInv, Idle
<1>2. HostInv /\ ServeInv /\ [Next]_vars => ServeInv'
  BY ServeInvStep
<1>3. HostInv /\ ServeInv /\ [Next]_vars => [Served]_vars
  <2> SUFFICES ASSUME HostInv, ServeInv, [Next]_vars,
                      NEW e \in ToSet(pending), e \notin ToSet(pending')
               PROVE  Gone(e)
    OBVIOUS
  <2>1. /\ pending \in Seq(AllEntries) /\ Len(pending) \in Nat /\ DOMAIN pending = 1..Len(pending)
    BY PendingIds DEF HostInv, MeaningInv
  <2>2. PICK k \in 1..Len(pending) : e = pending[k]
    BY <2>1 DEF ToSet
  <2>3. ~UNCHANGED <<pending, next_id>>
    OBVIOUS
  <2>4. ASSUME NEW n \in Namespaces, NEW source, Ingest(n, source) PROVE FALSE
    <3>1. PICK c \in Nat : /\ DOMAIN pending' = 1..(Len(pending) + c)
                           /\ \A i \in 1..Len(pending) : pending'[i] = pending[i]
      BY <2>4, IngestPlaces DEF HostInv
    <3>2. k \in DOMAIN pending' /\ pending'[k] = e
      BY <2>1, <2>2, <3>1
    <3> QED BY <3>2 DEF ToSet
  <2>5. PICK n \in Namespaces : Finish(n)
    BY <2>3, <2>4, PendingStep DEF HostInv
  <2>6. PICK i : Serves(n, i) /\ pending' = RemoveAt(pending, i)
    BY <2>5, FinishOldest
  <2>7. i \in 1..Len(pending) /\ pending[i].namespace = n /\ Oldest(n) = i
    BY <2>1, <2>6, OldestEntry DEF Serves, IsOldest
  <2>8. k = i
    <3> SUFFICES ASSUME k # i PROVE FALSE
      OBVIOUS
    <3> DEFINE len == Len(pending)
               new == IF k < i THEN k ELSE k - 1
    <3>1. /\ pending' \in Seq(AllEntries) /\ Len(pending') = len - 1
          /\ \A j \in 1..(len - 1) : pending'[j] = IF j < i THEN pending[j] ELSE pending[j + 1]
      BY <2>1, <2>6, <2>7, RemoveAtProperties
    <3>2. DOMAIN pending' = 1..(len - 1)
      BY <3>1, LenProperties
    <3>3. new \in 1..(len - 1) /\ (IF new < i THEN new ELSE new + 1) = k
      BY <2>1, <2>7
    <3>4. pending'[new] = pending[k]
      <4> HIDE DEF new
      <4> QED BY <3>1, <3>3
    <3> HIDE DEF len, new
    <3> QED BY <2>2, <3>2, <3>3, <3>4 DEF ToSet
  <2> DEFINE m == module[n]
             r == run[n]
  <2>9. /\ r.pc # "idle" /\ r.todo = <<>> /\ RunOrdered(r, m)
        /\ ToSet(r.fired) \union Left(r, m) = Watching(m, e.meaning)
    BY <2>2, <2>5, <2>6, <2>8 DEF Finish, ServeInv, Serves
  <2>10. Left(r, m) = {}
    BY <2>9, ShortSequences DEF Left
  <2>11. e.namespace = n /\ e = pending[Oldest(n)]
    BY <2>2, <2>7, <2>8
  <2>12. ToSet(r.fired) = Watching(m, e.meaning)
    BY <2>9, <2>10
  <2> QED BY <2>9, <2>11, <2>12 DEF RunOrdered
<1>4. Spec => []HostInv
  BY HostInvHolds
<1> HIDE DEF Served
<1>5. Spec => [][Served]_vars
  BY <1>1, <1>2, <1>3, <1>4, PTL DEF Spec
<1> QED BY <1>5 DEF EntriesServed, Served
=============================================================================
