------------------------ MODULE QuerySessionsProofs ------------------------
(***************************************************************************)
(* Proofs about QuerySessions, for any number of calls, sessions and       *)
(* statements. SessionInv is the inductive invariant; one lemma per        *)
(* conjunct shows that every step preserves it, and the theorems read off  *)
(* the safety properties that TLC checks on small instances.               *)
(***************************************************************************)
EXTENDS QuerySessions, FiniteSetTheorems, TLAPS

\* The session of a call that is still opening was never issued: nobody else
\* opens, closes or uses it, and it is not in the map.
LEMMA OpenerIsNew ==
    ASSUME SessionInv, NEW c \in Calls, op[c] = "open", pc[c] # "done"
    PROVE  /\ sid[c] \notin issued
           /\ sid[c] \notin sessions
           /\ \A d \in Calls \ {c} : op[d] # None => sid[d] # sid[c]
<1>1. \A d \in Calls : op[d] = "open" /\ sid[d] = sid[c] => d = c
  BY DEF SessionInv, IdsOpenedOnce
<1>2. sid[c] \notin issued
  BY <1>1 DEF SessionInv, IdsOpenedOnce
<1>3. sid[c] \notin sessions
  BY <1>2 DEF SessionInv, IdsOpenedOnce
<1>4. ASSUME NEW d \in Calls \ {c}, op[d] # None PROVE sid[d] # sid[c]
  BY <1>1, <1>2, <1>4 DEF SessionInv, CallShape
<1>. QED  BY <1>2, <1>3, <1>4

\* Types are preserved: the map only ever holds real ids, and a history
\* counter stays within the script.
LEMMA TypeStep == SessionInv /\ [Next]_vars => TypeOK'
<1> SUFFICES ASSUME SessionInv, [Next]_vars PROVE TypeOK'
  OBVIOUS
<1> USE OpsAssumption, StatementsAssumption, NoneAssumption DEF TypeOK, PCs,
   AllOps, UserOps, SessionInv, mapVars, ctxVars, argVars, logVars,
   CallShape, LoggedWithinScript, HistoryRefersToConnection
<1>1. ASSUME NEW c \in Calls, NEW o \in Ops, NEW s \in Sessions,
            NEW n \in 1..MaxStatements, Invoke(c, o, s, n)
     PROVE  TypeOK'
  BY <1>1 DEF Invoke, Goto
<1>2. ASSUME NEW c \in Calls, OpenPut(c) PROVE TypeOK'
  BY <1>2 DEF OpenPut, Goto, SessionsMuFree
<1>3. ASSUME NEW c \in Calls, CheckPool(c) PROVE TypeOK'
  BY <1>3 DEF CheckPool, StatementEnds
<1>4. ASSUME NEW c \in Calls, UsePool(c) PROVE TypeOK'
  BY <1>4 DEF UsePool, StatementEnds, AfterResults
<1>5. ASSUME NEW c \in Calls, StatementReturns(c) PROVE TypeOK'
  BY <1>5 DEF StatementReturns, StatementEnds
<1>6. ASSUME NEW c \in Calls, RecordHistory(c) PROVE TypeOK'
  BY <1>6 DEF RecordHistory, AfterResults
<1>7. ASSUME NEW c \in Calls, TakeCancel(c) PROVE TypeOK'
  BY <1>7 DEF TakeCancel, Goto
<1>8. ASSUME NEW c \in Calls, CallCancel(c) PROVE TypeOK'
  BY <1>8 DEF CallCancel, Goto
<1>9. ASSUME NEW c \in Calls,
            OpenConnect(c) \/ OpenPingFails(c) \/ Lookup(c) \/ PutCancel(c)
            \/ PopCancel(c) \/ CloseRemove(c) \/ CloseBegin(c) \/
            CloseEnd(c)
     PROVE  TypeOK'
  BY <1>9 DEF OpenConnect, Goto, OpenPingFails, Lookup, SessionsMuFree,
     PutCancel, PopCancel, CloseRemove, CloseBegin, CloseEnd, Drained
<1>10. CASE DeleteConnection
  <2>1. 0 \in 0..MaxStatements
    OBVIOUS
  <2>2. rows' \in [Calls -> 0..MaxStatements]
    BY <1>10, <2>1 DEF DeleteConnection
  <2>. QED  BY <1>10, <2>2 DEF DeleteConnection
<1>11. CASE ShutdownCancels
  BY <1>11 DEF ShutdownCancels
<1>12. ASSUME NEW s \in Sessions, ShutdownCloseBegin(s) \/ ShutdownCloseEnd(s)
     PROVE  TypeOK'
  BY <1>12 DEF ShutdownCloseBegin, ShutdownCloseEnd, Drained
<1>13. CASE UNCHANGED vars \/ ShutdownLocks \/ ShutdownUnlocks \/
   ShutdownClosesStorage
  BY <1>13 DEF vars, ShutdownLocks, ShutdownUnlocks, ShutdownClosesStorage
<1>. QED BY <1>1, <1>2, <1>3, <1>4, <1>5, <1>6, <1>7, <1>8, <1>9, <1>10,
   <1>11, <1>12, <1>13 DEF Next, Step, Shutdown, Terminated

\* A goroutine stays on the path of its bound method.
LEMMA ShapeStep == SessionInv /\ [Next]_vars => CallShape'
<1> SUFFICES ASSUME SessionInv, [Next]_vars PROVE CallShape'
  OBVIOUS
<1> USE OpsAssumption, NoneAssumption DEF TypeOK, PCs, AllOps, UserOps,
   SessionInv, mapVars, ctxVars, argVars, logVars, CallShape, IdsOpenedOnce
<1>1. ASSUME NEW c \in Calls, NEW o \in Ops, NEW s \in Sessions,
            NEW n \in 1..MaxStatements, Invoke(c, o, s, n)
     PROVE  CallShape'
  BY <1>1 DEF Invoke, Goto
<1>2. ASSUME NEW c \in Calls, CheckPool(c) PROVE CallShape'
  BY <1>2 DEF CheckPool, StatementEnds
<1>3. ASSUME NEW c \in Calls, UsePool(c) PROVE CallShape'
  BY <1>3 DEF UsePool, StatementEnds, AfterResults
<1>4. ASSUME NEW c \in Calls, StatementReturns(c) PROVE CallShape'
  BY <1>4 DEF StatementReturns, StatementEnds
<1>5. ASSUME NEW c \in Calls, RecordHistory(c) PROVE CallShape'
  BY <1>5 DEF RecordHistory, AfterResults
<1>6. ASSUME NEW c \in Calls, TakeCancel(c) PROVE CallShape'
  BY <1>6 DEF TakeCancel, Goto
<1>7. ASSUME NEW c \in Calls, CallCancel(c) PROVE CallShape'
  BY <1>7 DEF CallCancel, Goto
<1>8. ASSUME NEW c \in Calls,
            OpenConnect(c) \/ OpenPingFails(c) \/ OpenPut(c) \/ Lookup(c) \/
            PutCancel(c) \/ PopCancel(c) \/ CloseRemove(c) \/
            CloseBegin(c) \/ CloseEnd(c)
     PROVE  CallShape'
  BY <1>8 DEF OpenConnect, Goto, OpenPingFails, OpenPut, SessionsMuFree,
     Lookup, PutCancel, PopCancel, CloseRemove, CloseBegin, CloseEnd, Drained
<1>9. ASSUME NEW s \in Sessions, ShutdownCloseBegin(s) \/ ShutdownCloseEnd(s)
     PROVE  CallShape'
  BY <1>9 DEF ShutdownCloseBegin, ShutdownCloseEnd, Drained
<1>10. CASE UNCHANGED vars \/ DeleteConnection \/ ShutdownCancels \/
   ShutdownLocks \/ ShutdownUnlocks \/ ShutdownClosesStorage
  BY <1>10 DEF vars, DeleteConnection, ShutdownCancels, ShutdownLocks,
     ShutdownUnlocks, ShutdownClosesStorage
<1>. QED BY <1>1, <1>2, <1>3, <1>4, <1>5, <1>6, <1>7, <1>8, <1>9, <1>10 DEF
   Next, Step, Shutdown, Terminated

\* An id is opened by one call only: Invoke takes a fresh one.
LEMMA IdsStep == SessionInv /\ [Next]_vars => IdsOpenedOnce'
<1> SUFFICES ASSUME SessionInv, [Next]_vars PROVE IdsOpenedOnce'
  OBVIOUS
<1> USE OpsAssumption, NoneAssumption DEF TypeOK, PCs, AllOps, UserOps,
   SessionInv, mapVars, ctxVars, argVars, logVars, CallShape, IdsOpenedOnce,
   FreshId
<1>1. ASSUME NEW c \in Calls, NEW o \in Ops, NEW s \in Sessions,
            NEW n \in 1..MaxStatements, Invoke(c, o, s, n)
     PROVE  IdsOpenedOnce'
  BY <1>1 DEF Invoke, Goto
<1>2. ASSUME NEW c \in Calls, OpenPut(c) PROVE IdsOpenedOnce'
  BY <1>2 DEF OpenPut, Goto, SessionsMuFree
<1>3. ASSUME NEW c \in Calls, CheckPool(c) PROVE IdsOpenedOnce'
  BY <1>3 DEF CheckPool, StatementEnds
<1>4. ASSUME NEW c \in Calls, UsePool(c) PROVE IdsOpenedOnce'
  BY <1>4 DEF UsePool, StatementEnds, AfterResults
<1>5. ASSUME NEW c \in Calls, StatementReturns(c) PROVE IdsOpenedOnce'
  BY <1>5 DEF StatementReturns, StatementEnds
<1>6. ASSUME NEW c \in Calls, CloseRemove(c) PROVE IdsOpenedOnce'
  BY <1>6 DEF CloseRemove, Goto, SessionsMuFree
<1>7. ASSUME NEW c \in Calls,
            OpenConnect(c) \/ OpenPingFails(c) \/ Lookup(c) \/ PutCancel(c)
            \/ RecordHistory(c) \/ PopCancel(c) \/ TakeCancel(c) \/
            CallCancel(c) \/ CloseBegin(c) \/ CloseEnd(c)
     PROVE  IdsOpenedOnce'
  BY <1>7 DEF OpenConnect, Goto, OpenPingFails, Lookup, SessionsMuFree,
     PutCancel, RecordHistory, AfterResults, PopCancel, TakeCancel,
     CallCancel, CloseBegin, CloseEnd, Drained
<1>8. ASSUME NEW s \in Sessions, ShutdownCloseBegin(s) \/ ShutdownCloseEnd(s)
     PROVE  IdsOpenedOnce'
  BY <1>8 DEF ShutdownCloseBegin, ShutdownCloseEnd, Drained
<1>9. CASE UNCHANGED vars \/ DeleteConnection \/ ShutdownCancels \/
   ShutdownLocks \/ ShutdownUnlocks \/ ShutdownClosesStorage
  BY <1>9 DEF vars, DeleteConnection, ShutdownCancels, ShutdownLocks,
     ShutdownUnlocks, ShutdownClosesStorage
<1>. QED BY <1>1, <1>2, <1>3, <1>4, <1>5, <1>6, <1>7, <1>8, <1>9 DEF Next,
   Step, Shutdown, Terminated

\* A call has logged no more statements than it has gone through.
LEMMA LogStep == SessionInv /\ [Next]_vars => LoggedWithinScript'
<1> SUFFICES ASSUME SessionInv, [Next]_vars PROVE LoggedWithinScript'
  OBVIOUS
<1> USE OpsAssumption, StatementsAssumption, NoneAssumption DEF TypeOK, PCs,
   AllOps, UserOps, SessionInv, mapVars, ctxVars, argVars, logVars,
   CallShape, LoggedWithinScript
<1>1. ASSUME NEW c \in Calls, NEW o \in Ops, NEW s \in Sessions,
            NEW n \in 1..MaxStatements, Invoke(c, o, s, n)
     PROVE  LoggedWithinScript'
  BY <1>1 DEF Invoke, Goto
<1>2. ASSUME NEW c \in Calls, CheckPool(c) PROVE LoggedWithinScript'
  BY <1>2 DEF CheckPool, StatementEnds
<1>3. ASSUME NEW c \in Calls, UsePool(c) PROVE LoggedWithinScript'
  BY <1>3 DEF UsePool, StatementEnds, AfterResults
<1>4. ASSUME NEW c \in Calls, StatementReturns(c) PROVE LoggedWithinScript'
  BY <1>4 DEF StatementReturns, StatementEnds
<1>5. ASSUME NEW c \in Calls, RecordHistory(c) PROVE LoggedWithinScript'
  BY <1>5 DEF RecordHistory, AfterResults
<1>6. ASSUME NEW c \in Calls,
            OpenConnect(c) \/ OpenPingFails(c) \/ OpenPut(c) \/ Lookup(c) \/
            PutCancel(c) \/ PopCancel(c) \/ TakeCancel(c) \/ CallCancel(c)
            \/ CloseRemove(c) \/ CloseBegin(c) \/ CloseEnd(c)
     PROVE  LoggedWithinScript'
  BY <1>6 DEF OpenConnect, Goto, OpenPingFails, OpenPut, SessionsMuFree,
     Lookup, PutCancel, PopCancel, TakeCancel, CallCancel, CloseRemove,
     CloseBegin, CloseEnd, Drained
<1>7. CASE DeleteConnection
  BY <1>7 DEF DeleteConnection
<1>8. ASSUME NEW s \in Sessions, ShutdownCloseBegin(s) \/ ShutdownCloseEnd(s)
     PROVE  LoggedWithinScript'
  BY <1>8 DEF ShutdownCloseBegin, ShutdownCloseEnd, Drained
<1>9. CASE UNCHANGED vars \/ ShutdownCancels \/ ShutdownLocks \/
   ShutdownUnlocks \/ ShutdownClosesStorage
  BY <1>9 DEF vars, ShutdownCancels, ShutdownLocks, ShutdownUnlocks,
     ShutdownClosesStorage
<1>. QED BY <1>1, <1>2, <1>3, <1>4, <1>5, <1>6, <1>7, <1>8, <1>9 DEF Next,
   Step, Shutdown, Terminated

\* Nobody but its owner changes the state of an engine.
LEMMA EngineStep == SessionInv /\ [Next]_vars => EngineMatchesOwner'
<1> SUFFICES ASSUME SessionInv, [Next]_vars PROVE EngineMatchesOwner'
  OBVIOUS
<1> USE OpsAssumption, NoneAssumption DEF TypeOK, PCs, AllOps, UserOps,
   SessionInv, mapVars, ctxVars, argVars, logVars, CallShape, IdsOpenedOnce,
   EngineMatchesOwner, EngineOwnedOnce, OwnedByMap, Stranded,
   MapHoldsOpenEngines, Openers, Closers, SessionsMuFree
<1>1. ASSUME NEW c \in Calls, NEW o \in Ops, NEW s \in Sessions,
            NEW n \in 1..MaxStatements, Invoke(c, o, s, n)
     PROVE  EngineMatchesOwner'
  BY <1>1 DEF Invoke, Goto
<1>2. ASSUME NEW c \in Calls, OpenConnect(c) PROVE EngineMatchesOwner'
  <2>1. /\ sid[c] \notin issued
        /\ sid[c] \notin sessions
        /\ \A d \in Calls \ {c} : op[d] # None => sid[d] # sid[c]
    BY <1>2, OpenerIsNew DEF OpenConnect, Goto
  <2>. QED  BY <1>2, <2>1 DEF OpenConnect, Goto
<1>3. ASSUME NEW c \in Calls, OpenPingFails(c) PROVE EngineMatchesOwner'
  BY <1>3 DEF OpenPingFails, Goto
<1>4. ASSUME NEW c \in Calls, OpenPut(c) PROVE EngineMatchesOwner'
  BY <1>4 DEF OpenPut, Goto, SessionsMuFree
<1>5. ASSUME NEW c \in Calls, CloseRemove(c) PROVE EngineMatchesOwner'
  BY <1>5 DEF CloseRemove, Goto, SessionsMuFree
<1>6. ASSUME NEW c \in Calls, CloseBegin(c) PROVE EngineMatchesOwner'
  BY <1>6 DEF CloseBegin, Goto
<1>7. ASSUME NEW c \in Calls, CloseEnd(c) PROVE EngineMatchesOwner'
  BY <1>7 DEF CloseEnd, Goto, Drained
<1>8. ASSUME NEW c \in Calls,
            Lookup(c) \/ PutCancel(c) \/ CheckPool(c) \/ UsePool(c) \/
            StatementReturns(c) \/ RecordHistory(c) \/ PopCancel(c) \/
            TakeCancel(c) \/ CallCancel(c)
     PROVE  EngineMatchesOwner'
  BY <1>8 DEF Lookup, Goto, SessionsMuFree, PutCancel, CheckPool,
     StatementEnds, UsePool, AfterResults, StatementReturns, RecordHistory,
     PopCancel, TakeCancel, CallCancel
<1>9. ASSUME NEW s \in Sessions, ShutdownCloseBegin(s) PROVE EngineMatchesOwner'
  BY <1>9 DEF ShutdownCloseBegin
<1>10. ASSUME NEW s \in Sessions, ShutdownCloseEnd(s) PROVE EngineMatchesOwner'
  BY <1>10 DEF ShutdownCloseEnd, Drained
<1>11. CASE ShutdownUnlocks
  BY <1>11 DEF ShutdownUnlocks
<1>12. CASE UNCHANGED vars \/ DeleteConnection \/ ShutdownCancels \/
   ShutdownLocks \/ ShutdownClosesStorage
  BY <1>12 DEF vars, DeleteConnection, ShutdownCancels, ShutdownLocks,
     ShutdownClosesStorage
<1>. QED BY <1>1, <1>2, <1>3, <1>4, <1>5, <1>6, <1>7, <1>8, <1>9, <1>10,
   <1>11, <1>12 DEF Next, Step, Shutdown, Terminated

\* An engine passes from its opener to the map and from there to one closer.
LEMMA OwnerStep == SessionInv /\ [Next]_vars => EngineOwnedOnce'
<1> SUFFICES ASSUME SessionInv, [Next]_vars PROVE EngineOwnedOnce'
  OBVIOUS
<1> USE OpsAssumption, NoneAssumption DEF TypeOK, PCs, AllOps, UserOps,
   SessionInv, mapVars, ctxVars, argVars, logVars, CallShape, IdsOpenedOnce,
   EngineMatchesOwner, EngineOwnedOnce, OwnedByMap, Stranded, Openers,
   Closers
<1>1. ASSUME NEW c \in Calls, NEW o \in Ops, NEW s \in Sessions,
            NEW n \in 1..MaxStatements, Invoke(c, o, s, n)
     PROVE  EngineOwnedOnce'
  BY <1>1 DEF Invoke, Goto
<1>2. ASSUME NEW c \in Calls, OpenConnect(c) PROVE EngineOwnedOnce'
  <2>1. /\ sid[c] \notin issued
        /\ sid[c] \notin sessions
        /\ \A d \in Calls \ {c} : op[d] # None => sid[d] # sid[c]
    BY <1>2, OpenerIsNew DEF OpenConnect, Goto
  <2>. QED  BY <1>2, <2>1 DEF OpenConnect, Goto
<1>3. ASSUME NEW c \in Calls, OpenPingFails(c) PROVE EngineOwnedOnce'
  BY <1>3 DEF OpenPingFails, Goto
<1>4. ASSUME NEW c \in Calls, OpenPut(c) PROVE EngineOwnedOnce'
  BY <1>4 DEF OpenPut, Goto, SessionsMuFree
<1>5. ASSUME NEW c \in Calls, CloseRemove(c) PROVE EngineOwnedOnce'
  BY <1>5 DEF CloseRemove, Goto, SessionsMuFree
<1>6. ASSUME NEW c \in Calls, CloseBegin(c) PROVE EngineOwnedOnce'
  BY <1>6 DEF CloseBegin, Goto
<1>7. ASSUME NEW c \in Calls, CloseEnd(c) PROVE EngineOwnedOnce'
  BY <1>7 DEF CloseEnd, Goto, Drained
<1>8. ASSUME NEW c \in Calls,
            Lookup(c) \/ PutCancel(c) \/ CheckPool(c) \/ UsePool(c) \/
            StatementReturns(c) \/ RecordHistory(c) \/ PopCancel(c) \/
            TakeCancel(c) \/ CallCancel(c)
     PROVE  EngineOwnedOnce'
  BY <1>8 DEF Lookup, Goto, SessionsMuFree, PutCancel, CheckPool,
     StatementEnds, UsePool, AfterResults, StatementReturns, RecordHistory,
     PopCancel, TakeCancel, CallCancel
<1>9. ASSUME NEW s \in Sessions, ShutdownCloseBegin(s) PROVE EngineOwnedOnce'
  BY <1>9 DEF ShutdownCloseBegin
<1>10. ASSUME NEW s \in Sessions, ShutdownCloseEnd(s) PROVE EngineOwnedOnce'
  BY <1>10 DEF ShutdownCloseEnd, Drained
<1>11. CASE ShutdownUnlocks
  BY <1>11 DEF ShutdownUnlocks
<1>12. CASE UNCHANGED vars \/ DeleteConnection \/ ShutdownCancels \/
   ShutdownLocks \/ ShutdownClosesStorage
  BY <1>12 DEF vars, DeleteConnection, ShutdownCancels, ShutdownLocks,
     ShutdownClosesStorage
<1>. QED BY <1>1, <1>2, <1>3, <1>4, <1>5, <1>6, <1>7, <1>8, <1>9, <1>10,
   <1>11, <1>12 DEF Next, Step, Shutdown, Terminated

\* The map holds open engines whenever its mutex is free.
LEMMA MapStep == SessionInv /\ [Next]_vars => MapHoldsOpenEngines'
<1> SUFFICES ASSUME SessionInv, [Next]_vars PROVE MapHoldsOpenEngines'
  OBVIOUS
<1> USE OpsAssumption, NoneAssumption DEF TypeOK, PCs, AllOps, UserOps,
   SessionInv, mapVars, ctxVars, argVars, logVars, CallShape, IdsOpenedOnce,
   EngineMatchesOwner, EngineOwnedOnce, OwnedByMap, Stranded,
   MapHoldsOpenEngines, Openers, Closers, SessionsMuFree
<1>1. ASSUME NEW c \in Calls, NEW o \in Ops, NEW s \in Sessions,
            NEW n \in 1..MaxStatements, Invoke(c, o, s, n)
     PROVE  MapHoldsOpenEngines'
  BY <1>1 DEF Invoke, Goto
<1>2. ASSUME NEW c \in Calls, OpenConnect(c) PROVE MapHoldsOpenEngines'
  BY <1>2 DEF OpenConnect, Goto
<1>3. ASSUME NEW c \in Calls, OpenPingFails(c) PROVE MapHoldsOpenEngines'
  BY <1>3 DEF OpenPingFails, Goto
<1>4. ASSUME NEW c \in Calls, OpenPut(c) PROVE MapHoldsOpenEngines'
  BY <1>4 DEF OpenPut, Goto, SessionsMuFree
<1>5. ASSUME NEW c \in Calls, CloseRemove(c) PROVE MapHoldsOpenEngines'
  BY <1>5 DEF CloseRemove, Goto, SessionsMuFree
<1>6. ASSUME NEW c \in Calls, CloseBegin(c) PROVE MapHoldsOpenEngines'
  BY <1>6 DEF CloseBegin, Goto
<1>7. ASSUME NEW c \in Calls, CloseEnd(c) PROVE MapHoldsOpenEngines'
  BY <1>7 DEF CloseEnd, Goto, Drained
<1>8. ASSUME NEW c \in Calls,
            Lookup(c) \/ PutCancel(c) \/ CheckPool(c) \/ UsePool(c) \/
            StatementReturns(c) \/ RecordHistory(c) \/ PopCancel(c) \/
            TakeCancel(c) \/ CallCancel(c)
     PROVE  MapHoldsOpenEngines'
  BY <1>8 DEF Lookup, Goto, SessionsMuFree, PutCancel, CheckPool,
     StatementEnds, UsePool, AfterResults, StatementReturns, RecordHistory,
     PopCancel, TakeCancel, CallCancel
<1>9. ASSUME NEW s \in Sessions, ShutdownCloseBegin(s) \/ ShutdownCloseEnd(s)
     PROVE  MapHoldsOpenEngines'
  BY <1>9 DEF ShutdownCloseBegin, ShutdownCloseEnd, Drained
<1>10. CASE UNCHANGED vars \/ DeleteConnection \/ ShutdownCancels \/
   ShutdownLocks \/ ShutdownUnlocks \/ ShutdownClosesStorage
  BY <1>10 DEF vars, DeleteConnection, ShutdownCancels, ShutdownLocks,
     ShutdownUnlocks, ShutdownClosesStorage
<1>. QED BY <1>1, <1>2, <1>3, <1>4, <1>5, <1>6, <1>7, <1>8, <1>9, <1>10 DEF
   Next, Step, Shutdown, Terminated

\* Every way out of RunQuery passes the deferred pop.
LEMMA RegisteredStep == SessionInv /\ [Next]_vars => RegisteredCancelIsLive'
<1> SUFFICES ASSUME SessionInv, [Next]_vars PROVE RegisteredCancelIsLive'
  OBVIOUS
<1> USE OpsAssumption, NoneAssumption DEF TypeOK, PCs, AllOps, UserOps,
   SessionInv, mapVars, ctxVars, argVars, logVars, CallShape,
   RegisteredCancelIsLive
<1>1. ASSUME NEW c \in Calls, NEW o \in Ops, NEW s \in Sessions,
            NEW n \in 1..MaxStatements, Invoke(c, o, s, n)
     PROVE  RegisteredCancelIsLive'
  BY <1>1 DEF Invoke, Goto
<1>2. ASSUME NEW c \in Calls, PutCancel(c) PROVE RegisteredCancelIsLive'
  BY <1>2 DEF PutCancel, Goto
<1>3. ASSUME NEW c \in Calls, CheckPool(c) PROVE RegisteredCancelIsLive'
  BY <1>3 DEF CheckPool, StatementEnds
<1>4. ASSUME NEW c \in Calls, UsePool(c) PROVE RegisteredCancelIsLive'
  BY <1>4 DEF UsePool, StatementEnds, AfterResults
<1>5. ASSUME NEW c \in Calls, StatementReturns(c) PROVE RegisteredCancelIsLive'
  BY <1>5 DEF StatementReturns, StatementEnds
<1>6. ASSUME NEW c \in Calls, RecordHistory(c) PROVE RegisteredCancelIsLive'
  BY <1>6 DEF RecordHistory, AfterResults
<1>7. ASSUME NEW c \in Calls, PopCancel(c) PROVE RegisteredCancelIsLive'
  BY <1>7 DEF PopCancel, Goto
<1>8. ASSUME NEW c \in Calls, TakeCancel(c) PROVE RegisteredCancelIsLive'
  BY <1>8 DEF TakeCancel, Goto
<1>9. ASSUME NEW c \in Calls,
            OpenConnect(c) \/ OpenPingFails(c) \/ OpenPut(c) \/ Lookup(c) \/
            CallCancel(c) \/ CloseRemove(c) \/ CloseBegin(c) \/
            CloseEnd(c)
     PROVE  RegisteredCancelIsLive'
  BY <1>9 DEF OpenConnect, Goto, OpenPingFails, OpenPut, SessionsMuFree,
     Lookup, CallCancel, CloseRemove, CloseBegin, CloseEnd, Drained
<1>10. ASSUME NEW s \in Sessions, ShutdownCloseBegin(s) \/ ShutdownCloseEnd(s)
     PROVE  RegisteredCancelIsLive'
  BY <1>10 DEF ShutdownCloseBegin, ShutdownCloseEnd, Drained
<1>11. CASE UNCHANGED vars \/ DeleteConnection \/ ShutdownCancels \/
   ShutdownLocks \/ ShutdownUnlocks \/ ShutdownClosesStorage
  BY <1>11 DEF vars, DeleteConnection, ShutdownCancels, ShutdownLocks,
     ShutdownUnlocks, ShutdownClosesStorage
<1>. QED BY <1>1, <1>2, <1>3, <1>4, <1>5, <1>6, <1>7, <1>8, <1>9, <1>10,
   <1>11 DEF Next, Step, Shutdown, Terminated

\* A popped CancelFunc keeps naming a query of the popping call's session.
LEMMA HeldStep == SessionInv /\ [Next]_vars => CancelHitsOwnSession'
<1> SUFFICES ASSUME SessionInv, [Next]_vars PROVE CancelHitsOwnSession'
  OBVIOUS
<1> USE OpsAssumption, NoneAssumption DEF TypeOK, PCs, AllOps, UserOps,
   SessionInv, mapVars, ctxVars, argVars, logVars, CallShape,
   RegisteredCancelIsLive, CancelHitsOwnSession
<1>1. ASSUME NEW c \in Calls, NEW o \in Ops, NEW s \in Sessions,
            NEW n \in 1..MaxStatements, Invoke(c, o, s, n)
     PROVE  CancelHitsOwnSession'
  <2> SUFFICES ASSUME NEW d \in Calls, held[d] # None
               PROVE  op'[held[d]] = "run" /\ sid'[held[d]] = sid'[d]
    BY <1>1 DEF Invoke
  <2>1. held[d] \in Calls /\ op[held[d]] = "run" /\ sid[held[d]] = sid[d]
    OBVIOUS
  <2>2. held[d] # c /\ d # c
    BY <1>1, <2>1 DEF Invoke, Goto
  <2>. QED  BY <1>1, <2>1, <2>2 DEF Invoke
<1>2. ASSUME NEW c \in Calls, TakeCancel(c) PROVE CancelHitsOwnSession'
  BY <1>2 DEF TakeCancel, Goto
<1>3. ASSUME NEW c \in Calls, CallCancel(c) PROVE CancelHitsOwnSession'
  BY <1>3 DEF CallCancel, Goto
<1>4. ASSUME NEW c \in Calls,
            OpenConnect(c) \/ OpenPingFails(c) \/ OpenPut(c) \/ Lookup(c) \/
            PutCancel(c) \/ CheckPool(c) \/ UsePool(c) \/
            StatementReturns(c) \/ RecordHistory(c) \/ PopCancel(c) \/
            CloseRemove(c) \/ CloseBegin(c) \/ CloseEnd(c)
     PROVE  CancelHitsOwnSession'
  BY <1>4 DEF OpenConnect, Goto, OpenPingFails, OpenPut, SessionsMuFree,
     Lookup, PutCancel, CheckPool, StatementEnds, UsePool, AfterResults,
     StatementReturns, RecordHistory, PopCancel, CloseRemove, CloseBegin,
     CloseEnd, Drained
<1>5. ASSUME NEW s \in Sessions, ShutdownCloseBegin(s) \/ ShutdownCloseEnd(s)
     PROVE  CancelHitsOwnSession'
  BY <1>5 DEF ShutdownCloseBegin, ShutdownCloseEnd, Drained
<1>6. CASE UNCHANGED vars \/ DeleteConnection \/ ShutdownCancels \/
   ShutdownLocks \/ ShutdownUnlocks \/ ShutdownClosesStorage
  BY <1>6 DEF vars, DeleteConnection, ShutdownCancels, ShutdownLocks,
     ShutdownUnlocks, ShutdownClosesStorage
<1>. QED BY <1>1, <1>2, <1>3, <1>4, <1>5, <1>6 DEF Next, Step, Shutdown,
   Terminated

\* Close waits for the statements of a Postgres pool before it drops it.
LEMMA TeardownStep == SessionInv /\ [Next]_vars => NoTeardownUnderStatement'
<1> SUFFICES ASSUME SessionInv, [Next]_vars PROVE NoTeardownUnderStatement'
  OBVIOUS
<1> USE OpsAssumption, NoneAssumption DEF TypeOK, PCs, AllOps, UserOps,
   SessionInv, mapVars, ctxVars, argVars, logVars, CallShape, IdsOpenedOnce,
   NoTeardownUnderStatement, InFlight, Drained
<1>1. ASSUME NEW c \in Calls, NEW o \in Ops, NEW s \in Sessions,
            NEW n \in 1..MaxStatements, Invoke(c, o, s, n)
     PROVE  NoTeardownUnderStatement'
  BY <1>1 DEF Invoke, Goto
<1>2. ASSUME NEW c \in Calls, OpenConnect(c) PROVE NoTeardownUnderStatement'
  BY <1>2 DEF OpenConnect, Goto
<1>3. ASSUME NEW c \in Calls, OpenPingFails(c) PROVE NoTeardownUnderStatement'
  <2>1. /\ sid[c] \notin issued
        /\ sid[c] \notin sessions
        /\ \A d \in Calls \ {c} : op[d] # None => sid[d] # sid[c]
    BY <1>3, OpenerIsNew DEF OpenPingFails, Goto
  <2>. QED  BY <1>3, <2>1 DEF OpenPingFails, Goto
<1>4. ASSUME NEW c \in Calls, CheckPool(c) PROVE NoTeardownUnderStatement'
  BY <1>4 DEF CheckPool, StatementEnds
<1>5. ASSUME NEW c \in Calls, UsePool(c) PROVE NoTeardownUnderStatement'
  BY <1>5 DEF UsePool, StatementEnds, AfterResults
<1>6. ASSUME NEW c \in Calls, StatementReturns(c) PROVE NoTeardownUnderStatement'
  BY <1>6 DEF StatementReturns, StatementEnds
<1>7. ASSUME NEW c \in Calls, CloseBegin(c) PROVE NoTeardownUnderStatement'
  BY <1>7 DEF CloseBegin, Goto
<1>8. ASSUME NEW c \in Calls, CloseEnd(c) PROVE NoTeardownUnderStatement'
  BY <1>8 DEF CloseEnd, Goto, Drained
<1>9. ASSUME NEW c \in Calls,
            OpenPut(c) \/ Lookup(c) \/ PutCancel(c) \/ RecordHistory(c) \/
            PopCancel(c) \/ TakeCancel(c) \/ CallCancel(c) \/
            CloseRemove(c)
     PROVE  NoTeardownUnderStatement'
  BY <1>9 DEF OpenPut, Goto, SessionsMuFree, Lookup, PutCancel,
     RecordHistory, AfterResults, PopCancel, TakeCancel, CallCancel,
     CloseRemove
<1>10. ASSUME NEW s \in Sessions, ShutdownCloseBegin(s) PROVE NoTeardownUnderStatement'
  BY <1>10 DEF ShutdownCloseBegin
<1>11. ASSUME NEW s \in Sessions, ShutdownCloseEnd(s) PROVE NoTeardownUnderStatement'
  BY <1>11 DEF ShutdownCloseEnd, Drained
<1>12. CASE UNCHANGED vars \/ DeleteConnection \/ ShutdownCancels \/
   ShutdownLocks \/ ShutdownUnlocks \/ ShutdownClosesStorage
  BY <1>12 DEF vars, DeleteConnection, ShutdownCancels, ShutdownLocks,
     ShutdownUnlocks, ShutdownClosesStorage
<1>. QED BY <1>1, <1>2, <1>3, <1>4, <1>5, <1>6, <1>7, <1>8, <1>9, <1>10,
   <1>11, <1>12 DEF Next, Step, Shutdown, Terminated

\* The insert and the cascade keep history rows within their connection.
LEMMA HistoryStep == SessionInv /\ [Next]_vars => HistoryRefersToConnection'
<1> SUFFICES ASSUME SessionInv, [Next]_vars PROVE HistoryRefersToConnection'
  OBVIOUS
<1> USE OpsAssumption, StatementsAssumption, NoneAssumption DEF TypeOK, PCs,
   AllOps, UserOps, SessionInv, mapVars, ctxVars, argVars, logVars,
   CallShape, LoggedWithinScript, HistoryRefersToConnection
<1>1. ASSUME NEW c \in Calls, NEW o \in Ops, NEW s \in Sessions,
            NEW n \in 1..MaxStatements, Invoke(c, o, s, n)
     PROVE  HistoryRefersToConnection'
  BY <1>1 DEF Invoke, Goto
<1>2. ASSUME NEW c \in Calls, RecordHistory(c) PROVE HistoryRefersToConnection'
  BY <1>2 DEF RecordHistory, AfterResults
<1>3. ASSUME NEW c \in Calls,
            OpenConnect(c) \/ OpenPingFails(c) \/ OpenPut(c) \/ Lookup(c) \/
            PutCancel(c) \/ CheckPool(c) \/ UsePool(c) \/
            StatementReturns(c) \/ PopCancel(c) \/ TakeCancel(c) \/
            CallCancel(c) \/ CloseRemove(c) \/ CloseBegin(c) \/
            CloseEnd(c)
     PROVE  HistoryRefersToConnection'
  BY <1>3 DEF OpenConnect, Goto, OpenPingFails, OpenPut, SessionsMuFree,
     Lookup, PutCancel, CheckPool, StatementEnds, UsePool, AfterResults,
     StatementReturns, PopCancel, TakeCancel, CallCancel, CloseRemove,
     CloseBegin, CloseEnd, Drained
<1>4. CASE DeleteConnection
  BY <1>4 DEF DeleteConnection
<1>5. ASSUME NEW s \in Sessions, ShutdownCloseBegin(s) \/ ShutdownCloseEnd(s)
     PROVE  HistoryRefersToConnection'
  BY <1>5 DEF ShutdownCloseBegin, ShutdownCloseEnd, Drained
<1>6. CASE UNCHANGED vars \/ ShutdownCancels \/ ShutdownLocks \/
   ShutdownUnlocks \/ ShutdownClosesStorage
  BY <1>6 DEF vars, ShutdownCancels, ShutdownLocks, ShutdownUnlocks,
     ShutdownClosesStorage
<1>. QED BY <1>1, <1>2, <1>3, <1>4, <1>5, <1>6 DEF Next, Step, Shutdown,
   Terminated

-----------------------------------------------------------------------------
\* SessionInv holds initially ...
LEMMA InitInv == Init => SessionInv
<1> SUFFICES ASSUME Init PROVE SessionInv
  OBVIOUS
<1> USE StatementsAssumption, NoneAssumption DEF Init, AllOps
<1>1. TypeOK
  BY DEF TypeOK, PCs
<1>2. CallShape /\ IdsOpenedOnce /\ LoggedWithinScript
  BY DEF CallShape, IdsOpenedOnce, LoggedWithinScript
<1>3. EngineMatchesOwner /\ MapHoldsOpenEngines
  BY DEF EngineMatchesOwner, MapHoldsOpenEngines
<1>4. EngineOwnedOnce
  BY DEF EngineOwnedOnce, OwnedByMap, Stranded, Openers, Closers
<1>5. RegisteredCancelIsLive /\ CancelHitsOwnSession
  BY DEF RegisteredCancelIsLive, CancelHitsOwnSession
<1>6. NoTeardownUnderStatement /\ HistoryRefersToConnection
  BY DEF NoTeardownUnderStatement, InFlight, HistoryRefersToConnection
<1>. QED  BY <1>1, <1>2, <1>3, <1>4, <1>5, <1>6 DEF SessionInv

\* ... and is preserved by every step.
LEMMA InductiveInv == SessionInv /\ [Next]_vars => SessionInv'
  BY TypeStep, ShapeStep, IdsStep, LogStep, EngineStep, OwnerStep, MapStep,
     RegisteredStep, HeldStep, TeardownStep, HistoryStep DEF SessionInv

\* SessionInv is an invariant of the sessions code.
THEOREM Invariance == Spec => []SessionInv
  BY InitInv, InductiveInv, PTL DEF Spec

\* The maps, engines and goroutines of App keep their types.
THEOREM TypeCorrect == Spec => []TypeOK
<1>1. SessionInv => TypeOK
  BY DEF SessionInv
<1>. QED  BY <1>1, Invariance, PTL

\* A connected engine has exactly one party that will close it, unless an
\* OpenConnection put it into the map after the shutdown had dropped that.
THEOREM NoLeakNoDoubleClose == Spec => []EngineOwnedOnce
<1>1. SessionInv => EngineOwnedOnce
  BY DEF SessionInv
<1>. QED  BY <1>1, Invariance, PTL

\* A session found in App.querySessions has a connected engine.
THEOREM MapIsOpen == Spec => []MapHoldsOpenEngines
<1>1. SessionInv => MapHoldsOpenEngines
  BY DEF SessionInv
<1>. QED  BY <1>1, Invariance, PTL

\* App.queryCancels names only running calls, under their own session.
THEOREM RegistryIsLive == Spec => []RegisteredCancelIsLive
<1>1. SessionInv => RegisteredCancelIsLive
  BY DEF SessionInv
<1>. QED  BY <1>1, Invariance, PTL

\* Cancelling or closing a session never cancels a query of another one.
THEOREM CancelIsLocal == Spec => []CancelHitsOwnSession
<1>1. SessionInv => CancelHitsOwnSession
  BY DEF SessionInv
<1>. QED  BY <1>1, Invariance, PTL

\* Engine.Close never drops a Postgres pool under a running statement.
THEOREM NoTeardown == Spec => []NoTeardownUnderStatement
<1>1. SessionInv => NoTeardownUnderStatement
  BY DEF SessionInv
<1>. QED  BY <1>1, Invariance, PTL

\* query_history refers to an existing connection of the call's session.
THEOREM HistoryIsFaithful == Spec => []HistoryRefersToConnection
<1>1. SessionInv => HistoryRefersToConnection
  BY DEF SessionInv
<1>. QED  BY <1>1, Invariance, PTL

-----------------------------------------------------------------------------
(***************************************************************************)
(* One query at a time: MaxInFlight = 1 is the editor tab, whose Run button *)
(* is disabled while its query runs.                                       *)
(***************************************************************************)

\* The frontend runs no second query of a session before the first returned.
LEMMA OneRunStep ==
    ASSUME MaxInFlight = 1, IsFiniteSet(Calls), SessionInv, OneRunPerSession,
           [Next]_vars
    PROVE  OneRunPerSession'
<1> USE OpsAssumption, NoneAssumption DEF TypeOK, PCs, AllOps, UserOps,
   SessionInv, mapVars, ctxVars, argVars, logVars, CallShape,
   OneRunPerSession, Finished
<1>1. ASSUME NEW c \in Calls, NEW o \in Ops, NEW s \in Sessions,
            NEW n \in 1..MaxStatements, Invoke(c, o, s, n)
     PROVE  OneRunPerSession'
  <2>1. CASE o # "run"
    BY <1>1, <2>1 DEF Invoke, Goto
  <2>2. CASE o = "run"
    <3>1. IsFiniteSet(RunCalls(s))
      BY FS_Subset DEF RunCalls
    <3>2. Cardinality(RunCalls(s)) \in Nat /\ Cardinality(RunCalls(s)) < 1
      BY <1>1, <2>2, <3>1, FS_CardinalityType DEF Invoke
    <3>3. RunCalls(s) = {}
      BY <3>1, <3>2, FS_EmptySet
    <3>. QED  BY <1>1, <2>2, <3>3 DEF Invoke, Goto, RunCalls
  <2>. QED  BY <2>1, <2>2
<1>2. ASSUME NEW c \in Calls, CheckPool(c) PROVE OneRunPerSession'
  BY <1>2 DEF CheckPool, StatementEnds
<1>3. ASSUME NEW c \in Calls, UsePool(c) PROVE OneRunPerSession'
  BY <1>3 DEF UsePool, StatementEnds, AfterResults
<1>4. ASSUME NEW c \in Calls, StatementReturns(c) PROVE OneRunPerSession'
  BY <1>4 DEF StatementReturns, StatementEnds
<1>5. ASSUME NEW c \in Calls, RecordHistory(c) PROVE OneRunPerSession'
  BY <1>5 DEF RecordHistory, AfterResults
<1>6. ASSUME NEW c \in Calls,
            OpenConnect(c) \/ OpenPingFails(c) \/ OpenPut(c) \/ Lookup(c)
            \/ PutCancel(c) \/ PopCancel(c) \/ TakeCancel(c)
            \/ CallCancel(c) \/ CloseRemove(c) \/ CloseBegin(c)
            \/ CloseEnd(c)
     PROVE  OneRunPerSession'
  BY <1>6 DEF OpenConnect, Goto, OpenPingFails, OpenPut, Lookup, PutCancel,
     PopCancel, TakeCancel, CallCancel, CloseRemove, CloseBegin, CloseEnd
<1>7. ASSUME NEW s \in Sessions, ShutdownCloseBegin(s) \/ ShutdownCloseEnd(s)
     PROVE  OneRunPerSession'
  BY <1>7 DEF ShutdownCloseBegin, ShutdownCloseEnd
<1>8. CASE UNCHANGED vars \/ DeleteConnection \/ ShutdownCancels \/
   ShutdownLocks \/ ShutdownUnlocks \/ ShutdownClosesStorage
  BY <1>8 DEF vars, DeleteConnection, ShutdownCancels, ShutdownLocks,
     ShutdownUnlocks, ShutdownClosesStorage
<1>. QED BY <1>1, <1>2, <1>3, <1>4, <1>5, <1>6, <1>7, <1>8 DEF Next, Step,
   Shutdown, Terminated

\* Whoever takes a CancelFunc out of the registry is its call, which then
\* calls it, or holds it, or has called it.
LEMMA ReachStep ==
    ASSUME SessionInv, OneRunPerSession, CancelWithinReach, [Next]_vars
    PROVE  CancelWithinReach'
<1> USE OpsAssumption, NoneAssumption DEF TypeOK, PCs, AllOps, UserOps,
   SessionInv, mapVars, ctxVars, argVars, logVars, CallShape,
   RegisteredCancelIsLive, CancelWithinReach
<1>1. ASSUME NEW c \in Calls, NEW o \in Ops, NEW s \in Sessions,
            NEW n \in 1..MaxStatements, Invoke(c, o, s, n)
     PROVE  CancelWithinReach'
  BY <1>1 DEF Invoke, Goto
<1>2. ASSUME NEW c \in Calls, CheckPool(c) PROVE CancelWithinReach'
  BY <1>2 DEF CheckPool, StatementEnds
<1>3. ASSUME NEW c \in Calls, UsePool(c) PROVE CancelWithinReach'
  BY <1>3 DEF UsePool, StatementEnds, AfterResults
<1>4. ASSUME NEW c \in Calls, StatementReturns(c) PROVE CancelWithinReach'
  BY <1>4 DEF StatementReturns, StatementEnds
<1>5. ASSUME NEW c \in Calls, RecordHistory(c) PROVE CancelWithinReach'
  BY <1>5 DEF RecordHistory, AfterResults
<1>6. ASSUME NEW c \in Calls, PutCancel(c) \/ PopCancel(c)
     PROVE  CancelWithinReach'
  <2>1. sid[c] \in Sessions /\ op[c] = "run" /\ ~Finished(c)
    BY <1>6 DEF PutCancel, PopCancel, Goto, Finished
  <2>2. ASSUME NEW d \in Calls, cancels[sid[c]] = d PROVE d = c
    BY <2>1, <2>2 DEF OneRunPerSession, Finished
  <2>. QED  BY <1>6, <2>1, <2>2 DEF PutCancel, PopCancel, Goto
<1>7. ASSUME NEW c \in Calls, TakeCancel(c) PROVE CancelWithinReach'
  <2>1. /\ sid[c] \in Sessions /\ held[c] = None
        /\ held' = [held EXCEPT ![c] = cancels[sid[c]]]
        /\ cancels' = [cancels EXCEPT ![sid[c]] = None]
        /\ op[c] # "run"
        /\ UNCHANGED <<cancelled, op, sid>>
    BY <1>7 DEF TakeCancel, Goto
  <2>2. \A d \in Calls \ {c} : pc'[d] = pc[d]
    BY <1>7 DEF TakeCancel, Goto
  <2>3. ASSUME NEW d \in Calls, op[d] = "run",
               pc'[d] \in {"ready", "checked", "inflight", "logging", "popping"}
        PROVE  \/ d \in cancelled'
               \/ cancels'[sid'[d]] = d
               \/ \E e \in Calls : held'[e] = d
    <3>1. d # c /\ pc[d] = pc'[d] /\ sid[d] \in Sessions
      BY <2>1, <2>2, <2>3
    <3>2. CASE d \in cancelled
      BY <2>1, <3>2
    <3>3. CASE cancels[sid[d]] = d
      BY <2>1, <3>1, <3>3
    <3>4. CASE \E e \in Calls : held[e] = d
      BY <2>1, <3>4
    <3>. QED  BY <2>3, <3>1, <3>2, <3>3, <3>4
  <2>. QED  BY <2>1, <2>3
<1>8. ASSUME NEW c \in Calls, CallCancel(c) PROVE CancelWithinReach'
  BY <1>8 DEF CallCancel, Goto
<1>9. ASSUME NEW c \in Calls,
            OpenConnect(c) \/ OpenPingFails(c) \/ OpenPut(c) \/ Lookup(c)
            \/ CloseRemove(c) \/ CloseBegin(c) \/ CloseEnd(c)
     PROVE  CancelWithinReach'
  BY <1>9 DEF OpenConnect, Goto, OpenPingFails, OpenPut, Lookup,
     CloseRemove, CloseBegin, CloseEnd
<1>10. CASE ShutdownCancels
  BY <1>10 DEF ShutdownCancels
<1>11. ASSUME NEW s \in Sessions, ShutdownCloseBegin(s) \/ ShutdownCloseEnd(s)
     PROVE  CancelWithinReach'
  BY <1>11 DEF ShutdownCloseBegin, ShutdownCloseEnd
<1>12. CASE UNCHANGED vars \/ DeleteConnection \/ ShutdownLocks \/
   ShutdownUnlocks \/ ShutdownClosesStorage
  BY <1>12 DEF vars, DeleteConnection, ShutdownLocks, ShutdownUnlocks,
     ShutdownClosesStorage
<1>. QED BY <1>1, <1>2, <1>3, <1>4, <1>5, <1>6, <1>7, <1>8, <1>9, <1>10,
   <1>11, <1>12 DEF Next, Step, Shutdown, Terminated

\* While a session has one query at a time, CancelQuery can reach it.
THEOREM AloneIsCancellable ==
    ASSUME MaxInFlight = 1, IsFiniteSet(Calls)
    PROVE  Spec => []RunningQueryCancellable
<1>1. Init => OneRunPerSession /\ CancelWithinReach
  BY NoneAssumption DEF Init, OneRunPerSession, CancelWithinReach, AllOps
<1>2. SessionInv /\ OneRunPerSession /\ CancelWithinReach /\ [Next]_vars
         => OneRunPerSession' /\ CancelWithinReach'
  BY OneRunStep, ReachStep
<1>3. CancelWithinReach => RunningQueryCancellable
  BY DEF CancelWithinReach, RunningQueryCancellable, InFlight
<1>. QED  BY <1>1, <1>2, <1>3, Invariance, PTL DEF Spec

-----------------------------------------------------------------------------
(***************************************************************************)
(* The sessions code implements SessionLifecycle.                          *)
(***************************************************************************)

\* A step that leaves the map alone and moves every goroutine within one
\* phase of its call is invisible to the frontend.
LEMMA Invisible ==
    ASSUME SessionInv, UNCHANGED <<mapVars, op, sid>>,
           \A c \in Calls :
              op[c] \in UserOps =>
                 (pc[c] \in {"called", "refused"} <=>
                  pc'[c] \in {"called", "refused"}),
           \A c \in Calls :
              op[c] = "close" =>
                 (pc[c] \in {"closing", "draining", "done"} <=>
                  pc'[c] \in {"closing", "draining", "done"})
    PROVE  UNCHANGED Lifecycle!vars
  BY DEF Lifecycle!vars, mapVars

\* Every step of the code is a step of the life cycle, or none at all.
LEMMA StepRefines ==
    SessionInv /\ [Next]_vars => [Lifecycle!Next]_(Lifecycle!vars)
<1> SUFFICES ASSUME SessionInv, [Next]_vars
             PROVE  [Lifecycle!Next]_(Lifecycle!vars)
  OBVIOUS
<1> USE NoneAssumption, OpsAssumption
    DEF SessionInv, TypeOK, CallShape, AllOps, UserOps, PCs, mapVars, ctxVars,
        argVars, logVars
<1>1. ASSUME NEW c \in Calls, NEW o \in Ops, NEW s \in Sessions,
             NEW n \in 1..MaxStatements, Invoke(c, o, s, n)
      PROVE  UNCHANGED Lifecycle!vars
  BY <1>1 DEF Invoke, Goto, Lifecycle!vars
<1>2. ASSUME NEW c \in Calls, NEW s \in Sessions, s = sid[c], OpenPut(c)
      PROVE  Lifecycle!Issue(s)
  <2>1. sid[c] \notin issued
    BY <1>2, OpenerIsNew DEF OpenPut, Goto
  <2>. QED  BY <1>2, <2>1 DEF OpenPut, Goto, Lifecycle!Issue
<1>3. ASSUME NEW c \in Calls, NEW s \in Sessions, s = sid[c], Lookup(c)
      PROVE  Lifecycle!Serve(c, s) \/ UNCHANGED Lifecycle!vars
  <2>1. CASE sid[c] \notin sessions
    BY <1>3, <2>1, Invisible DEF Lookup, Goto
  <2>2. CASE sid[c] \in sessions
    <3>1. /\ op[c] \in UserOps /\ pc[c] = "called" /\ sid[c] \in issued
          /\ \E p \in {"found", "ready"} : pc' = [pc EXCEPT ![c] = p]
          /\ UNCHANGED <<sessions, issued, op, sid>>
      BY <1>3, <2>2 DEF Lookup, Goto
    <3> DEFINE Served == [d \in Calls |->
                            IF /\ op[d] \in UserOps
                               /\ pc[d] \notin {"called", "refused"}
                            THEN sid[d] ELSE None]
    <3>2. s \in issued /\ s \in sessions /\ Served[c] = None
      BY <1>3, <2>2, <3>1
    <3>3. Served' = [Served EXCEPT ![c] = s]
      BY <1>3, <3>1
    <3>4. UNCHANGED [d \in Calls |->
                       IF /\ op[d] = "close"
                          /\ pc[d] \in {"closing", "draining", "done"}
                       THEN sid[d] ELSE None]
      BY <3>1
    <3> HIDE DEF SessionInv, TypeOK, CallShape
    <3>. QED  BY <3>1, <3>2, <3>3, <3>4 DEF Lifecycle!Serve
  <2>. QED  BY <2>1, <2>2
<1>4. ASSUME NEW c \in Calls, NEW s \in Sessions, s = sid[c], CloseRemove(c)
      PROVE  Lifecycle!Retire(c, s) \/ UNCHANGED Lifecycle!vars
  <2>1. CASE sid[c] \notin sessions
    <3>1. sessions' = sessions
      BY <1>4, <2>1 DEF CloseRemove
    <3>. QED  BY <1>4, <2>1, <3>1, Invisible DEF CloseRemove, Goto
  <2>2. CASE sid[c] \in sessions
    <3>1. /\ op[c] = "close" /\ pc[c] = "removing" /\ sid[c] \in issued
          /\ pc' = [pc EXCEPT ![c] = "closing"]
          /\ sessions' = sessions \ {sid[c]}
          /\ UNCHANGED <<issued, op, sid>>
      BY <1>4, <2>2 DEF CloseRemove, Goto
    <3> DEFINE Life == [t \in Sessions |->
                          IF t \notin issued THEN "unused"
                          ELSE IF t \in sessions THEN "live" ELSE "gone"]
               Closed == [d \in Calls |->
                            IF /\ op[d] = "close"
                               /\ pc[d] \in {"closing", "draining", "done"}
                            THEN sid[d] ELSE None]
    <3>2. Life[s] = "live" /\ Closed[c] = None
      BY <1>4, <2>2, <3>1
    <3>3. Life' = [Life EXCEPT ![s] = "gone"]
      BY <1>4, <2>2, <3>1
    <3>4. Closed' = [Closed EXCEPT ![c] = s]
      BY <1>4, <3>1
    <3>5. UNCHANGED [d \in Calls |->
                       IF op[d] \in UserOps /\ pc[d] \notin {"called", "refused"}
                       THEN sid[d] ELSE None]
      BY <3>1
    <3> HIDE DEF SessionInv, TypeOK, CallShape
    <3>. QED  BY <3>2, <3>3, <3>4, <3>5 DEF Lifecycle!Retire
  <2>. QED  BY <2>1, <2>2
<1>5. ASSUME ShutdownUnlocks
      PROVE  Lifecycle!RetireAll
  BY <1>5 DEF ShutdownUnlocks, IdsOpenedOnce, Lifecycle!RetireAll
<1>6. ASSUME NEW c \in Calls,
             OpenConnect(c) \/ OpenPingFails(c) \/ PutCancel(c)
             \/ PopCancel(c) \/ TakeCancel(c) \/ CallCancel(c)
             \/ CloseBegin(c) \/ CloseEnd(c)
      PROVE  UNCHANGED Lifecycle!vars
  BY <1>6, Invisible
     DEF OpenConnect, OpenPingFails, PutCancel, PopCancel, TakeCancel,
         CallCancel, CloseBegin, CloseEnd, Goto
<1>7. ASSUME NEW c \in Calls,
             CheckPool(c) \/ UsePool(c) \/ StatementReturns(c)
             \/ RecordHistory(c)
      PROVE  UNCHANGED Lifecycle!vars
  BY <1>7, Invisible
     DEF CheckPool, UsePool, StatementReturns, RecordHistory, StatementEnds,
         AfterResults
<1>8. CASE \/ DeleteConnection \/ ShutdownCancels \/ ShutdownLocks
           \/ ShutdownClosesStorage \/ UNCHANGED vars
           \/ \E s \in Sessions : ShutdownCloseBegin(s) \/ ShutdownCloseEnd(s)
  BY <1>8 DEF DeleteConnection, ShutdownCancels, ShutdownLocks, vars,
     ShutdownClosesStorage, ShutdownCloseBegin, ShutdownCloseEnd,
     Lifecycle!vars
<1>9. ASSUME NEW c \in Calls, Lookup(c) \/ OpenPut(c) \/ CloseRemove(c)
      PROVE  [Lifecycle!Next]_(Lifecycle!vars)
  <2>1. PICK s \in Sessions : s = sid[c]
    BY <1>9 DEF Lookup, OpenPut, CloseRemove, Goto
  <2> HIDE DEF SessionInv, TypeOK, CallShape, PCs
  <2>2. CASE OpenPut(c)
    BY <1>2, <2>1, <2>2 DEF Lifecycle!Next
  <2>3. CASE Lookup(c)
    BY <1>3, <2>1, <2>3 DEF Lifecycle!Next
  <2>4. CASE CloseRemove(c)
    BY <1>4, <2>1, <2>4 DEF Lifecycle!Next
  <2>. QED  BY <1>9, <2>2, <2>3, <2>4
<1>10. ShutdownUnlocks => [Lifecycle!Next]_(Lifecycle!vars)
  BY <1>5 DEF Lifecycle!Next
<1>. QED  BY <1>1, <1>6, <1>7, <1>8, <1>9, <1>10
            DEF Next, Step, Shutdown, Terminated

\* The locked maps and the multi-step calls of app.go give the frontend
\* sessions that are issued once, serve calls only while they are live, and
\* are closed by at most one call.
THEOREM Refinement == Spec => ImplementsLifecycle
<1>1. Init => Lifecycle!Init
  BY NoneAssumption DEF Init, Lifecycle!Init, UserOps
<1>. QED  BY <1>1, StepRefines, Invariance, PTL
            DEF Spec, ImplementsLifecycle, Lifecycle!Spec

=============================================================================
