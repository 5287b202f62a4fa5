--------------------------- MODULE QuerySessions ---------------------------
(***************************************************************************)
(* The SQL query sessions of app.go: the session map, the registry of      *)
(* cancel functions, and the bound methods that work on both while they    *)
(* run concurrently, one goroutine per call of the frontend:               *)
(* OpenConnection, RunQuery / RunMultiStatementQuery ("run"), the calls    *)
(* that use a session without registering a cancel function - with a row   *)
(* in query_history, as BrowseTableRows ("browse"), or without one, as     *)
(* ListTablesForSession ("introspect") -, CancelQuery,                     *)
(* CloseConnectionSession, and the shutdown callback.                      *)
(*                                                                         *)
(* An action is the code between two points where another goroutine can    *)
(* be observed: a critical section of querySessionsMu or queryCancelsMu, a *)
(* read of the engine's pool, a driver call.                               *)
(***************************************************************************)
EXTENDS Naturals, FiniteSets, CallIds

CONSTANTS Sessions,      \* ids uuid.NewString() returns
          Ops,           \* which bound methods the frontend uses
          MaxStatements, \* statements of one script (bound)
          MaxInFlight,   \* "run" calls the frontend keeps open per session
          PgSessions,    \* sessions whose engine is Postgres (else MySQL)
          SavedSessions  \* sessions opened from the saved connection

AllOps == {"open", "run", "browse", "introspect", "cancel", "close"}

\* The methods that use a session's engine.
UserOps == {"run", "browse", "introspect"}

ASSUME OpsAssumption == Ops \subseteq AllOps
ASSUME StatementsAssumption == MaxStatements \in Nat \ {0}
ASSUME InFlightAssumption == MaxInFlight \in Nat \ {0}
ASSUME KindsAssumption ==
    /\ PgSessions \subseteq Sessions
    /\ SavedSessions \subseteq Sessions
ASSUME NoneAssumption == None \notin Calls \cup Sessions \cup AllOps

VARIABLES
    sessions,   \* keys of App.querySessions
    issued,     \* ids OpenConnection has handed to the frontend
    engine,     \* engine[s]: "none", "open", "closing" or "nil" (its pool)
    cancels,    \* App.queryCancels: the call whose CancelFunc is registered
    cancelled,  \* calls whose context is cancelled
    op,         \* op[c]: the bound method call c runs
    sid,        \* sid[c]: its sessionID
    pc,         \* pc[c]: where its goroutine is
    script,     \* script[c]: statements of the call's query text
    left,       \* left[c]: statements still to execute, then to log
    held,       \* held[c]: the CancelFunc c has popped and not yet called
    rows,       \* rows[c]: query_history rows of call c
    connRow,    \* the saved connection's row still exists
    sd          \* where the shutdown callback is

mapVars  == <<sessions, issued>>
ctxVars  == <<cancels, cancelled, held>>
argVars  == <<op, sid, script>>
logVars  == <<rows, connRow>>
vars == <<mapVars, engine, ctxVars, argVars, pc, left, logVars, sd>>

PCs == {"idle", "called", "found", "ready", "checked", "inflight", "logging",
        "popping", "holding", "removing", "closing", "draining", "connected",
        "done", "refused"}

TypeOK ==
    /\ sessions \subseteq Sessions
    /\ issued \subseteq Sessions
    /\ engine \in [Sessions -> {"none", "open", "closing", "nil"}]
    /\ cancels \in [Sessions -> Calls \cup {None}]
    /\ cancelled \subseteq Calls
    /\ op \in [Calls -> AllOps \cup {None}]
    /\ sid \in [Calls -> Sessions \cup {None}]
    /\ pc \in [Calls -> PCs]
    /\ script \in [Calls -> 0..MaxStatements]
    /\ left \in [Calls -> 0..MaxStatements]
    /\ held \in [Calls -> Calls \cup {None}]
    /\ rows \in [Calls -> 0..MaxStatements]
    /\ connRow \in BOOLEAN
    /\ sd \in {"running", "cancelled", "closing", "closed", "exited"}

Init ==
    /\ sessions = {}
    /\ issued = {}
    /\ engine = [s \in Sessions |-> "none"]
    /\ cancels = [s \in Sessions |-> None]
    /\ cancelled = {}
    /\ op = [c \in Calls |-> None]
    /\ sid = [c \in Calls |-> None]
    /\ pc = [c \in Calls |-> "idle"]
    /\ script = [c \in Calls |-> 0]
    /\ left = [c \in Calls |-> 0]
    /\ held = [c \in Calls |-> None]
    /\ rows = [c \in Calls |-> 0]
    /\ connRow = TRUE
    /\ sd = "running"

-----------------------------------------------------------------------------
(***************************************************************************)
(* Helpers.                                                                *)
(***************************************************************************)

Goto(c, from, to) ==
    /\ pc[c] = from
    /\ pc' = [pc EXCEPT ![c] = to]

\* closeAllQuerySessions keeps querySessionsMu while it closes the engines.
SessionsMuFree == sd # "closing"

\* Calls whose statement the database is executing on the engine of s.
InFlight(s) == {c \in Calls : sid[c] = s /\ pc[c] = "inflight"}

Finished(c) == pc[c] \in {"done", "refused"}

RunCalls(s) == {c \in Calls : op[c] = "run" /\ sid[c] = s /\ ~Finished(c)}

-----------------------------------------------------------------------------
(***************************************************************************)
(* The frontend makes a call. OpenConnection gets an id nobody has; every  *)
(* other call names an id that OpenConnection returned before, live or     *)
(* not. Once the window is gone no further call is made.                   *)
(***************************************************************************)
FreshId(s) == \A c \in Calls : ~(op[c] = "open" /\ sid[c] = s)

Invoke(c, o, s, n) ==
    /\ sd = "running"
    /\ Goto(c, "idle", "called")
    /\ IF o = "open" THEN FreshId(s) ELSE s \in issued
    /\ o = "run" => Cardinality(RunCalls(s)) < MaxInFlight
    /\ o # "run" => n = 1
    /\ op' = [op EXCEPT ![c] = o]
    /\ sid' = [sid EXCEPT ![c] = s]
    /\ script' = [script EXCEPT ![c] = n]
    /\ left' = [left EXCEPT ![c] = n]
    /\ UNCHANGED <<mapVars, engine, ctxVars, logVars, sd>>

-----------------------------------------------------------------------------
(***************************************************************************)
(* OpenConnection.                                                         *)
(***************************************************************************)

\* engine.Connect: the pool exists from here on, or the call fails.
OpenConnect(c) ==
    /\ op[c] = "open"
    /\ \/ /\ Goto(c, "called", "connected")
          /\ engine' = [engine EXCEPT ![sid[c]] = "open"]
       \/ /\ Goto(c, "called", "refused")
          /\ UNCHANGED engine
    /\ UNCHANGED <<mapVars, ctxVars, argVars, left, logVars, sd>>

\* engine.Ping failed: the engine is closed again and never registered.
OpenPingFails(c) ==
    /\ Goto(c, "connected", "refused")
    /\ engine' = [engine EXCEPT ![sid[c]] = "nil"]
    /\ UNCHANGED <<mapVars, ctxVars, argVars, left, logVars, sd>>

\* putQuerySession; the id reaches the frontend.
OpenPut(c) ==
    /\ SessionsMuFree
    /\ Goto(c, "connected", "done")
    /\ sessions' = sessions \cup {sid[c]}
    /\ issued' = issued \cup {sid[c]}
    /\ UNCHANGED <<engine, ctxVars, argVars, left, logVars, sd>>

-----------------------------------------------------------------------------
(***************************************************************************)
(* RunQuery, RunMultiStatementQuery and the calls without a CancelFunc.    *)
(***************************************************************************)

\* Mutant of Lookup: the "not found" result of getQuerySession is ignored.
LookupUnchecked(c) ==
    /\ SessionsMuFree
    /\ op[c] \in UserOps
    /\ Goto(c, "called", IF op[c] = "run" THEN "found" ELSE "ready")
    /\ UNCHANGED <<mapVars, engine, ctxVars, argVars, left, logVars, sd>>

\* getQuerySession: an unknown id ends the call with an error. Only
\* RunQuery and RunMultiStatementQuery register a CancelFunc next.
Lookup(c) ==
    /\ SessionsMuFree
    /\ op[c] \in UserOps
    /\ Goto(c, "called",
            IF sid[c] \notin sessions THEN "refused"
            ELSE IF op[c] = "run" THEN "found" ELSE "ready")
    /\ UNCHANGED <<mapVars, engine, ctxVars, argVars, left, logVars, sd>>

\* Mutant of PutCancel: one slot for all sessions instead of one per session.
PutCancelEverywhere(c) ==
    /\ Goto(c, "found", "ready")
    /\ cancels' = [s \in Sessions |-> c]
    /\ UNCHANGED <<mapVars, engine, cancelled, held, argVars, left, logVars,
                   sd>>

\* putQueryCancel: whatever was registered for the session is overwritten.
PutCancel(c) ==
    /\ Goto(c, "found", "ready")
    /\ cancels' = [cancels EXCEPT ![sid[c]] = c]
    /\ UNCHANGED <<mapVars, engine, cancelled, held, argVars, left, logVars,
                   sd>>

\* RunQuery defers a function that takes its CancelFunc back.
AfterResults(c) == IF op[c] = "run" THEN "popping" ELSE "done"

\* A statement has its outcome: the next one of the script starts, whether
\* or not this one failed, or the call has all its results and, except for
\* the introspection calls, logs them to query_history.
StatementEnds(c) ==
    IF left[c] > 1
    THEN /\ pc' = [pc EXCEPT ![c] = "ready"]
         /\ left' = [left EXCEPT ![c] = @ - 1]
    ELSE /\ pc' = [pc EXCEPT ![c] = IF op[c] = "introspect" THEN "done"
                                    ELSE "logging"]
         /\ left' = [left EXCEPT ![c] = script[c]]

\* Engine.run, ListTables, ...: the check that the pool is not nil.
CheckPool(c) ==
    /\ pc[c] = "ready"
    /\ IF engine[sid[c]] = "nil"
       THEN StatementEnds(c)
       ELSE pc' = [pc EXCEPT ![c] = "checked"] /\ UNCHANGED left
    /\ UNCHANGED <<mapVars, engine, ctxVars, argVars, logVars, sd>>

\* The use of the pool, which reads the field again. An open pool starts the
\* statement; a closed one answers with an error; and if Close has set the
\* field to nil in between, the build may have kept the old pointer (an
\* error) or dereferences nil: the bound method panics and only its deferred
\* functions still run.
UsePool(c) ==
    /\ pc[c] = "checked"
    /\ \/ /\ engine[sid[c]] = "open"
          /\ pc' = [pc EXCEPT ![c] = "inflight"]
          /\ UNCHANGED left
       \/ /\ engine[sid[c]] \in {"closing", "nil"}
          /\ StatementEnds(c)
       \/ /\ engine[sid[c]] = "nil"
          /\ pc' = [pc EXCEPT ![c] = AfterResults(c)]
          /\ UNCHANGED left
    /\ UNCHANGED <<mapVars, engine, ctxVars, argVars, logVars, sd>>

\* The driver answers: a result, an error, or the end of a cancelled context.
StatementReturns(c) ==
    /\ pc[c] = "inflight"
    /\ StatementEnds(c)
    /\ UNCHANGED <<mapVars, engine, ctxVars, argVars, logVars, sd>>

\* Mutant of RecordHistory: no foreign key guards the insert.
RecordHistoryUnguarded(c) ==
    /\ pc[c] = "logging"
    /\ rows' = IF sid[c] \in SavedSessions
               THEN [rows EXCEPT ![c] = @ + 1]
               ELSE rows
    /\ IF left[c] > 1
       THEN left' = [left EXCEPT ![c] = @ - 1] /\ UNCHANGED pc
       ELSE pc' = [pc EXCEPT ![c] = AfterResults(c)] /\ UNCHANGED left
    /\ UNCHANGED <<mapVars, engine, ctxVars, argVars, connRow, sd>>

\* Mutant of RecordHistory: the loop over the results runs once too often.
RecordHistoryOnceMore(c) ==
    /\ pc[c] = "logging"
    /\ rows' = IF sid[c] \in SavedSessions /\ connRow /\ sd # "exited"
               THEN [rows EXCEPT ![c] = @ + 1]
               ELSE rows
    /\ IF left[c] > 0
       THEN left' = [left EXCEPT ![c] = @ - 1] /\ UNCHANGED pc
       ELSE pc' = [pc EXCEPT ![c] = AfterResults(c)] /\ UNCHANGED left
    /\ UNCHANGED <<mapVars, engine, ctxVars, argVars, connRow, sd>>

\* recordQueryHistory for one statement. A session of no saved connection
\* logs nothing; the insert fails, and nobody is told, when the connection's
\* row is gone (foreign key) or local storage is closed.
RecordHistory(c) ==
    /\ pc[c] = "logging"
    /\ rows' = IF sid[c] \in SavedSessions /\ connRow /\ sd # "exited"
               THEN [rows EXCEPT ![c] = @ + 1]
               ELSE rows
    /\ IF left[c] > 1
       THEN left' = [left EXCEPT ![c] = @ - 1] /\ UNCHANGED pc
       ELSE pc' = [pc EXCEPT ![c] = AfterResults(c)] /\ UNCHANGED left
    /\ UNCHANGED <<mapVars, engine, ctxVars, argVars, connRow, sd>>

\* Mutant of PopCancel: the deferred function only calls its own cancel().
PopCancelForgets(c) ==
    /\ Goto(c, "popping", "done")
    /\ cancelled' = cancelled \cup {c}
    /\ UNCHANGED <<mapVars, engine, cancels, held, argVars, left, logVars,
                   sd>>

\* The deferred function: it pops whatever CancelFunc is registered for the
\* session, then calls its own.
PopCancel(c) ==
    /\ Goto(c, "popping", "done")
    /\ cancels' = [cancels EXCEPT ![sid[c]] = None]
    /\ cancelled' = cancelled \cup {c}
    /\ UNCHANGED <<mapVars, engine, held, argVars, left, logVars, sd>>

-----------------------------------------------------------------------------
(***************************************************************************)
(* CancelQuery and CloseConnectionSession.                                 *)
(***************************************************************************)

\* Mutant of TakeCancel: CloseConnectionSession drops the CancelFunc it pops.
TakeCancelDropped(c) ==
    /\ op[c] \in {"cancel", "close"}
    /\ held' = [held EXCEPT ![c] = IF op[c] = "close" THEN None
                                   ELSE cancels[sid[c]]]
    /\ cancels' = [cancels EXCEPT ![sid[c]] = None]
    /\ Goto(c, "called",
            IF op[c] = "close" THEN "removing"
            ELSE IF cancels[sid[c]] # None THEN "holding" ELSE "done")
    /\ UNCHANGED <<mapVars, engine, cancelled, argVars, left, logVars, sd>>

\* popQueryCancel, at the start of both.
TakeCancel(c) ==
    /\ op[c] \in {"cancel", "close"}
    /\ held' = [held EXCEPT ![c] = cancels[sid[c]]]
    /\ cancels' = [cancels EXCEPT ![sid[c]] = None]
    /\ Goto(c, "called",
            IF cancels[sid[c]] # None THEN "holding"
            ELSE IF op[c] = "close" THEN "removing" ELSE "done")
    /\ UNCHANGED <<mapVars, engine, cancelled, argVars, left, logVars, sd>>

\* Mutant of CallCancel: the popped CancelFunc is never called.
CallCancelForgets(c) ==
    /\ Goto(c, "holding", IF op[c] = "close" THEN "removing" ELSE "done")
    /\ held' = [held EXCEPT ![c] = None]
    /\ UNCHANGED <<mapVars, engine, cancels, cancelled, argVars, left,
                   logVars, sd>>

\* cancel(), outside the lock: by now its query may have finished.
CallCancel(c) ==
    /\ Goto(c, "holding", IF op[c] = "close" THEN "removing" ELSE "done")
    /\ cancelled' = cancelled \cup {held[c]}
    /\ held' = [held EXCEPT ![c] = None]
    /\ UNCHANGED <<mapVars, engine, cancels, argVars, left, logVars, sd>>

\* Mutant of CloseRemove: the session is looked up but stays in the map.
CloseRemoveKeeps(c) ==
    /\ SessionsMuFree
    /\ Goto(c, "removing",
            IF sid[c] \in sessions THEN "closing" ELSE "refused")
    /\ UNCHANGED <<mapVars, engine, ctxVars, argVars, left, logVars, sd>>

\* deleteQuerySession: of several closers one gets the session.
CloseRemove(c) ==
    /\ SessionsMuFree
    /\ Goto(c, "removing",
            IF sid[c] \in sessions THEN "closing" ELSE "refused")
    /\ sessions' = sessions \ {sid[c]}
    /\ UNCHANGED <<issued, engine, ctxVars, argVars, left, logVars, sd>>

\* engine.Close() begins: the pool takes no new statement.
CloseBegin(c) ==
    /\ Goto(c, "closing", "draining")
    /\ engine' = [engine EXCEPT ![sid[c]] = "closing"]
    /\ UNCHANGED <<mapVars, ctxVars, argVars, left, logVars, sd>>

\* Mutants of Drained: Close waits for nothing, or for whole calls.
DrainedAlways(s) == TRUE
DrainedOfCalls(s) == s \in PgSessions => RunCalls(s) = {}

\* pgxpool.Close waits for every connection in use; sql.DB.Close does not.
Drained(s) == s \in PgSessions => InFlight(s) = {}

\* engine.Close() returns and leaves the pool nil.
CloseEnd(c) ==
    /\ Drained(sid[c])
    /\ Goto(c, "draining", "done")
    /\ engine' = [engine EXCEPT ![sid[c]] = "nil"]
    /\ UNCHANGED <<mapVars, ctxVars, argVars, left, logVars, sd>>

-----------------------------------------------------------------------------
(***************************************************************************)
(* DeleteConnection: the saved connection goes, and its history with it    *)
(* (ON DELETE CASCADE). Sessions opened from it stay open.                 *)
(***************************************************************************)
DeleteConnection ==
    /\ sd = "running"
    /\ connRow
    /\ connRow' = FALSE
    /\ rows' = [c \in Calls |-> 0]
    /\ UNCHANGED <<mapVars, engine, ctxVars, argVars, pc, left, sd>>

-----------------------------------------------------------------------------
(***************************************************************************)
(* App.shutdown: closeAllQuerySessions, then local storage is closed.      *)
(* Calls made before the window went away keep running beside it.          *)
(***************************************************************************)

\* Under queryCancelsMu: call every registered CancelFunc, drop the map.
ShutdownCancels ==
    /\ sd = "running"
    /\ sd' = "cancelled"
    /\ cancelled' = cancelled \cup {cancels[s] : s \in
                        {t \in Sessions : cancels[t] # None}}
    /\ cancels' = [s \in Sessions |-> None]
    /\ UNCHANGED <<mapVars, engine, held, argVars, pc, left, logVars>>

\* querySessionsMu is taken, and kept until every engine is closed.
ShutdownLocks ==
    /\ sd = "cancelled"
    /\ sd' = "closing"
    /\ UNCHANGED <<mapVars, engine, ctxVars, argVars, pc, left, logVars>>

\* session.engine.Close() for the next session of the map ...
ShutdownCloseBegin(s) ==
    /\ sd = "closing"
    /\ s \in sessions
    /\ engine[s] = "open"
    /\ \A t \in sessions : engine[t] # "closing"
    /\ engine' = [engine EXCEPT ![s] = "closing"]
    /\ UNCHANGED <<mapVars, ctxVars, argVars, pc, left, logVars, sd>>

\* ... returns.
ShutdownCloseEnd(s) ==
    /\ sd = "closing"
    /\ s \in sessions
    /\ engine[s] = "closing"
    /\ Drained(s)
    /\ engine' = [engine EXCEPT ![s] = "nil"]
    /\ UNCHANGED <<mapVars, ctxVars, argVars, pc, left, logVars, sd>>

\* Mutant of ShutdownUnlocks: the map keeps the closed sessions.
ShutdownUnlocksKeeping ==
    /\ sd = "closing"
    /\ \A s \in sessions : engine[s] = "nil"
    /\ sd' = "closed"
    /\ UNCHANGED <<mapVars, engine, ctxVars, argVars, pc, left, logVars>>

\* The map is dropped and the mutex released.
ShutdownUnlocks ==
    /\ sd = "closing"
    /\ \A s \in sessions : engine[s] = "nil"
    /\ sd' = "closed"
    /\ sessions' = {}
    /\ UNCHANGED <<issued, engine, ctxVars, argVars, pc, left, logVars>>

\* a.db.Close(): no insert succeeds any more.
ShutdownClosesStorage ==
    /\ sd = "closed"
    /\ sd' = "exited"
    /\ UNCHANGED <<mapVars, engine, ctxVars, argVars, pc, left, logVars>>

-----------------------------------------------------------------------------
Shutdown ==
    \/ ShutdownCancels
    \/ ShutdownLocks
    \/ \E s \in Sessions : ShutdownCloseBegin(s) \/ ShutdownCloseEnd(s)
    \/ ShutdownUnlocks
    \/ ShutdownClosesStorage

\* One step of the goroutine of call c, other than the database's answer.
Step(c) ==
    \/ OpenConnect(c) \/ OpenPingFails(c) \/ OpenPut(c)
    \/ Lookup(c) \/ PutCancel(c) \/ CheckPool(c) \/ UsePool(c)
    \/ RecordHistory(c) \/ PopCancel(c)
    \/ TakeCancel(c) \/ CallCancel(c)
    \/ CloseRemove(c) \/ CloseBegin(c) \/ CloseEnd(c)

\* The app has exited and every call has returned.
Terminated ==
    /\ sd = "exited"
    /\ \A c \in Calls : pc[c] = "idle" \/ Finished(c)
    /\ UNCHANGED vars

Next ==
    \/ \E c \in Calls :
          \/ \E o \in Ops, s \in Sessions, n \in 1..MaxStatements :
                Invoke(c, o, s, n)
          \/ Step(c)
          \/ StatementReturns(c)
    \/ DeleteConnection
    \/ Shutdown
    \/ Terminated

Spec == Init /\ [][Next]_vars

(***************************************************************************)
(* Fairness. Every goroutine is scheduled, so a call takes its next step;  *)
(* a driver returns once the context is cancelled, and every call but      *)
(* RunQuery sets itself a timeout. Nothing makes the user act, an          *)
(* uncancelled query end, or the application exit.                         *)
(***************************************************************************)
AnswerDue(c) == c \in cancelled \/ op[c] # "run"

Fairness ==
    /\ \A c \in Calls :
          /\ WF_vars(Step(c))
          /\ WF_vars(AnswerDue(c) /\ StatementReturns(c))
    /\ WF_vars(sd # "running" /\ Shutdown)

FairSpec == Spec /\ Fairness

-----------------------------------------------------------------------------
(***************************************************************************)
(* Safety.                                                                 *)
(***************************************************************************)

\* Who will see to it that the engine of s is closed: the session map as long
\* as a close or the shutdown is still to come, the OpenConnection call that
\* dialled it, or the CloseConnectionSession call that took it out of the map.
MapDropped == sd \in {"closed", "exited"}

OwnedByMap(s) == s \in sessions /\ ~MapDropped

Openers(s) == {c \in Calls : op[c] = "open" /\ sid[c] = s
                                            /\ pc[c] = "connected"}
Closers(s) == {c \in Calls : op[c] = "close" /\ sid[c] = s
                                   /\ pc[c] \in {"closing", "draining"}}

\* An OpenConnection that was still dialling when closeAllQuerySessions had
\* dropped the map: putQuerySession makes a new map, which nobody closes.
Stranded(s) == s \in sessions /\ MapDropped

\* None is closed twice, and none is leaked but by a late OpenConnection: a
\* connected engine has exactly one owner among the session map that is still
\* to be closed, the call that is opening it and the call that is closing it,
\* unless it was put into the map after the shutdown had dropped that.
EngineOwnedOnce ==
    \A s \in Sessions :
        /\ engine[s] \in {"open", "closing"} /\ ~Stranded(s) =>
              OwnedByMap(s) \/ Openers(s) # {} \/ Closers(s) # {}
        /\ s \in sessions => Openers(s) = {} /\ Closers(s) = {}
        /\ Openers(s) = {} \/ Closers(s) = {}
        /\ \A c, d \in Openers(s) \cup Closers(s) : c = d

\* What closeAllQuerySessions' comment promises ("a still-open DB Client tab
\* never leaks a database connection past app exit"): when the application
\* has exited and every call has returned, every engine has been closed. The
\* code breaks it for an OpenConnection that outlives the shutdown.
NothingLeaksPastExit ==
    sd = "exited" /\ (\A c \in Calls : pc[c] = "idle" \/ Finished(c)) =>
        \A s \in Sessions : engine[s] \notin {"open", "closing"}

\* Whoever finds a session in the map finds a connected engine: outside the
\* shutdown's critical section no closed engine is in App.querySessions.
MapHoldsOpenEngines ==
    SessionsMuFree => \A s \in sessions : engine[s] = "open"

\* A registered CancelFunc belongs to a call that still runs on that very
\* session (RunQuery: "for exactly the duration of this call").
RegisteredCancelIsLive ==
    \A s \in Sessions :
        cancels[s] # None =>
            /\ op[cancels[s]] = "run"
            /\ sid[cancels[s]] = s
            /\ pc[cancels[s]] \in {"ready", "checked", "inflight", "logging",
                                   "popping"}

\* CancelQuery and CloseConnectionSession only ever cancel queries of the
\* session they were called for, however late they get to call the function
\* they popped.
CancelHitsOwnSession ==
    \A d \in Calls :
        held[d] # None => op[held[d]] = "run" /\ sid[held[d]] = sid[d]

\* Postgres' pool is never torn down under a statement that is executing.
NoTeardownUnderStatement ==
    \A s \in PgSessions : InFlight(s) # {} => engine[s] # "nil"

\* The query that runs alone on its session can be cancelled: its CancelFunc
\* is registered, popped by a call about to use it, or used. RunQuery's
\* comment promises it also after a second query has overtaken the first ("a
\* CancelQuery call after that point cancels the second (newest) query"); the
\* code keeps it while a session has one query at a time, but the first
\* query's deferred popQueryCancel takes the second one's CancelFunc away.
RunningQueryCancellable ==
    \A s \in Sessions : \A c \in InFlight(s) :
        op[c] = "run" /\ RunCalls(s) = {c} =>
            \/ c \in cancelled
            \/ cancels[s] = c
            \/ \E d \in Calls : held[d] = c

\* query_history never refers to a connection that was deleted, and holds no
\* execution of a session that belongs to no saved connection; a call has
\* not logged more than the statements of its script.
HistoryRefersToConnection ==
    \A c \in Calls :
        rows[c] > 0 => /\ connRow
                       /\ sid[c] \in SavedSessions
                       /\ rows[c] <= script[c]

-----------------------------------------------------------------------------
(***************************************************************************)
(* The inductive invariant behind the theorems of QuerySessionsProofs.     *)
(***************************************************************************)

\* What the place of a goroutine says about its call.
CallShape ==
    \A c \in Calls :
        /\ pc[c] = "idle" => op[c] = None /\ held[c] = None
        /\ pc[c] # "idle" => op[c] \in AllOps /\ sid[c] \in Sessions
        /\ op[c] \notin {"open", None} => sid[c] \in issued
        /\ pc[c] \in {"found", "popping"} => op[c] = "run"
        /\ pc[c] \in {"ready", "checked", "inflight", "logging"}
              => op[c] \in UserOps
        /\ pc[c] \in {"removing", "closing", "draining"} => op[c] = "close"
        /\ pc[c] = "holding" <=> held[c] # None
        /\ pc[c] = "holding" => op[c] \in {"cancel", "close"}
        /\ pc[c] = "connected" => op[c] = "open"

\* An id is opened by one call, and reaches the frontend with its answer.
IdsOpenedOnce ==
    /\ \A c, d \in Calls :
          op[c] = "open" /\ op[d] = "open" /\ sid[c] = sid[d] => c = d
    /\ \A s \in issued :
          \E c \in Calls : op[c] = "open" /\ sid[c] = s /\ pc[c] = "done"
    /\ sessions \subseteq issued

\* The state of an engine as its owner knows it.
EngineMatchesOwner ==
    /\ \A s \in sessions : engine[s] # "none"
    /\ \A c \in Calls :
          /\ pc[c] \in {"connected", "closing"} => engine[sid[c]] = "open"
          /\ pc[c] = "draining" => engine[sid[c]] = "closing"

\* A call logs its script's statements one by one once it has all results.
LoggedWithinScript ==
    \A c \in Calls :
        /\ pc[c] # "idle" => script[c] >= 1
        /\ pc[c] \notin {"logging", "popping", "done"} => rows[c] = 0
        /\ pc[c] = "logging" => left[c] >= 1 /\ rows[c] + left[c] <= script[c]

SessionInv ==
    /\ TypeOK
    /\ CallShape
    /\ IdsOpenedOnce
    /\ LoggedWithinScript
    /\ EngineMatchesOwner
    /\ EngineOwnedOnce
    /\ MapHoldsOpenEngines
    /\ RegisteredCancelIsLive
    /\ CancelHitsOwnSession
    /\ NoTeardownUnderStatement
    /\ HistoryRefersToConnection

\* With one query open per session at a time, a call that has registered its
\* CancelFunc stays within reach of it until it returns.
OneRunPerSession ==
    \A c, d \in Calls :
        /\ op[c] = "run" /\ op[d] = "run" /\ sid[c] = sid[d]
        /\ ~Finished(c) /\ ~Finished(d)
        => c = d

CancelWithinReach ==
    \A c \in Calls :
        op[c] = "run" /\ pc[c] \in {"ready", "checked", "inflight", "logging",
                                  "popping"} =>
            \/ c \in cancelled
            \/ cancels[sid[c]] = c
            \/ \E d \in Calls : held[d] = c

-----------------------------------------------------------------------------
(***************************************************************************)
(* Refinement: sessions as the frontend sees them.                         *)
(***************************************************************************)
Lifecycle == INSTANCE SessionLifecycle WITH
    life <- [s \in Sessions |->
                IF s \notin issued THEN "unused"
                ELSE IF s \in sessions THEN "live" ELSE "gone"],
    servedBy <- [c \in Calls |->
                IF /\ op[c] \in UserOps
                   /\ pc[c] \notin {"called", "refused"}
                THEN sid[c] ELSE None],
    closedBy <- [c \in Calls |->
                IF op[c] = "close" /\ pc[c] \in {"closing", "draining", "done"}
                THEN sid[c] ELSE None]

\* A session id is issued once, serves calls only while it is in the map,
\* and is retired by at most one CloseConnectionSession call or by shutdown.
ImplementsLifecycle == Lifecycle!Spec

-----------------------------------------------------------------------------
(***************************************************************************)
(* Liveness.                                                               *)
(***************************************************************************)

\* Once CancelQuery or CloseConnectionSession has got hold of a query's
\* CancelFunc, that call returns, however many statements its script has.
CancelledCallReturns ==
    \A c \in Calls : (\E d \in Calls : held[d] = c) ~> Finished(c)

\* If no statement runs for ever, closing never does either, and neither
\* does the shutdown, although it waits for running statements while it
\* keeps the mutex every call needs to find its session.
ClosingReturns ==
    (\A c \in Calls : []<>(pc[c] # "inflight")) =>
        /\ \A c \in Calls : op[c] = "close" ~> Finished(c)
        /\ sd = "cancelled" ~> sd = "exited"
=============================================================================
