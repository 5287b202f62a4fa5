-------------------------- MODULE ApplicationProofs --------------------------
(***************************************************************************)
(* The status watcher, for any number of starts, stops and shutdowns: the  *)
(* types, that no two pollers ever run, and that an unhurried user's       *)
(* dashboard is fed.  Local storage, for any number of launches, kills,    *)
(* saved connections, snippets and sessions: no row and no session ever    *)
(* refers to a connection it was not made for, and a process that is alone *)
(* has the whole schema.  And that both hold of the application.           *)
(***************************************************************************)
EXTENDS Application, SequenceTheorems, TLAPS

-----------------------------------------------------------------------------
(***************************************************************************)
(* The status watcher.                                                     *)
(***************************************************************************)
\* OnePoller is inductive: a start is let through only while nothing runs,
\* and `running` is reset only when every goroutine has gone.  The types need
\* that a running watcher's context can be cancelled.
WatcherInv ==
    /\ TypeOK
    /\ running => watch \in Calls
    /\ OnePoller

LEMMA WatcherInit == Init => WatcherInv
  BY WatchNoneAssumption DEF Init, WatcherInv, TypeOK, OnePoller, Alive

\* A call that begins leaves the watcher alone.
LEMMA InvokeStep ==
  ASSUME WatcherInv, NEW c \in Calls, NEW o \in {"start", "stop", "shutdown"},
         Invoke(c, o), mounted' \in BOOLEAN
  PROVE  WatcherInv'
<1>1. TypeOK'
  BY DEF WatcherInv, TypeOK, Invoke
<1>2. (running => watch \in Calls)' /\ OnePoller'
  BY DEF WatcherInv, Invoke, OnePoller, Alive
<1> QED
  BY <1>1, <1>2 DEF WatcherInv

\* A watcher is started only when none runs.
LEMMA StartStep ==
  ASSUME WatcherInv, NEW c \in Calls, StartWatcher(c)
  PROVE  WatcherInv'
<1>1. TypeOK'
  BY DEF WatcherInv, TypeOK, StartWatcher
<1>2. CASE running
  <2>1. UNCHANGED <<running, watch, poller>>
    BY <1>2 DEF StartWatcher
  <2> QED
    BY <1>1, <2>1 DEF WatcherInv, OnePoller, Alive
<1>3. CASE ~running
  <2>1. watch' = c /\ running' /\ poller' = [poller EXCEPT ![c] = "building"]
    BY <1>3 DEF StartWatcher
  <2>2. \A d \in Calls : ~Alive(d)
    BY <1>3 DEF WatcherInv, OnePoller
  <2>3. \A d \in Calls : Alive(d)' => d = c
    BY <2>1, <2>2 DEF Alive, WatcherInv, TypeOK
  <2> QED
    BY <1>1, <2>1, <2>3 DEF WatcherInv, OnePoller
<1> QED
  BY <1>2, <1>3

\* Beginning to stop, and the end of a stop, which waits for the goroutine.
LEMMA StopStep ==
  ASSUME WatcherInv, NEW c \in Calls, StopBegins(c) \/ StopEnds(c)
  PROVE  WatcherInv'
<1>1. CASE StopBegins(c)
  <2>1. TypeOK'
    <3>1. CASE running
      BY <1>1, <3>1 DEF WatcherInv, TypeOK, StopBegins
    <3>2. CASE ~running
      BY <1>1, <3>2 DEF WatcherInv, TypeOK, StopBegins
    <3> QED
      BY <3>1, <3>2
  <2>2. UNCHANGED <<running, watch, poller>>
    BY <1>1 DEF StopBegins
  <2> QED
    BY <2>1, <2>2 DEF WatcherInv, OnePoller, Alive
<1>2. CASE StopEnds(c)
  <2>1. TypeOK'
    BY <1>2 DEF WatcherInv, TypeOK, StopEnds
  <2>2. ~running' /\ \A d \in Calls : ~Alive(d)'
    BY <1>2 DEF StopEnds, Alive
  <2> QED
    BY <2>1, <2>2 DEF WatcherInv, OnePoller
<1> QED
  BY <1>1, <1>2

\* The goroutine's own steps start no second one.
LEMMA PollerStep ==
  ASSUME WatcherInv, NEW c \in Calls, Emit(c) \/ Tick(c) \/ Leave(c)
  PROVE  WatcherInv'
<1>1. TypeOK'
  BY DEF WatcherInv, TypeOK, Emit, Tick, Leave
<1>2. UNCHANGED <<running, watch>>
  BY DEF Emit, Tick, Leave
<1>3. \A d \in Calls : Alive(d)' => Alive(d)
  BY DEF Emit, Tick, Leave, Alive, WatcherInv, TypeOK
<1> QED
  BY <1>1, <1>2, <1>3 DEF WatcherInv, OnePoller

LEMMA WatcherStep == WatcherInv /\ [Next]_vars => WatcherInv'
<1> SUFFICES ASSUME WatcherInv, [Next]_vars
             PROVE  WatcherInv'
  OBVIOUS
<1>1. ASSUME NEW c \in Calls, Mount(c) \/ Unmount(c) \/ Shutdown(c)
      PROVE  WatcherInv'
  <2>1. mounted' \in BOOLEAN
    BY <1>1 DEF Mount, Unmount, Shutdown, WatcherInv, TypeOK
  <2>2. PICK o \in {"start", "stop", "shutdown"} : Invoke(c, o)
    BY <1>1 DEF Mount, Unmount, Shutdown
  <2> QED
    BY <2>1, <2>2, InvokeStep
<1>2. ASSUME NEW c \in Calls, StartRefused(c) \/ CloseStorage(c)
      PROVE  WatcherInv'
  <2>1. TypeOK'
    BY <1>2 DEF WatcherInv, TypeOK, StartRefused, CloseStorage
  <2>2. UNCHANGED <<running, watch, poller>>
    BY <1>2 DEF StartRefused, CloseStorage
  <2> QED
    BY <2>1, <2>2 DEF WatcherInv, OnePoller, Alive
<1>3. CASE UNCHANGED vars
  BY <1>3 DEF vars, WatcherInv, TypeOK, OnePoller, Alive
<1> QED
  BY <1>1, <1>2, <1>3, StartStep, StopStep, PollerStep DEF Next, CallStep, Idle

\* Every reachable state of the watcher is well typed.
THEOREM WatcherTypeCorrect == Spec => []TypeOK
<1>1. WatcherInv => TypeOK
  BY DEF WatcherInv
<1> QED
  BY <1>1, WatcherInit, WatcherStep, PTL DEF Spec

\* However starts, stops and the shutdown interleave, one poller at most is
\* alive, and it is the one that the next stop cancels and waits for
\* (StartStatusWatcher, StopStatusWatcher).
THEOREM NoCompetingPoller == Spec => []OnePoller
<1>1. WatcherInv => OnePoller
  BY DEF WatcherInv
<1> QED
  BY <1>1, WatcherInit, WatcherStep, PTL DEF Spec

-----------------------------------------------------------------------------
\* The mutex is held by the call that waits, while the watcher runs; only a
\* goroutine that was started can have been cancelled, and the one that runs
\* is cancelled only by a call that holds the mutex.
MutexInv ==
    /\ \A c \in Calls : mu = c <=> pc[c] = "waiting"
    /\ \A c \in Calls : pc[c] = "waiting" => op[c] \in {"stop", "shutdown"}
    /\ mu # None => running
    /\ \A c \in Calls : pc[c] \in {"idle", "called"} => poller[c] = "none"
    /\ \A c \in stopped : poller[c] # "none"
    /\ running /\ mu = None => Alive(watch) /\ watch \notin stopped

\* While nothing went wrong and the user waited, calls come one at a time, and
\* the watcher runs when the dashboard is on screen: a start finds it off, a
\* stop finds it on.
Calm == ~hasty /\ ~ShuttingDown /\ \A c \in Calls : pc[c] # "refused"

FedInv ==
    Calm =>
        /\ \A c, d \in Calls : Pending(c) /\ Pending(d) => c = d
        /\ Quiet => (mounted <=> running)
        /\ \A c \in Calls : Pending(c) /\ op[c] = "start" => mounted /\ ~running
        /\ \A c \in Calls : Pending(c) /\ op[c] = "stop" => ~mounted /\ running

LEMMA MutexStep == WatcherInv /\ MutexInv /\ [Next]_vars => MutexInv'
<1> SUFFICES ASSUME WatcherInv, MutexInv, [Next]_vars
             PROVE  MutexInv'
  OBVIOUS
<1> USE WatchNoneAssumption DEF WatcherInv, TypeOK, OnePoller, MutexInv, Alive
<1>1. ASSUME NEW c \in Calls, Mount(c) \/ Unmount(c) \/ Shutdown(c)
      PROVE  MutexInv'
  BY <1>1 DEF Mount, Unmount, Shutdown, Invoke
<1>2. ASSUME NEW c \in Calls, StartRefused(c)
      PROVE  MutexInv'
  BY <1>2 DEF StartRefused
<1>3. ASSUME NEW c \in Calls, StartWatcher(c)
      PROVE  MutexInv'
  BY <1>3 DEF StartWatcher
<1>4. ASSUME NEW c \in Calls, StopBegins(c)
      PROVE  MutexInv'
  BY <1>4 DEF StopBegins
<1>5. ASSUME NEW c \in Calls, StopEnds(c)
      PROVE  MutexInv'
  BY <1>5 DEF StopEnds
<1>6. ASSUME NEW c \in Calls, CloseStorage(c)
      PROVE  MutexInv'
  BY <1>6 DEF CloseStorage
<1>7. ASSUME NEW c \in Calls, Emit(c)
      PROVE  MutexInv'
  BY <1>7 DEF Emit
<1>8. ASSUME NEW c \in Calls, Tick(c)
      PROVE  MutexInv'
  BY <1>8 DEF Tick
<1>9. ASSUME NEW c \in Calls, Leave(c)
      PROVE  MutexInv'
  BY <1>9 DEF Leave
<1>10. CASE UNCHANGED vars
  BY <1>10 DEF vars
<1> QED
  BY <1>1, <1>2, <1>3, <1>4, <1>5, <1>6, <1>7, <1>8, <1>9, <1>10 DEF Next, CallStep, Idle

LEMMA FedStep == WatcherInv /\ MutexInv /\ FedInv /\ [Next]_vars => FedInv'
<1> SUFFICES ASSUME WatcherInv, MutexInv, FedInv, [Next]_vars
             PROVE  FedInv'
  OBVIOUS
<1> USE WatchNoneAssumption DEF WatcherInv, TypeOK, MutexInv, FedInv, Calm, Quiet, Pending, ShuttingDown
<1>1. ASSUME NEW c \in Calls, Mount(c) \/ Unmount(c) \/ Shutdown(c)
      PROVE  FedInv'
  <2> SUFFICES ASSUME Calm'
               PROVE  FedInv'
    OBVIOUS
  <2> USE DEF Invoke
  <2>1. Calm /\ Quiet
    BY <1>1 DEF Mount, Unmount, Shutdown
  <2>2. \A d \in Calls : Pending(d)' <=> d = c
    BY <1>1, <2>1 DEF Mount, Unmount, Shutdown
  <2>3. ~Quiet'
    BY <2>2
  <2>4. CASE Mount(c)
    BY <2>1, <2>2, <2>3, <2>4 DEF Mount
  <2>5. CASE Unmount(c)
    BY <2>1, <2>2, <2>3, <2>5 DEF Unmount
  <2>6. CASE Shutdown(c)
    BY <2>6 DEF Shutdown
  <2> QED
    BY <1>1, <2>4, <2>5, <2>6
<1>2. ASSUME NEW c \in Calls, StartRefused(c)
      PROVE  FedInv'
  BY <1>2 DEF StartRefused
<1>3. ASSUME NEW c \in Calls, StartWatcher(c)
      PROVE  FedInv'
  BY <1>3 DEF StartWatcher
<1>4. ASSUME NEW c \in Calls, StopBegins(c)
      PROVE  FedInv'
  BY <1>4 DEF StopBegins
<1>5. ASSUME NEW c \in Calls, StopEnds(c)
      PROVE  FedInv'
  <2> SUFFICES ASSUME Calm'
               PROVE  FedInv'
    OBVIOUS
  <2>1. Calm /\ Pending(c)
    BY <1>5 DEF StopEnds
  <2>2. \A d \in Calls : ~Pending(d)'
    BY <1>5, <2>1 DEF StopEnds
  <2>3. op[c] = "stop"
    BY <1>5, <2>1 DEF StopEnds
  <2> QED
    BY <1>5, <2>1, <2>2, <2>3 DEF StopEnds
<1>6. ASSUME NEW c \in Calls, CloseStorage(c)
      PROVE  FedInv'
  BY <1>6 DEF CloseStorage
<1>7. ASSUME NEW c \in Calls, Emit(c)
      PROVE  FedInv'
  BY <1>7 DEF Emit
<1>8. ASSUME NEW c \in Calls, Tick(c)
      PROVE  FedInv'
  BY <1>8 DEF Tick
<1>9. ASSUME NEW c \in Calls, Leave(c)
      PROVE  FedInv'
  BY <1>9 DEF Leave
<1>10. CASE UNCHANGED vars
  BY <1>10 DEF vars
<1> QED
  BY <1>1, <1>2, <1>3, <1>4, <1>5, <1>6, <1>7, <1>8, <1>9, <1>10 DEF Next, CallStep, Idle

\* Once its calls have returned the watcher runs exactly while the dashboard is
\* on screen, if the user was slow enough for the calls of one visit to return
\* before the next (StatusDashboard's effect and its cleanup).
THEOREM DashboardFed == Spec => []DashboardIsFed
<1>1. Init => MutexInv /\ FedInv
  BY WatchNoneAssumption
     DEF Init, MutexInv, FedInv, Calm, Quiet, Pending, ShuttingDown
<1>2. WatcherInv /\ MutexInv /\ FedInv => DashboardIsFed
  <2> SUFFICES ASSUME WatcherInv, MutexInv, FedInv, Calm, Quiet
               PROVE  mounted = \E c \in Calls : Alive(c)
    BY DEF DashboardIsFed, Calm
  <2>1. mounted <=> running
    BY DEF FedInv
  <2>2. mu = None
    BY DEF MutexInv, Quiet, Pending, WatcherInv, TypeOK
  <2>3. running <=> \E c \in Calls : Alive(c)
    BY <2>2 DEF WatcherInv, OnePoller, MutexInv
  <2> QED
    BY <2>1, <2>3 DEF WatcherInv, TypeOK
<1> QED
  BY <1>1, <1>2, WatcherInit, WatcherStep, MutexStep, FedStep, PTL DEF Spec

-----------------------------------------------------------------------------
(***************************************************************************)
(* The links.  AUTOINCREMENT never gives an id out twice, so an id tells   *)
(* which connection is meant even after it is gone: every id that a list,  *)
(* a session or a row holds is of the connection saved under it.           *)
(***************************************************************************)
Row == [id : Nat \ {0}, born : Nat]
Session == [id : Nat \ {0}, born : Nat, chosen : Nat, busy : BOOLEAN]
Entry == [scope : Nat, ran : Nat]
Snippet == [id : Nat, scope : Nat, chosen : Nat]

RowsTyped ==
    /\ births \in Nat
    /\ sequence \in [connections : Nat, snippets : Nat]
    /\ saved \subseteq Row
    /\ snippets \subseteq Snippet
    /\ history \subseteq Entry
    /\ shown \in [Instances -> SUBSET Row]
    /\ opened \in [Instances -> SUBSET Session]

IdsTellConnections ==
    /\ sequence.connections = births
    /\ \A c \in saved : c.id = c.born
    /\ \A p \in Instances : \A x \in shown[p] : x.id = x.born
    /\ \A p \in Instances : \A s \in opened[p] : s.id = s.born /\ s.born = s.chosen

RowsRefer ==
    /\ \A e \in history : IsOf(e.scope, e.ran)
    /\ \A s \in snippets : s.scope # Global => IsOf(s.scope, s.chosen)

SnippetsKept ==
    /\ \A s \in snippets : s.id <= sequence.snippets
    /\ \A s, t \in snippets : s.id = t.id => s = t
    /\ {s.id : s \in snippets} = kept

LinkInv == RowsTyped /\ IdsTellConnections /\ RowsRefer /\ SnippetsKept

LEMMA LinkInit == StorageInit => LinkInv
  BY DEF StorageInit, LinkInv, RowsTyped, IdsTellConnections, RowsRefer, SnippetsKept

\* Launches and exits touch no row.
LEMMA LaunchLinks ==
  ASSUME LinkInv, NEW p \in Instances, Launch(p) \/ ApplyMigration(p) \/ Exit(p)
  PROVE  LinkInv'
<1>1. UNCHANGED storeVars
  BY DEF Launch, ApplyMigration, Exit, storeVars
<1>2. /\ shown' \in [Instances -> SUBSET Row]
      /\ opened' \in [Instances -> SUBSET Session]
      /\ \A q \in Instances : shown'[q] \subseteq shown[q] /\ opened'[q] \subseteq opened[q]
  BY DEF Launch, ApplyMigration, Exit, LinkInv, RowsTyped
<1> QED
  BY <1>1, <1>2 DEF LinkInv, RowsTyped, IdsTellConnections, RowsRefer, SnippetsKept, IsOf, storeVars

\* A list is read, or a connection saved under the next id.
LEMMA SaveLinks ==
  ASSUME LinkInv, NEW p \in Instances, ListConnections(p) \/ SaveConnection(p)
  PROVE  LinkInv'
<1>1. CASE ListConnections(p)
  BY <1>1 DEF ListConnections, storeVars, LinkInv, RowsTyped, IdsTellConnections, RowsRefer,
     SnippetsKept, IsOf
<1>2. CASE SaveConnection(p)
  <2> DEFINE new == [id |-> NextConnection, born |-> births + 1]
  <2>1. new \in Row /\ new.id = new.born
    BY DEF LinkInv, RowsTyped, IdsTellConnections, Row, NextConnection
  <2>2. RowsTyped'
    BY <1>2, <2>1 DEF SaveConnection, LinkInv, RowsTyped, NextConnection
  <2>3. IdsTellConnections'
    BY <1>2, <2>1 DEF SaveConnection, LinkInv, RowsTyped, IdsTellConnections, NextConnection
  <2>4. RowsRefer'
    BY <1>2 DEF SaveConnection, LinkInv, RowsRefer, IsOf
  <2>5. SnippetsKept'
    BY <1>2 DEF SaveConnection, LinkInv, RowsTyped, SnippetsKept
  <2> QED
    BY <2>2, <2>3, <2>4, <2>5 DEF LinkInv
<1> QED
  BY <1>1, <1>2

\* The rows that refer to a connection go with it or become global; those of
\* others keep theirs.
LEMMA DeleteLinks ==
  ASSUME LinkInv, NEW p \in Instances, DeleteConnection(p)
  PROVE  LinkInv'
<1>1. PICK x \in shown[p] :
        /\ saved' = {c \in saved : c.id # x.id}
        /\ history' = {e \in history : e.scope # x.id}
        /\ snippets' = Unlinked(x.id)
        /\ UNCHANGED <<sequence, births, kept, shown, opened>>
  BY DEF DeleteConnection
<1> DEFINE freed(t) == IF t.scope = x.id THEN [t EXCEPT !.scope = Global, !.chosen = Global]
                      ELSE t
<1>2. snippets' = {freed(t) : t \in snippets}
  BY <1>1 DEF Unlinked
<1>3. ASSUME NEW t \in snippets
      PROVE  /\ freed(t) \in Snippet
             /\ freed(t).id = t.id
             /\ \/ freed(t).scope = Global
                \/ freed(t) = t /\ t.scope # x.id
  <2>1. t \in Snippet
    BY DEF LinkInv, RowsTyped
  <2>2. CASE t.scope = x.id
    BY <2>1, <2>2 DEF Snippet, Global
  <2>3. CASE t.scope # x.id
    BY <2>1, <2>3
  <2> QED
    BY <2>2, <2>3
<1> HIDE DEF freed
<1>4. RowsTyped'
  BY <1>1, <1>2, <1>3 DEF LinkInv, RowsTyped
<1>5. IdsTellConnections'
  BY <1>1 DEF LinkInv, IdsTellConnections
<1>6. RowsRefer'
  BY <1>1, <1>2, <1>3 DEF LinkInv, RowsRefer, IsOf
<1>7. SnippetsKept'
  <2>1. \A s \in snippets' : s.id <= sequence'.snippets
    BY <1>1, <1>2, <1>3 DEF LinkInv, SnippetsKept
  <2>2. \A s, t \in snippets' : s.id = t.id => s = t
    BY <1>2, <1>3 DEF LinkInv, SnippetsKept
  <2>3. {s.id : s \in snippets'} = {s.id : s \in snippets}
    BY <1>2, <1>3
  <2> QED
    BY <1>1, <2>1, <2>2, <2>3 DEF LinkInv, SnippetsKept
<1> QED
  BY <1>4, <1>5, <1>6, <1>7 DEF LinkInv

\* A session is opened from the row that has the id of the one on the screen.
LEMMA SessionLinks ==
  ASSUME LinkInv, NEW p \in Instances, Connect(p) \/ RunQuery(p) \/ CloseSession(p)
  PROVE  LinkInv'
<1>1. UNCHANGED <<storeVars, shown>>
  BY DEF Connect, RunQuery, CloseSession
<1>2. PICK S \in SUBSET Session :
        /\ opened' = [opened EXCEPT ![p] = S]
        /\ \A s \in S : s.id = s.born /\ s.born = s.chosen
  <2>1. CASE Connect(p)
    <3>1. PICK x \in shown[p], c \in saved :
            /\ c.id = x.id
            /\ opened' = [opened EXCEPT ![p] = @ \cup
                  {[id |-> c.id, born |-> c.born, chosen |-> x.born, busy |-> FALSE]}]
      BY <2>1 DEF Connect
    <3>2. [id |-> c.id, born |-> c.born, chosen |-> x.born, busy |-> FALSE] \in Session
      BY DEF LinkInv, RowsTyped, Row, Session
    <3>3. c.id = c.born /\ c.born = x.born
      BY <3>1 DEF LinkInv, IdsTellConnections
    <3> DEFINE new == [id |-> c.id, born |-> c.born, chosen |-> x.born, busy |-> FALSE]
    <3>4. opened[p] \cup {new} \in SUBSET Session
      BY <3>2 DEF LinkInv, RowsTyped
    <3>5. opened' = [opened EXCEPT ![p] = opened[p] \cup {new}]
      BY <3>1 DEF LinkInv, RowsTyped
    <3>6. new.id = new.born /\ new.born = new.chosen
      BY <3>3
    <3> HIDE DEF new
    <3> QED
      BY <3>4, <3>5, <3>6 DEF LinkInv, IdsTellConnections
  <2>2. CASE RunQuery(p)
    <3>1. PICK s \in opened[p] :
            opened' = [opened EXCEPT ![p] = (@ \ {s}) \cup {[s EXCEPT !.busy = TRUE]}]
      BY <2>2 DEF RunQuery
    <3> DEFINE new == [s EXCEPT !.busy = TRUE]
    <3>2. s \in Session /\ s.id = s.born /\ s.born = s.chosen
      BY DEF LinkInv, RowsTyped, IdsTellConnections
    <3>3. new \in Session /\ new.id = new.born /\ new.born = new.chosen
      BY <3>2 DEF Session
    <3>4. opened' = [opened EXCEPT ![p] = (opened[p] \ {s}) \cup {new}]
      BY <3>1 DEF LinkInv, RowsTyped
    <3> HIDE DEF new
    <3>5. (opened[p] \ {s}) \cup {new} \in SUBSET Session
      BY <3>3 DEF LinkInv, RowsTyped
    <3> QED
      BY <3>3, <3>4, <3>5 DEF LinkInv, IdsTellConnections
  <2>3. CASE CloseSession(p)
    <3>1. PICK s \in opened[p] : opened' = [opened EXCEPT ![p] = @ \ {s}]
      BY <2>3 DEF CloseSession
    <3>2. opened[p] \ {s} \in SUBSET Session
      BY DEF LinkInv, RowsTyped
    <3> QED
      BY <3>1, <3>2 DEF LinkInv, RowsTyped, IdsTellConnections
  <2> QED
    BY <2>1, <2>2, <2>3
<1> QED
  BY <1>1, <1>2 DEF LinkInv, RowsTyped, IdsTellConnections, RowsRefer, SnippetsKept, IsOf, storeVars

\* A statement is recorded for a connection that exists, the session's own.
LEMMA HistoryLinks ==
  ASSUME LinkInv, NEW p \in Instances, RecordQueryHistory(p) \/ DeleteQueryHistoryEntry(p)
  PROVE  LinkInv'
<1>1. CASE RecordQueryHistory(p)
  <2>1. PICK s \in opened[p] :
          /\ history' = history \cup Recorded(s)
          /\ opened' = [opened EXCEPT ![p] = (@ \ {s}) \cup {[s EXCEPT !.busy = FALSE]}]
          /\ UNCHANGED <<sequence, saved, births, snippets, kept, shown>>
    BY <1>1 DEF RecordQueryHistory
  <2>2. s \in Session /\ s.id = s.born
    BY DEF LinkInv, RowsTyped, IdsTellConnections
  <2>3. \A e \in Recorded(s) : e \in Entry /\ IsOf(e.scope, e.ran)
    BY <2>2 DEF Recorded, Entry, IsOf, Row, Session, LinkInv, RowsTyped, IdsTellConnections
  <2>4. RowsTyped'
    BY <2>1, <2>2, <2>3 DEF LinkInv, RowsTyped, Session
  <2>5. IdsTellConnections'
    BY <2>1, <2>2 DEF LinkInv, RowsTyped, IdsTellConnections, Session
  <2> QED
    BY <2>1, <2>3, <2>4, <2>5 DEF LinkInv, RowsRefer, SnippetsKept, IsOf
<1>2. CASE DeleteQueryHistoryEntry(p)
  BY <1>2 DEF DeleteQueryHistoryEntry, LinkInv, RowsTyped, IdsTellConnections, RowsRefer,
     SnippetsKept, IsOf
<1> QED
  BY <1>1, <1>2

\* A snippet is only scoped to a connection that exists.
LEMMA SnippetLinks ==
  ASSUME LinkInv, NEW p \in Instances, CreateSnippet(p) \/ UpdateSnippet(p) \/ DeleteSnippet(p)
  PROVE  LinkInv'
<1>1. ASSUME NEW x \in Scopes(p), Exists(x)
      PROVE  x.id \in Nat /\ x.born \in Nat /\ (x.id # Global => IsOf(x.id, x.born))
  BY <1>1 DEF Scopes, Exists, IsOf, Global, Row, LinkInv, RowsTyped, IdsTellConnections
<1>2. CASE CreateSnippet(p)
  <2>1. PICK x \in Scopes(p) :
          /\ Exists(x)
          /\ sequence' = [sequence EXCEPT !.snippets = @ + 1]
          /\ snippets' = snippets \cup
                {[id |-> sequence'.snippets, scope |-> x.id, chosen |-> x.born]}
          /\ kept' = kept \cup {sequence'.snippets}
          /\ UNCHANGED <<saved, births, history, shown, opened>>
    BY <1>2 DEF CreateSnippet
  <2>2. /\ sequence' \in [connections : Nat, snippets : Nat]
        /\ sequence'.snippets = sequence.snippets + 1
        /\ sequence'.connections = sequence.connections
    BY <2>1 DEF LinkInv, RowsTyped
  <2> DEFINE new == [id |-> sequence'.snippets, scope |-> x.id, chosen |-> x.born]
  <2>3. new \in Snippet
    BY <1>1, <2>1, <2>2 DEF Snippet
  <2>4. RowsTyped' /\ IdsTellConnections' /\ RowsRefer'
    BY <1>1, <2>1, <2>2, <2>3 DEF LinkInv, RowsTyped, IdsTellConnections, RowsRefer, IsOf
  <2>5. SnippetsKept'
    <3>1. snippets' = snippets \cup {new} /\ kept' = kept \cup {new.id}
      BY <2>1
    <3>2. new.id = sequence.snippets + 1 /\ sequence.snippets \in Nat
      BY <2>2 DEF LinkInv, RowsTyped
    <3>3. \A s \in snippets : s.id \in Nat /\ s.id <= sequence.snippets
      BY DEF LinkInv, RowsTyped, Snippet, SnippetsKept
    <3> HIDE DEF new
    <3> QED
      BY <2>2, <3>1, <3>2, <3>3 DEF LinkInv, SnippetsKept
  <2> QED
    BY <2>4, <2>5 DEF LinkInv
<1>3. CASE UpdateSnippet(p)
  <2>1. PICK x \in Scopes(p), s \in snippets :
          /\ Exists(x)
          /\ snippets' = (snippets \ {s}) \cup {[s EXCEPT !.scope = x.id, !.chosen = x.born]}
          /\ UNCHANGED <<sequence, saved, births, kept, history, shown, opened>>
    BY <1>3 DEF UpdateSnippet
  <2> DEFINE new == [s EXCEPT !.scope = x.id, !.chosen = x.born]
  <2>2. new \in Snippet /\ new.id = s.id /\ new.scope = x.id /\ new.chosen = x.born
    BY <1>1, <2>1 DEF LinkInv, RowsTyped, Snippet
  <2>3. snippets' = (snippets \ {s}) \cup {new}
    BY <2>1
  <2> HIDE DEF new
  <2>4. RowsTyped' /\ IdsTellConnections' /\ RowsRefer'
    BY <1>1, <2>1, <2>2, <2>3 DEF LinkInv, RowsTyped, IdsTellConnections, RowsRefer, IsOf
  <2>5. SnippetsKept'
    BY <2>1, <2>2, <2>3 DEF LinkInv, SnippetsKept
  <2> QED
    BY <2>4, <2>5 DEF LinkInv
<1>4. CASE DeleteSnippet(p)
  BY <1>4 DEF DeleteSnippet, LinkInv, RowsTyped, IdsTellConnections, RowsRefer, SnippetsKept, IsOf
<1> QED
  BY <1>2, <1>3, <1>4

LEMMA LinkStep == LinkInv /\ [StorageNext]_storageVars => LinkInv'
<1> SUFFICES ASSUME LinkInv, [StorageNext]_storageVars
             PROVE  LinkInv'
  OBVIOUS
<1>1. CASE UNCHANGED storageVars
  BY <1>1 DEF storageVars, storeVars, LinkInv, RowsTyped, IdsTellConnections, RowsRefer,
     SnippetsKept, IsOf
<1> QED
  BY <1>1, LaunchLinks, SaveLinks, DeleteLinks, SessionLinks, HistoryLinks, SnippetLinks
     DEF StorageNext

\* However many processes are launched and killed: a session belongs to the
\* connection that was chosen on the screen; each entry of the history and
\* each scoped snippet refers to a connection that is there and is the one it
\* was made for; and deleting a connection deletes no snippet.
THEOREM LinksAlwaysHold == StorageSpec => []LinksHold
<1>1. LinkInv => LinksHold
  BY DEF LinkInv, IdsTellConnections, RowsRefer, SnippetsKept, LinksHold
<1> QED
  BY <1>1, LinkInit, LinkStep, PTL DEF StorageSpec

-----------------------------------------------------------------------------
(***************************************************************************)
(* The schema.  What is committed and the version it leads to are one      *)
(* transaction, so the version counts the statements that were committed,  *)
(* and what a process alone has left to apply is exactly what is missing.  *)
(* With a second process neither holds (CurrentSchemaStays).               *)
(***************************************************************************)
OneProcess == \A p, q \in Instances : p = q

SchemaInv ==
    /\ version \in 0..2
    /\ altered = 1..version
    /\ app \in [Instances -> {"off", "opening", "up"}]
    /\ todo \in [Instances -> {<<>>, <<2>>, <<1, 2>>}]
    /\ \A p \in Instances :
        /\ app[p] = "opening" => \/ version = 0 /\ todo[p] = <<1, 2>>
                                 \/ version = 1 /\ todo[p] = <<2>>
        /\ app[p] # "opening" => todo[p] = <<>>
        /\ app[p] = "up" => version = 2

LEMMA SchemaInit == StorageInit => SchemaInv
  BY DEF StorageInit, SchemaInv

\* What a launch applies after version 0, 1 or 2, and after the first of them.
LEMMA VersionsLeft ==
    /\ SubSeq(Versions, 0 + 1, 2) = <<1, 2>>
    /\ SubSeq(Versions, 1 + 1, 2) = <<2>>
    /\ SubSeq(Versions, 2 + 1, 2) = <<>>
    /\ Tail(<<1, 2>>) = <<2>>
<1>1. Versions \in Seq(Nat) /\ Len(Versions) = 2 /\ Versions[1] = 1 /\ Versions[2] = 2
  BY DEF Versions
<1>2. SubSeq(Versions, 1, 2) = Versions
  BY <1>1, SubSeqFull
<1>3. SubSeq(Versions, 2, 2) = <<2>>
  <2>1. \A i \in 2..2 : Versions[i] \in Nat
    BY <1>1
  <2>2. /\ SubSeq(Versions, 2, 2) \in Seq(Nat)
        /\ Len(SubSeq(Versions, 2, 2)) = 1
        /\ SubSeq(Versions, 2, 2)[1] = 2
    BY <1>1, <2>1, SubSeqProperties
  <2>3. <<2>> \in Seq(Nat) /\ Len(<<2>>) = 1 /\ <<2>>[1] = 2
    OBVIOUS
  <2> DEFINE s == SubSeq(Versions, 2, 2)
  <2> DEFINE t == <<2>>
  <2>4. s \in Seq(Nat) /\ t \in Seq(Nat) /\ Len(s) = Len(t) /\ \A i \in 1..Len(s) : s[i] = t[i]
    BY <2>2, <2>3
  <2> HIDE DEF s, t
  <2>5. s = t
    BY <2>4, SeqEqual
  <2> QED
    BY <2>5 DEF s, t
<1>4. SubSeq(Versions, 3, 2) = <<>>
  BY SubSeqEmpty
<1>5. Tail(Versions) = SubSeq(Versions, 2, 2)
  <2>1. Versions # <<>>
    BY <1>1, EmptySeq
  <2>2. Tail(Versions) = SubSeq(Versions, 2, Len(Versions))
    BY <1>1, <2>1, TailIsSubSeq
  <2> QED
    BY <1>1, <2>2
<1> QED
  BY <1>2, <1>3, <1>4, <1>5 DEF Versions

\* A launch finds what the last process left, however it ended.
LEMMA LaunchSchema ==
  ASSUME OneProcess, SchemaInv, NEW p \in Instances, Launch(p)
  PROVE  SchemaInv'
<1>1. \A q \in Instances : q = p
  BY DEF OneProcess
<1>2. UNCHANGED <<version, altered>>
  BY DEF Launch
<1>3. Len(Versions) = 2
  BY DEF Versions
<1>4. CASE version = 0
  BY <1>1, <1>2, <1>3, <1>4, VersionsLeft DEF Launch, SchemaInv
<1>5. CASE version = 1
  BY <1>1, <1>2, <1>3, <1>5, VersionsLeft DEF Launch, SchemaInv
<1>6. CASE version = 2
  BY <1>1, <1>2, <1>3, <1>6, VersionsLeft DEF Launch, SchemaInv
<1> QED
  BY <1>4, <1>5, <1>6 DEF SchemaInv

\* The second version finds its column missing: it is committed at most once.
LEMMA ApplySchema ==
  ASSUME OneProcess, SchemaInv, NEW p \in Instances, ApplyMigration(p)
  PROVE  SchemaInv'
<1>1. \A q \in Instances : q = p
  BY DEF OneProcess
<1>2. CASE version = 0
  <2>1. todo[p] = <<1, 2>> /\ Head(todo[p]) = 1 /\ Tail(todo[p]) = <<2>> /\ Len(todo[p]) = 2
    <3>1. todo[p] = <<1, 2>>
      BY <1>2 DEF ApplyMigration, SchemaInv
    <3>2. Head(<<1, 2>>) = 1 /\ Len(<<1, 2>>) = 2
      OBVIOUS
    <3> QED
      BY <3>1, <3>2, VersionsLeft
  <2>2. Committed(p, 1)
    BY <2>1 DEF ApplyMigration
  <2> QED
    BY <1>1, <1>2, <2>1, <2>2 DEF Committed, ApplyMigration, SchemaInv
<1>3. CASE version = 1
  <2>1. todo[p] = <<2>> /\ Head(todo[p]) = 2 /\ Tail(todo[p]) = <<>> /\ Len(todo[p]) = 1
    BY <1>3 DEF ApplyMigration, SchemaInv
  <2>2. 2 \notin altered
    BY <1>3 DEF SchemaInv
  <2>3. Committed(p, 2)
    BY <2>1, <2>2 DEF ApplyMigration
  <2> QED
    BY <1>1, <1>3, <2>1, <2>3 DEF Committed, ApplyMigration, SchemaInv
<1> QED
  BY <1>2, <1>3 DEF ApplyMigration, SchemaInv

LEMMA SchemaStep == OneProcess /\ SchemaInv /\ [StorageNext]_storageVars => SchemaInv'
<1> SUFFICES ASSUME OneProcess, SchemaInv, [StorageNext]_storageVars
             PROVE  SchemaInv'
  OBVIOUS
<1>1. ASSUME NEW p \in Instances, Exit(p)
      PROVE  SchemaInv'
  BY <1>1 DEF Exit, SchemaInv
<1>2. ASSUME UNCHANGED <<version, altered, app, todo>>
      PROVE  SchemaInv'
  BY <1>2 DEF SchemaInv
<1>3. CASE UNCHANGED storageVars
  BY <1>2, <1>3 DEF storageVars
<1>4. ASSUME NEW p \in Instances,
             \/ ListConnections(p) \/ SaveConnection(p) \/ DeleteConnection(p) \/ Connect(p)
             \/ RunQuery(p) \/ RecordQueryHistory(p) \/ CloseSession(p)
             \/ DeleteQueryHistoryEntry(p)
             \/ CreateSnippet(p) \/ UpdateSnippet(p) \/ DeleteSnippet(p)
      PROVE  UNCHANGED <<version, altered, app, todo>>
  BY <1>4 DEF ListConnections, SaveConnection, DeleteConnection, Connect, RunQuery,
     RecordQueryHistory, CloseSession, DeleteQueryHistoryEntry, CreateSnippet,
     UpdateSnippet, DeleteSnippet, Bound
<1> QED
  BY <1>1, <1>2, <1>3, <1>4, LaunchSchema, ApplySchema DEF StorageNext

LEMMA SchemaSurvives == SchemaInv /\ LinkInv => StorageSurvives
<1> SUFFICES ASSUME SchemaInv, LinkInv
             PROVE  StorageSurvives
  OBVIOUS
<1>1. StorageTypeOK
  <2>1. version \in {0, 1, 2} /\ altered \subseteq {1, 2}
    BY DEF SchemaInv
  <2>2. \A p \in Instances : app[p] = "opening" <=> todo[p] # <<>>
    <3>1. <<1, 2>> # <<>> /\ <<2>> # <<>>
      OBVIOUS
    <3> QED
      BY <3>1 DEF SchemaInv
  <2> QED
    BY <2>1, <2>2 DEF StorageTypeOK, SchemaInv
<1>2. LaunchesSucceed
  BY DEF LaunchesSucceed, SchemaInv
<1>3. \A p \in Instances : app[p] = "up" => version = 2 /\ altered = {1, 2}
  BY DEF SchemaInv
<1>4. LinksHold
  BY DEF LinkInv, IdsTellConnections, RowsRefer, SnippetsKept, LinksHold
<1> QED
  BY <1>1, <1>2, <1>3, <1>4 DEF StorageSurvives

\* A process that is alone survives kills between any two steps of its
\* launches: none of them fails, one that is up has the whole schema, and the
\* links hold, for any number of connections and snippets.
THEOREM StorageSafe == OneProcess => (StorageSpec => []StorageSurvives)
<1> SUFFICES ASSUME OneProcess
             PROVE  StorageSpec => []StorageSurvives
  OBVIOUS
<1>1. SchemaInv /\ [StorageNext]_storageVars => SchemaInv'
  BY SchemaStep
<1> QED
  BY <1>1, SchemaInit, LinkInit, LinkStep, SchemaSurvives, PTL DEF StorageSpec

-----------------------------------------------------------------------------
(***************************************************************************)
(* The application follows one of the two parts at a time, so each part    *)
(* keeps its invariants.                                                   *)
(***************************************************************************)
LEMMA EachPartSteps ==
    /\ [AppNext]_appVars => [Next]_vars
    /\ [AppNext]_appVars => [StorageNext]_storageVars
  BY DEF AppNext, appVars

\* In the application, the watcher is well typed, has one poller at most, and
\* feeds an unhurried user's dashboard.
THEOREM ApplicationWatches == AppSpec => [](TypeOK /\ OnePoller /\ DashboardIsFed)
<1>1. AppSpec => Spec
  BY EachPartSteps, PTL DEF AppSpec, AppInit, Spec
<1> QED
  BY <1>1, WatcherTypeCorrect, NoCompetingPoller, DashboardFed, PTL

\* In the application, the storage of a process that is alone survives.
THEOREM ApplicationStores == OneProcess => (AppSpec => []StorageSurvives)
<1> SUFFICES ASSUME OneProcess
             PROVE  AppSpec => []StorageSurvives
  OBVIOUS
<1>1. AppSpec => StorageSpec
  BY EachPartSteps, PTL DEF AppSpec, AppInit, StorageSpec
<1>2. StorageSpec => []StorageSurvives
  BY StorageSafe
<1> QED
  BY <1>1, <1>2, PTL

=============================================================================
