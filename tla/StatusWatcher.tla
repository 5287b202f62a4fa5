--------------------------- MODULE StatusWatcher ---------------------------
(***************************************************************************)
(* The status watcher of app.go: one background goroutine that pushes      *)
(* snapshots to the status dashboard while that view is mounted. Mounting  *)
(* the view calls StartStatusWatcher, unmounting it calls                  *)
(* StopStatusWatcher, and the view waits for neither; so does the shutdown *)
(* callback, which then closes local storage. Every call is a goroutine.   *)
(***************************************************************************)
EXTENDS Naturals, FiniteSets

CONSTANTS Calls,    \* ids of the Start- and StopStatusWatcher calls
          None

ASSUME WatchNoneAssumption == None \notin Calls

VARIABLES
    mounted,    \* the dashboard is on screen
    running,    \* App.statusWatcherRunning
    mu,         \* the call that holds statusWatcherMu across a wait, or None
    watch,      \* the call whose watchCtx statusWatcherCancel cancels, or None
    stopped,    \* calls whose watchCtx is cancelled
    op,         \* op[c]: "start", "stop", "shutdown" or None
    pc,         \* pc[c]: "idle", "called", "waiting", "done" or "refused"
    poller,     \* poller[c]: the goroutine call c has started
    storage,    \* local storage is "open" or "closed"
    hasty       \* history: a visit began or ended before the calls of the
                \* previous ones had returned

vars == <<hasty, mounted, running, mu, watch, stopped, op, pc, poller, storage>>

TypeOK ==
    /\ mounted \in BOOLEAN
    /\ running \in BOOLEAN
    /\ mu \in Calls \cup {None}
    /\ watch \in Calls \cup {None}
    /\ stopped \subseteq Calls
    /\ op \in [Calls -> {"start", "stop", "shutdown", None}]
    /\ pc \in [Calls -> {"idle", "called", "waiting", "done", "refused"}]
    /\ poller \in [Calls -> {"none", "building", "waiting", "gone"}]
    /\ storage \in {"open", "closed"}
    /\ hasty \in BOOLEAN

Init ==
    /\ mounted = FALSE
    /\ running = FALSE
    /\ mu = None
    /\ watch = None
    /\ stopped = {}
    /\ op = [c \in Calls |-> None]
    /\ pc = [c \in Calls |-> "idle"]
    /\ poller = [c \in Calls |-> "none"]
    /\ storage = "open"
    /\ hasty = FALSE

-----------------------------------------------------------------------------
Pending(c) == pc[c] \in {"called", "waiting"}
Quiet == \A c \in Calls : ~Pending(c)
Alive(c) == poller[c] \in {"building", "waiting"}
ShuttingDown == \E c \in Calls : op[c] = "shutdown"

Invoke(c, o) ==
    /\ ~ShuttingDown
    /\ pc[c] = "idle"
    /\ op' = [op EXCEPT ![c] = o]
    /\ pc' = [pc EXCEPT ![c] = "called"]
    /\ hasty' = (hasty \/ ~Quiet)
    /\ UNCHANGED <<running, mu, watch, stopped, poller, storage>>

\* The effect of StatusDashboard, and its cleanup.
Mount(c) ==
    /\ ~mounted
    /\ Invoke(c, "start")
    /\ mounted' = TRUE

Unmount(c) ==
    /\ mounted
    /\ Invoke(c, "stop")
    /\ mounted' = FALSE

\* The window is closed; the view gets no chance to clean up.
Shutdown(c) ==
    /\ Invoke(c, "shutdown")
    /\ UNCHANGED mounted

\* Docker or local storage was not available when the application started.
StartRefused(c) ==
    /\ op[c] = "start"
    /\ pc[c] = "called"
    /\ pc' = [pc EXCEPT ![c] = "refused"]
    /\ UNCHANGED <<hasty, mounted, running, mu, watch, stopped, op, poller, storage>>

\* Mutant of StartWatcher: statusWatcherRunning is not looked at.
StartWatcherAgain(c) ==
    /\ op[c] = "start"
    /\ pc[c] = "called"
    /\ mu = None
    /\ watch' = c
    /\ running' = TRUE
    /\ poller' = [poller EXCEPT ![c] = "building"]
    /\ pc' = [pc EXCEPT ![c] = "done"]
    /\ UNCHANGED <<hasty, mounted, mu, stopped, op, storage>>

\* StartStatusWatcher, under the mutex: a no-op while a watcher runs.
StartWatcher(c) ==
    /\ op[c] = "start"
    /\ pc[c] = "called"
    /\ mu = None
    /\ pc' = [pc EXCEPT ![c] = "done"]
    /\ IF running
       THEN UNCHANGED <<watch, running, poller>>
       ELSE /\ watch' = c
            /\ running' = TRUE
            /\ poller' = [poller EXCEPT ![c] = "building"]
    /\ UNCHANGED <<hasty, mounted, mu, stopped, op, storage>>

\* Mutant of StopBegins: the context is not cancelled.
StopBeginsOnly(c) ==
    /\ op[c] \in {"stop", "shutdown"}
    /\ pc[c] = "called"
    /\ mu = None
    /\ mu' = IF running THEN c ELSE None
    /\ pc' = [pc EXCEPT ![c] = IF running THEN "waiting" ELSE "done"]
    /\ UNCHANGED <<hasty, mounted, running, watch, stopped, op, poller, storage>>

\* Mutant of StopBegins: a watcher that is building a snapshot is taken for
\* one that has not started.
StopBeginsUnlessStarting(c) ==
    /\ op[c] \in {"stop", "shutdown"}
    /\ pc[c] = "called"
    /\ mu = None
    /\ IF running /\ ~\E d \in Calls : poller[d] = "building"
       THEN /\ mu' = c
            /\ stopped' = stopped \cup {watch}
            /\ pc' = [pc EXCEPT ![c] = "waiting"]
       ELSE /\ pc' = [pc EXCEPT ![c] = "done"]
            /\ UNCHANGED <<mu, stopped>>
    /\ UNCHANGED <<hasty, mounted, running, watch, op, poller, storage>>

\* StopStatusWatcher takes the mutex; it cancels and waits, or has nothing
\* to do.
StopBegins(c) ==
    /\ op[c] \in {"stop", "shutdown"}
    /\ pc[c] = "called"
    /\ mu = None
    /\ IF running
       THEN /\ mu' = c
            /\ stopped' = stopped \cup {watch}
            /\ pc' = [pc EXCEPT ![c] = "waiting"]
       ELSE /\ pc' = [pc EXCEPT ![c] = "done"]
            /\ UNCHANGED <<mu, stopped>>
    /\ UNCHANGED <<hasty, mounted, running, watch, op, poller, storage>>

\* statusWatcherWG.Wait() returns: no goroutine is left.
StopEnds(c) ==
    /\ pc[c] = "waiting"
    /\ \A d \in Calls : ~Alive(d)
    /\ running' = FALSE
    /\ mu' = None
    /\ pc' = [pc EXCEPT ![c] = "done"]
    /\ UNCHANGED <<hasty, mounted, watch, stopped, op, poller, storage>>

\* The rest of shutdown.
CloseStorage(c) ==
    /\ op[c] = "shutdown"
    /\ pc[c] = "done"
    /\ storage = "open"
    /\ storage' = "closed"
    /\ UNCHANGED <<hasty, mounted, running, mu, watch, stopped, op, pc, poller>>

-----------------------------------------------------------------------------
\* runStatusWatcher. A snapshot is built and emitted, or skipped on an error.
Emit(c) ==
    /\ poller[c] = "building"
    /\ poller' = [poller EXCEPT ![c] = "waiting"]
    /\ UNCHANGED <<hasty, mounted, running, mu, watch, stopped, op, pc, storage>>

\* The ticker fires. If the context is cancelled as well, select may still
\* take this branch.
Tick(c) ==
    /\ poller[c] = "waiting"
    /\ poller' = [poller EXCEPT ![c] = "building"]
    /\ UNCHANGED <<hasty, mounted, running, mu, watch, stopped, op, pc, storage>>

\* ctx.Done(): the goroutine ends.
Leave(c) ==
    /\ poller[c] = "waiting"
    /\ c \in stopped
    /\ poller' = [poller EXCEPT ![c] = "gone"]
    /\ UNCHANGED <<hasty, mounted, running, mu, watch, stopped, op, pc, storage>>

CallStep(c) ==
    \/ StartWatcher(c) \/ StopBegins(c) \/ StopEnds(c) \/ CloseStorage(c)

Idle ==
    /\ Quiet
    /\ storage = "closed" \/ \A c \in Calls : pc[c] # "idle"
    /\ UNCHANGED vars

Next ==
    \/ \E c \in Calls :
          \/ Mount(c) \/ Unmount(c) \/ Shutdown(c)
          \/ StartRefused(c) \/ CallStep(c)
          \/ Emit(c) \/ Tick(c) \/ Leave(c)
    \/ Idle

Spec == Init /\ [][Next]_vars

(***************************************************************************)
(* Fairness: goroutines are scheduled; building a snapshot is bounded by a *)
(* timeout; and select, which chooses at random among the ready branches,  *)
(* does not take the ticker for ever once the context is cancelled.        *)
(***************************************************************************)
Fairness ==
    \A c \in Calls :
        /\ SF_vars(CallStep(c))
        /\ WF_vars(Emit(c))
        /\ SF_vars(Leave(c))

FairSpec == Spec /\ Fairness

-----------------------------------------------------------------------------
\* There is never a competing poller (StartStatusWatcher), and the goroutine
\* has exited when StopStatusWatcher returns.
OnePoller ==
    /\ \A c, d \in Calls : Alive(c) /\ Alive(d) => c = d
    /\ \A c \in Calls : Alive(c) => running /\ watch = c

\* A StopStatusWatcher call, and with it the shutdown, returns, although it
\* keeps the mutex while it waits for the goroutine.
StopReturns ==
    \A c \in Calls :
        op[c] \in {"stop", "shutdown"} ~> pc[c] = "done"

\* When the calls are done the poller runs if and only if the dashboard is
\* on screen ("Live dashboard ... pushed by the Go backend (started/stopped
\* via StartStatusWatcher/StopStatusWatcher)"), provided the user was slow
\* enough for the calls of one visit to return before the next: a stop that
\* is overtaken by the next visit's start leaves a dashboard nobody feeds.
DashboardIsFed ==
    /\ Quiet
    /\ ~hasty
    /\ ~ShuttingDown
    /\ \A c \in Calls : pc[c] # "refused"
    => mounted = \E c \in Calls : Alive(c)
=============================================================================
