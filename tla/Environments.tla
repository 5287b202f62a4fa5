---------------------------- MODULE Environments ----------------------------
(***************************************************************************)
(* Environment profiles: the rows of the profiles and services tables, the *)
(* Docker containers and volumes behind them, and the bound methods of     *)
(* app.go that keep the two in step: CreateProfile, DuplicateProfile,      *)
(* DeleteProfile, StartProfile, StopProfile and ResetServiceVolume.        *)
(* RestartProfile is a stop followed by a start. Every call runs in a      *)
(* goroutine of its own, and nothing locks a profile: an action is one     *)
(* statement on the database or one request to the Docker engine.          *)
(*                                                                         *)
(* A profile has at most one service per engine, inserted when the profile *)
(* is, so a service is the pair <<profile, engine>>. Container and volume  *)
(* names are derived from ids that SQLite never reuses. The network of a   *)
(* profile is left out: the application never removes one.                 *)
(***************************************************************************)
EXTENDS Naturals, FiniteSets

CONSTANTS Calls,        \* ids of the bound-method calls
          Profiles,     \* ids of the profiles table
          Engines,      \* the supported engines
          Ops,          \* which bound methods the frontend uses
          DefaultPort,  \* DefaultPort[e]: the engine's standard port
          ForeignPorts, \* ports that other programs may hold
          None

AllOps == {"create", "duplicate", "delete", "start", "stop", "reset"}

ASSUME EnvOpsAssumption == Ops \subseteq AllOps
ASSUME EnvPortsAssumption ==
    /\ DefaultPort \in [Engines -> Nat]
    /\ ForeignPorts \subseteq Nat
ASSUME EnvNoneAssumption == None \notin Profiles \cup Engines \cup AllOps

Svc == Profiles \X Engines

VARIABLES
    profiles,   \* rows of the profiles table
    issued,     \* ids the table has handed out (AUTOINCREMENT)
    services,   \* rows of the services table
    hostPort,   \* hostPort[s]: the port of s's row, and of its container
    container,  \* container[s]: "none", "created", "running" or "exited"
    volumes,    \* services whose named volume exists
    stale,      \* "reset" calls: the volume they found still exists
    foreign,    \* ports held by other programs
    op,         \* op[c]: the bound method call c runs
    pc,         \* pc[c]: where its goroutine is
    prof,       \* prof[c]: the profile it works on
    src,        \* src[c]: the profile it copies (DuplicateProfile)
    todo,       \* todo[c]: engines of the services still to be handled
    cur,        \* cur[c]: engine of the service being handled
    taken,      \* taken[c]: ports CreateProfile must not assign
    origin,     \* origin[s]: the service s's port was assigned to (history)
    patient     \* does the user wait for a profile's call to return?

rowVars    == <<profiles, issued, services, hostPort, origin>>
dockerVars == <<container, volumes, stale>>
argVars    == <<op, prof, src>>
vars == <<rowVars, dockerVars, foreign, argVars, pc, todo, cur, taken, patient>>

PCs == {"idle", "inserting", "reading", "next", "portcheck", "owner", "volume",
        "inspect", "create", "boot", "stopping", "halt", "removing", "remove",
        "wipe", "status", "deleting", "done", "failed"}

TypeOK ==
    /\ profiles \subseteq Profiles
    /\ issued \subseteq Profiles
    /\ services \subseteq Svc
    /\ hostPort \in [Svc -> Nat]
    /\ container \in [Svc -> {"none", "created", "running", "exited"}]
    /\ volumes \subseteq Svc
    /\ stale \subseteq Calls
    /\ foreign \subseteq ForeignPorts
    /\ op \in [Calls -> AllOps \cup {None}]
    /\ pc \in [Calls -> PCs]
    /\ prof \in [Calls -> Profiles \cup {None}]
    /\ src \in [Calls -> Profiles \cup {None}]
    /\ todo \in [Calls -> SUBSET Engines]
    /\ cur \in [Calls -> Engines \cup {None}]
    /\ taken \in [Calls -> SUBSET Nat]
    /\ origin \in [Svc -> Svc]
    /\ patient \in BOOLEAN

Init ==
    /\ profiles = {} /\ issued = {} /\ services = {}
    /\ hostPort = [s \in Svc |-> 0]
    /\ origin = [s \in Svc |-> s]
    /\ container = [s \in Svc |-> "none"]
    /\ volumes = {} /\ stale = {} /\ foreign = {}
    /\ op = [c \in Calls |-> None]
    /\ pc = [c \in Calls |-> "idle"]
    /\ prof = [c \in Calls |-> None]
    /\ src = [c \in Calls |-> None]
    /\ todo = [c \in Calls |-> {}]
    /\ cur = [c \in Calls |-> None]
    /\ taken = [c \in Calls |-> {}]
    /\ patient \in BOOLEAN

-----------------------------------------------------------------------------
(***************************************************************************)
(* Helpers.                                                                *)
(***************************************************************************)
Goto(c, from, to) ==
    /\ pc[c] = from
    /\ pc' = [pc EXCEPT ![c] = to]

EnginesOf(p) == {e \in Engines : <<p, e>> \in services}

\* The service call c is handling.
This(c) == <<prof[c], cur[c]>>

Active(c) == pc[c] \notin {"idle", "done", "failed"}

Touches(c, p) == prof[c] = p \/ src[c] = p

\* The view disables a profile's buttons while one of its calls is running -
\* but it forgets when the user leaves the view, and "Reset volume" does not
\* take part. The patient user waits all the same.
Alone(p) == patient => \A c \in Calls : Active(c) => ~Touches(c, p)

Creating == \E c \in Calls : op[c] = "create" /\ Active(c)

\* netcheck.IsPortFree; Docker binds the ports of running containers only.
PortFree(q) ==
    /\ q \notin foreign
    /\ \A s \in Svc : container[s] = "running" => hostPort[s] # q

\* assignHostPorts: bumped upward past every port that is taken.
FirstFree(used, q) ==
    CHOOSE r \in q..(q + Cardinality(used)) :
        r \notin used /\ \A t \in q..(r - 1) : t \in used

\* The loop over the services moves on, or the handler returns.
ServiceDone(c, last) ==
    /\ todo' = [todo EXCEPT ![c] = @ \ {cur[c]}]
    /\ cur' = [cur EXCEPT ![c] = None]
    /\ pc' = [pc EXCEPT ![c] = IF todo[c] \subseteq {cur[c]} THEN last
                               ELSE "next"]

-----------------------------------------------------------------------------
(***************************************************************************)
(* A bound method is called, and reads the rows it will work on. Without   *)
(* rows it returns an error (StartProfile, ResetServiceVolume) or has      *)
(* nothing to stop.                                                        *)
(***************************************************************************)
Begin(c, o, p, from, engines) ==
    /\ o \in Ops
    /\ pc[c] = "idle"
    /\ op' = [op EXCEPT ![c] = o]
    /\ todo' = [todo EXCEPT ![c] = engines]
    /\ prof' = [prof EXCEPT ![c] = p]
    /\ src' = [src EXCEPT ![c] = from]
    /\ UNCHANGED <<rowVars, container, volumes, foreign, taken>>

StartOrStopBegin(c, o, p) ==
    /\ o \in {"start", "stop"}
    /\ EnginesOf(p) # {}
    /\ Alone(p)
    /\ Begin(c, o, p, None, EnginesOf(p))
    /\ pc' = [pc EXCEPT ![c] = "next"]
    /\ UNCHANGED <<cur, stale>>

\* GetProfileStatus is "stopped" at once for a profile without services.
DeleteBegin(c, p) ==
    /\ p \in issued
    /\ Alone(p)
    /\ Begin(c, "delete", p, None, EnginesOf(p))
    /\ pc' = [pc EXCEPT ![c] = IF EnginesOf(p) = {} THEN "deleting"
                               ELSE "next"]
    /\ UNCHANGED <<cur, stale>>

ResetBegin(c, p, e) ==
    /\ e \in EnginesOf(p)
    /\ Alone(p)
    /\ Begin(c, "reset", p, None, {e})
    /\ pc' = [pc EXCEPT ![c] = "stopping"]
    /\ cur' = [cur EXCEPT ![c] = e]
    /\ stale' = IF <<p, e>> \in volumes THEN stale \cup {c} ELSE stale

\* At least one service, no engine twice.
CreateBegin(c, engines) ==
    /\ engines # {}
    /\ patient => ~Creating
    /\ Begin(c, "create", None, None, engines)
    /\ pc' = [pc EXCEPT ![c] = "inserting"]
    /\ UNCHANGED <<cur, stale>>

DuplicateBegin(c, p) ==
    /\ p \in profiles
    /\ Alone(p)
    /\ Begin(c, "duplicate", None, p, EnginesOf(p))
    /\ pc' = [pc EXCEPT ![c] = "inserting"]
    /\ UNCHANGED <<cur, stale>>

-----------------------------------------------------------------------------
(***************************************************************************)
(* CreateProfile and DuplicateProfile: a profile row, then one insert per  *)
(* service, in no transaction.                                             *)
(***************************************************************************)
InsertProfile(c, p) ==
    /\ pc[c] = "inserting"
    /\ p \notin issued
    /\ profiles' = profiles \cup {p}
    /\ issued' = issued \cup {p}
    /\ prof' = [prof EXCEPT ![c] = p]
    /\ pc' = [pc EXCEPT ![c] = IF op[c] = "create" THEN "reading"
                               ELSE IF todo[c] = {} THEN "done" ELSE "next"]
    /\ UNCHANGED <<services, hostPort, origin, dockerVars, foreign, op, src, todo,
                   cur, taken>>

\* Mutant of ReadUsedPorts: the services of copied profiles are left out.
ReadUsedPortsOriginals(c) ==
    /\ Goto(c, "reading", "next")
    /\ taken' = [taken EXCEPT ![c] =
                    {hostPort[s] : s \in {t \in services : origin[t] = t}}]
    /\ UNCHANGED <<rowVars, dockerVars, foreign, argVars, todo, cur>>

\* usedHostPorts: every port recorded for a service at this moment.
ReadUsedPorts(c) ==
    /\ Goto(c, "reading", "next")
    /\ taken' = [taken EXCEPT ![c] = {hostPort[s] : s \in services}]
    /\ UNCHANGED <<rowVars, dockerVars, foreign, argVars, todo, cur>>

\* The port of the next service: assigned, or the original's.
PortFor(c, e) ==
    IF op[c] = "create" THEN FirstFree(taken[c], DefaultPort[e])
    ELSE hostPort[<<src[c], e>>]

\* storage.CreateService; a profile deleted meanwhile is a foreign key error.
InsertService(c, e) ==
    /\ pc[c] = "next"
    /\ op[c] \in {"create", "duplicate"}
    /\ e \in todo[c]
    /\ prof[c] \in profiles
    /\ services' = services \cup {<<prof[c], e>>}
    /\ hostPort' = [hostPort EXCEPT ![<<prof[c], e>>] = PortFor(c, e)]
    /\ origin' = [origin EXCEPT ![<<prof[c], e>>] =
                    IF op[c] = "create" THEN <<prof[c], e>>
                    ELSE origin[<<src[c], e>>]]
    /\ taken' = [taken EXCEPT ![c] = IF todo[c] = {e} THEN {} ELSE @ \cup {PortFor(c, e)}]
    /\ todo' = [todo EXCEPT ![c] = @ \ {e}]
    /\ pc' = [pc EXCEPT ![c] = IF todo[c] = {e} THEN "done" ELSE "next"]
    /\ UNCHANGED <<profiles, issued, dockerVars, foreign, argVars, cur>>

-----------------------------------------------------------------------------
(***************************************************************************)
(* The loops of StartProfile, StopProfile and GetProfileStatus. The order  *)
(* of the rows is the order in which the engines were picked: any.         *)
(***************************************************************************)
PickService(c, e) ==
    /\ e \in todo[c]
    /\ \/ op[c] = "start" /\ Goto(c, "next", "portcheck")
       \/ op[c] = "stop" /\ Goto(c, "next", "stopping")
       \/ op[c] = "delete" /\ Goto(c, "next", "status")
    /\ cur' = [cur EXCEPT ![c] = e]
    /\ UNCHANGED <<rowVars, dockerVars, foreign, argVars, todo, taken>>

\* CheckServicePortConflict, first half: can the port be bound right now?
CheckPort(c) ==
    /\ Goto(c, "portcheck",
            IF PortFree(hostPort[This(c)]) THEN "volume" ELSE "owner")
    /\ UNCHANGED <<rowVars, dockerVars, foreign, argVars, todo, cur, taken>>

\* Second half: the port may be held by the service's own container.
CheckOwner(c) ==
    /\ Goto(c, "owner",
            IF container[This(c)] = "running" THEN "volume" ELSE "failed")
    /\ UNCHANGED <<rowVars, dockerVars, foreign, argVars, todo, cur, taken>>

EnsureVolume(c) ==
    /\ Goto(c, "volume", "inspect")
    /\ volumes' = volumes \cup {This(c)}
    /\ UNCHANGED <<rowVars, container, stale, foreign, argVars, todo, cur,
                   taken>>

\* Mutant of InspectContainer: a container that exists is taken to run.
InspectContainerExists(c) ==
    /\ pc[c] = "inspect"
    /\ IF container[This(c)] # "none"
       THEN ServiceDone(c, "done")
       ELSE /\ pc' = [pc EXCEPT ![c] = "create"]
            /\ UNCHANGED <<todo, cur>>
    /\ UNCHANGED <<rowVars, dockerVars, foreign, argVars, taken>>

\* Ensure<Engine>Container: running - nothing to do; stopped - start it;
\* not found - pull the image, create it, start it.
InspectContainer(c) ==
    /\ pc[c] = "inspect"
    /\ IF container[This(c)] = "running"
       THEN ServiceDone(c, "done")
       ELSE /\ pc' = [pc EXCEPT ![c] = IF container[This(c)] = "none"
                                       THEN "create" ELSE "boot"]
            /\ UNCHANGED <<todo, cur>>
    /\ UNCHANGED <<rowVars, dockerVars, foreign, argVars, taken>>

\* ContainerCreate: the name must be free; a missing volume is created.
CreateContainer(c) ==
    /\ pc[c] = "create"
    /\ IF container[This(c)] = "none"
       THEN /\ container' = [container EXCEPT ![This(c)] = "created"]
            /\ volumes' = volumes \cup {This(c)}
            /\ pc' = [pc EXCEPT ![c] = "boot"]
       ELSE /\ pc' = [pc EXCEPT ![c] = "failed"]
            /\ UNCHANGED <<container, volumes>>
    /\ UNCHANGED <<rowVars, stale, foreign, argVars, todo, cur, taken>>

\* ContainerStart: an error if the container is gone or its port is taken.
StartContainer(c) ==
    /\ pc[c] = "boot"
    /\ \/ /\ container[This(c)] = "running"
          /\ ServiceDone(c, "done")
          /\ UNCHANGED container
       \/ /\ container[This(c)] \in {"created", "exited"}
          /\ PortFree(hostPort[This(c)])
          /\ container' = [container EXCEPT ![This(c)] = "running"]
          /\ ServiceDone(c, "done")
       \/ /\ container[This(c)] # "running"
          /\ container[This(c)] = "none" \/ ~PortFree(hostPort[This(c)])
          /\ pc' = [pc EXCEPT ![c] = "failed"]
          /\ UNCHANGED <<container, todo, cur>>
    /\ UNCHANGED <<rowVars, volumes, stale, foreign, argVars, taken>>

\* StopContainer: nothing to do unless the container runs.
InspectToStop(c) ==
    /\ pc[c] = "stopping"
    /\ IF container[This(c)] = "running"
       THEN pc' = [pc EXCEPT ![c] = "halt"] /\ UNCHANGED <<todo, cur>>
       ELSE IF op[c] = "stop" THEN ServiceDone(c, "done")
       ELSE pc' = [pc EXCEPT ![c] = "removing"] /\ UNCHANGED <<todo, cur>>
    /\ UNCHANGED <<rowVars, dockerVars, foreign, argVars, taken>>

\* ContainerStop; an error if the container is gone by now.
StopContainer(c) ==
    /\ pc[c] = "halt"
    /\ container' = [container EXCEPT ![This(c)] =
                        IF @ = "running" THEN "exited" ELSE @]
    /\ IF op[c] = "stop"
       THEN ServiceDone(c, IF container[This(c)] = "none" THEN "failed"
                           ELSE "done")
       ELSE /\ pc' = [pc EXCEPT ![c] = IF container[This(c)] = "none"
                                       THEN "failed" ELSE "removing"]
            /\ UNCHANGED <<todo, cur>>
    /\ UNCHANGED <<rowVars, volumes, stale, foreign, argVars, taken>>

-----------------------------------------------------------------------------
(***************************************************************************)
(* The rest of ResetServiceVolume: remove the container and the volume,    *)
(* then start the service as StartProfile does, without its port check.    *)
(***************************************************************************)
InspectToRemove(c) ==
    /\ Goto(c, "removing",
            IF container[This(c)] = "none" THEN "wipe" ELSE "remove")
    /\ UNCHANGED <<rowVars, dockerVars, foreign, argVars, todo, cur, taken>>

RemoveContainer(c) ==
    /\ Goto(c, "remove",
            IF container[This(c)] = "none" THEN "failed" ELSE "wipe")
    /\ container' = [container EXCEPT ![This(c)] = "none"]
    /\ UNCHANGED <<rowVars, volumes, stale, foreign, argVars, todo, cur, taken>>

\* Mutant of RemoveVolume: Docker's refusal is taken for "not found".
RemoveVolumeIgnoresError(c) ==
    /\ Goto(c, "wipe", "volume")
    /\ IF container[This(c)] = "none"
       THEN /\ volumes' = volumes \ {This(c)}
            /\ stale' = {d \in stale : This(d) # This(c)}
       ELSE UNCHANGED <<volumes, stale>>
    /\ UNCHANGED <<rowVars, container, foreign, argVars, todo, cur, taken>>

\* Docker refuses while a container refers to the volume, even a stopped one.
RemoveVolume(c) ==
    /\ Goto(c, "wipe",
            IF container[This(c)] = "none" THEN "volume" ELSE "failed")
    /\ IF container[This(c)] = "none"
       THEN /\ volumes' = volumes \ {This(c)}
            /\ stale' = {d \in stale : This(d) # This(c)}
       ELSE UNCHANGED <<volumes, stale>>
    /\ UNCHANGED <<rowVars, container, foreign, argVars, todo, cur, taken>>

-----------------------------------------------------------------------------
(***************************************************************************)
(* DeleteProfile: every service's container is looked at, one by one; the  *)
(* rows go if none was running. Docker is not touched.                     *)
(***************************************************************************)

\* Mutant of CheckStatus: "partial" passes the guard, only "running" fails.
CheckStatusPartial(c) ==
    /\ pc[c] = "status"
    /\ IF /\ container[This(c)] = "running"
          /\ \A e \in EnginesOf(prof[c]) : container[<<prof[c], e>>] = "running"
       THEN pc' = [pc EXCEPT ![c] = "failed"] /\ UNCHANGED <<todo, cur>>
       ELSE ServiceDone(c, "deleting")
    /\ UNCHANGED <<rowVars, dockerVars, foreign, argVars, taken>>

\* GetProfileStatus, and deleteProfileGuardError: "stopped" or nothing.
CheckStatus(c) ==
    /\ pc[c] = "status"
    /\ IF container[This(c)] = "running"
       THEN pc' = [pc EXCEPT ![c] = "failed"] /\ UNCHANGED <<todo, cur>>
       ELSE ServiceDone(c, "deleting")
    /\ UNCHANGED <<rowVars, dockerVars, foreign, argVars, taken>>

\* storage.DeleteProfile: the services go with the profile (CASCADE).
DeleteRows(c) ==
    /\ Goto(c, "deleting", IF prof[c] \in profiles THEN "done" ELSE "failed")
    /\ profiles' = profiles \ {prof[c]}
    /\ services' = {s \in services : s[1] # prof[c]}
    /\ UNCHANGED <<issued, hostPort, origin, dockerVars, foreign, argVars, todo,
                   cur, taken>>

-----------------------------------------------------------------------------
\* A database or Docker error, the call's timeout, or the end of the
\* application: the handler returns where it is, and undoes nothing; what it
\* kept in variables is gone.
Abort(c) ==
    /\ Active(c)
    /\ pc' = [pc EXCEPT ![c] = "failed"]
    /\ todo' = [todo EXCEPT ![c] = {}]
    /\ cur' = [cur EXCEPT ![c] = None]
    /\ taken' = [taken EXCEPT ![c] = {}]
    /\ UNCHANGED <<rowVars, dockerVars, foreign, argVars>>

\* Other programs bind and release ports.
ForeignBinds(q) ==
    /\ PortFree(q)
    /\ foreign' = foreign \cup {q}
    /\ UNCHANGED <<rowVars, dockerVars, argVars, pc, todo, cur, taken>>

ForeignReleases(q) ==
    /\ q \in foreign
    /\ foreign' = foreign \ {q}
    /\ UNCHANGED <<rowVars, dockerVars, argVars, pc, todo, cur, taken>>

Call(c) ==
    \/ \E p \in Profiles :
          \/ \E o \in Ops : StartOrStopBegin(c, o, p)
          \/ DeleteBegin(c, p)
          \/ \E e \in Engines : ResetBegin(c, p, e)
          \/ DuplicateBegin(c, p)
    \/ \E engines \in SUBSET Engines : CreateBegin(c, engines)

Step(c) ==
    \/ \E p \in Profiles : InsertProfile(c, p)
    \/ ReadUsedPorts(c)
    \/ \E e \in Engines : InsertService(c, e) \/ PickService(c, e)
    \/ CheckPort(c) \/ CheckOwner(c) \/ EnsureVolume(c)
    \/ InspectContainer(c) \/ CreateContainer(c) \/ StartContainer(c)
    \/ InspectToStop(c) \/ StopContainer(c)
    \/ InspectToRemove(c) \/ RemoveContainer(c) \/ RemoveVolume(c)
    \/ CheckStatus(c) \/ DeleteRows(c)

Terminated ==
    /\ \A c \in Calls : pc[c] # "idle" /\ ~Active(c)
    /\ UNCHANGED vars

Moves ==
    \/ \E c \in Calls : Call(c) \/ Step(c) \/ Abort(c)
    \/ \E q \in ForeignPorts : ForeignBinds(q) \/ ForeignReleases(q)

Next == (Moves /\ UNCHANGED patient) \/ Terminated

Spec == Init /\ [][Next]_vars

-----------------------------------------------------------------------------
(***************************************************************************)
(* Properties.                                                             *)
(***************************************************************************)

\* No container runs whose service row is gone: nothing in the application
\* could stop it or show its connection string any more
\* (deleteProfileGuardError).
NoOrphanedContainer ==
    \A s \in Svc : container[s] = "running" => s \in services

\* It holds as long as the calls on one profile do not overlap, whatever
\* fails halfway; otherwise a StartProfile or ResetServiceVolume under way
\* when DeleteProfile looks at the containers starts one afterwards. (And rows,
\* containers, volumes and calls keep their types.)
PatientDeleteLeavesNothing == TypeOK /\ (patient => NoOrphanedContainer)

\* When StartProfile returns without an error every service of the profile is
\* running, and when StopProfile does none is - if nobody else works on the
\* profile. Profiles that share ports (copies) may be started meanwhile.
StartStopEffective ==
    [][patient => \A c \in Calls : pc[c] # "done" /\ pc'[c] = "done" =>
          \A e \in EnginesOf(prof[c]) :
              LET s == <<prof[c], e>> IN
              /\ op[c] = "start" => container'[s] = "running"
              /\ op[c] = "stop" => container'[s] # "running"]_vars

\* ResetServiceVolume that returns without an error has erased the data it
\* found, whatever else is done to the service at the same time.
ResetErasesData ==
    \A c \in Calls : op[c] = "reset" /\ pc[c] = "done" => c \notin stale

\* CreateProfile never assigns a port that is recorded for any other service,
\* be it created or copied, its original still there or deleted, while no other
\* CreateProfile runs: services have a port in common only where one took it
\* over from the other, or both from a third, by DuplicateProfile ("its services
\* keep the same host ports as their source").
CreatedPortsDistinct ==
    patient => \A s, t \in services :
        hostPort[s] = hostPort[t] => origin[s] = origin[t]
=============================================================================
