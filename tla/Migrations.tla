----------------------------- MODULE Migrations -----------------------------
(***************************************************************************)
(* Schema migrations of a target database: the file pairs in a folder, the *)
(* schema_migrations table, and the calls that work on both -              *)
(* CreateMigrationFile, ApplyMigrations and RollbackMigration.             *)
(*                                                                         *)
(* A migration is the pair <<version, slug>>; a version is the second in   *)
(* which its files were scaffolded. What its SQL does to the schema is     *)
(* abstracted to "its change is in force", and running it may fail.        *)
(***************************************************************************)
EXTENDS Integers, FiniteSets, CallIds

CONSTANTS Slugs,        \* slugified names
          LastSecond,   \* how long the clock runs (bound)
          Distinct,     \* no two pairs come to have the same version
          DDLCommits    \* the engine commits at every DDL statement (MySQL)

Seconds == 1..LastSecond
Pairs == Seconds \X Slugs

ASSUME SecondsAssumption == LastSecond \in Nat \ {0}
ASSUME ModesAssumption ==
    {Distinct, DDLCommits} \subseteq BOOLEAN
ASSUME MigNoneAssumption ==
    None \notin Slugs \cup Seconds \cup Pairs \cup {"create", "apply", "rollback"}

VARIABLES
    now,      \* the current second
    ups,      \* migrations whose .up.sql file exists
    downs,    \* migrations whose .down.sql file exists
    tracked,  \* rows of schema_migrations: version -> slug, or None
    inForce,  \* migrations whose change the schema holds
    history,  \* <<m, n>> for recorded migrations, if m was recorded no later
    task,       \* task[c]: "create", "apply", "rollback" or None
    phase,       \* phase[c]: where the call is
    arg,      \* arg[c]: the migration it is working on, or None
    queue,    \* queue[c]: pending migrations still to be applied
    top,      \* top[c]: the version Rollback has read, or None
    crossed   \* history: an Apply or Rollback was begun during another, or a
              \* pair has arrived that is older than one already there

folderVars == <<ups, downs>>
dbVars == <<tracked, inForce, history>>
callVars == <<task, arg, queue, top, crossed>>
migrationsVars == <<now, folderVars, dbVars, callVars, phase>>

Phases == {"idle", "writeup", "writedown", "discovered", "next", "record",
           "latest", "revert", "forget", "done", "failed"}

MigrationsTypeOK ==
    /\ now \in Seconds
    /\ ups \subseteq Pairs
    /\ downs \subseteq Pairs
    /\ tracked \in [Seconds -> Slugs \cup {None}]
    /\ inForce \subseteq Pairs
    /\ history \subseteq Pairs \X Pairs
    /\ task \in [Calls -> {"create", "apply", "rollback", None}]
    /\ phase \in [Calls -> Phases]
    /\ arg \in [Calls -> Pairs \cup {None}]
    /\ queue \in [Calls -> SUBSET Pairs]
    /\ top \in [Calls -> Seconds \cup {None}]
    /\ crossed \in BOOLEAN

MigrationsInit ==
    /\ now = 1
    /\ ups = {} /\ downs = {}
    /\ tracked = [v \in Seconds |-> None]
    /\ inForce = {} /\ history = {}
    /\ task = [c \in Calls |-> None]
    /\ phase = [c \in Calls |-> "idle"]
    /\ arg = [c \in Calls |-> None]
    /\ queue = [c \in Calls |-> {}]
    /\ top = [c \in Calls |-> None]
    /\ crossed = FALSE

-----------------------------------------------------------------------------
MoveTo(c, from, to) ==
    /\ phase[c] = from
    /\ phase' = [phase EXCEPT ![c] = to]

Active(c) == phase[c] \notin {"idle", "done", "failed"}

OnDatabase(o) == o \in {"apply", "rollback"}

\* One "Create" at a time. The migrations view disables "Apply" and "Rollback"
\* during either, but the user may leave it and come back.
Begin(c, o) ==
    /\ phase[c] = "idle"
    /\ o = "create" => \A d \in Calls : Active(d) => task[d] # "create"
    /\ task' = [task EXCEPT ![c] = o]
    /\ crossed' = \/ crossed
                  \/ OnDatabase(o) /\ \E d \in Calls : Active(d) /\ OnDatabase(task[d])

\* The up file of m appears in the folder.
Arrives(m) ==
    /\ ups' = ups \cup {m}
    /\ crossed' = (crossed \/ \E n \in ups : n[1] >= m[1])

Applied == {v \in Seconds : tracked[v] # None}
Recorded == {m \in Pairs : <<m, m>> \in history}

\* Mutant of FolderComplete: pairs are taken as they are.
FolderCompleteAlways == TRUE

\* DiscoverMigrations: one file without its counterpart fails the whole call.
FolderComplete == ups = downs

\* Some migration, on disk or just being scaffolded, has the version v.
VersionUsed(v) ==
    \/ \E m \in ups : m[1] = v
    \/ \E c \in Calls : task[c] = "create" /\ Active(c) /\ arg[c][1] = v

-----------------------------------------------------------------------------
(***************************************************************************)
(* CreateMigration: the version is the current second; only a file with    *)
(* the same version and the same slug is in the way.                       *)
(***************************************************************************)
Scaffold(c, s) ==
    /\ Begin(c, "create")
    /\ Distinct => ~VersionUsed(now)
    /\ arg' = [arg EXCEPT ![c] = <<now, s>>]
    /\ phase' = [phase EXCEPT ![c] = IF <<now, s>> \in ups THEN "failed"
                               ELSE "writeup"]
    /\ UNCHANGED <<now, folderVars, dbVars, queue, top>>

WriteUp(c) ==
    /\ MoveTo(c, "writeup", "writedown")
    /\ Arrives(arg[c])
    /\ UNCHANGED <<now, downs, dbVars, task, arg, queue, top>>

WriteDown(c) ==
    /\ MoveTo(c, "writedown", "done")
    /\ downs' = downs \cup {arg[c]}
    /\ UNCHANGED <<now, ups, dbVars, callVars>>

-----------------------------------------------------------------------------
(***************************************************************************)
(* Apply: discover, load the applied versions once, then one transaction   *)
(* per pending migration, in ascending order, until one fails.             *)
(***************************************************************************)
DiscoverToApply(c) ==
    /\ Begin(c, "apply")
    /\ FolderComplete
    /\ queue' = [queue EXCEPT ![c] = ups]
    /\ phase' = [phase EXCEPT ![c] = "discovered"]
    /\ UNCHANGED <<now, folderVars, dbVars, arg, top>>

\* LoadAppliedVersions and PendingMigrations.
LoadApplied(c) ==
    LET pending == {m \in queue[c] : m[1] \notin Applied} IN
    /\ MoveTo(c, "discovered", IF pending = {} THEN "done" ELSE "next")
    /\ queue' = [queue EXCEPT ![c] = pending]
    /\ UNCHANGED <<now, folderVars, dbVars, task, arg, top, crossed>>

\* The lowest version comes next; between equal versions the (unstable) sort
\* leaves the order open.
IsNext(m, pending) ==
    m \in pending /\ \A n \in pending : m[1] <= n[1]

\* The up file runs in a transaction of its own; its change is in force at
\* once where DDL commits implicitly, and with the commit elsewhere.
RunUp(c) ==
    /\ MoveTo(c, "next", "record")
    /\ \E m \in queue[c] :
          /\ IsNext(m, queue[c])
          /\ arg' = [arg EXCEPT ![c] = m]
          /\ inForce' = IF DDLCommits THEN inForce \cup {m} ELSE inForce
    /\ UNCHANGED <<now, folderVars, tracked, history, task, queue, top, crossed>>

\* The tracking row, whose version is the primary key, and the commit. A
\* duplicate rolls the transaction back and ends the call.
RecordAndCommit(c) ==
    LET m == arg[c] IN
    /\ phase[c] = "record"
    /\ tracked[m[1]] = None
    /\ tracked' = [tracked EXCEPT ![m[1]] = m[2]]
    /\ inForce' = inForce \cup {m}
    /\ history' = history \cup {<<n, m>> : n \in Recorded \cup {m}}
    /\ queue' = [queue EXCEPT ![c] = @ \ {m}]
    /\ phase' = [phase EXCEPT ![c] = IF queue[c] = {m} THEN "done" ELSE "next"]
    /\ UNCHANGED <<now, folderVars, task, arg, top, crossed>>

\* Mutant of ApplyFails: the run goes on with the next migration.
ApplyFailsGoesOn(c) ==
    /\ phase[c] = "record"
    /\ queue' = [queue EXCEPT ![c] = @ \ {arg[c]}]
    /\ phase' = [phase EXCEPT ![c] = IF queue[c] = {arg[c]} THEN "done" ELSE "next"]
    /\ UNCHANGED <<now, folderVars, dbVars, task, arg, top, crossed>>

\* A migration's SQL or its row fails (a duplicate version always does): the
\* transaction is rolled back and nothing after it is attempted.
ApplyFails(c) ==
    /\ phase[c] \in {"next", "record"}
    /\ phase' = [phase EXCEPT ![c] = "done"]
    /\ queue' = [queue EXCEPT ![c] = {}]
    /\ UNCHANGED <<now, folderVars, dbVars, task, arg, top, crossed>>

-----------------------------------------------------------------------------
(***************************************************************************)
(* Rollback: read the highest applied version, find its files, run the     *)
(* down file and delete the row in one transaction.                        *)
(***************************************************************************)

\* Mutant of IsLatest: ORDER BY version without DESC.
IsLatestAscending(v) == v \in Applied /\ \A w \in Applied : v <= w

\* selectMostRecentAppliedSQL: ORDER BY version DESC LIMIT 1.
IsLatest(v) == v \in Applied /\ \A w \in Applied : w <= v

ReadLatest(c) ==
    /\ Begin(c, "rollback")
    /\ \/ /\ Applied = {}
          /\ phase' = [phase EXCEPT ![c] = "done"]
          /\ UNCHANGED top
       \/ \E v \in Applied :
             /\ IsLatest(v)
             /\ top' = [top EXCEPT ![c] = v]
             /\ phase' = [phase EXCEPT ![c] = "latest"]
    /\ UNCHANGED <<now, folderVars, dbVars, arg, queue>>

\* The first discovered migration with that version, whatever its slug; the
\* call fails (Abort) if there is none.
FindTarget(c) ==
    /\ MoveTo(c, "latest", "revert")
    /\ FolderComplete
    /\ \E m \in ups :
          /\ m[1] = top[c]
          /\ arg' = [arg EXCEPT ![c] = m]
    /\ UNCHANGED <<now, folderVars, dbVars, task, queue, top, crossed>>

RunDown(c) ==
    /\ MoveTo(c, "revert", "forget")
    /\ inForce' = IF DDLCommits THEN inForce \ {arg[c]} ELSE inForce
    /\ UNCHANGED <<now, folderVars, tracked, history, callVars>>

\* Mutant of ForgetAndCommit: the tracking row stays.
ForgetAndCommitKeeps(c) ==
    /\ MoveTo(c, "forget", "done")
    /\ inForce' = inForce \ {arg[c]}
    /\ history' = {o \in history : arg[c] \notin {o[1], o[2]}}
    /\ UNCHANGED <<now, folderVars, tracked, callVars>>

\* Deleting no row at all is no error either.
ForgetAndCommit(c) ==
    /\ MoveTo(c, "forget", "done")
    /\ inForce' = inForce \ {arg[c]}
    /\ tracked' = [tracked EXCEPT ![arg[c][1]] = None]
    /\ history' = {o \in history : arg[c] \notin {o[1], o[2]}}
    /\ UNCHANGED <<now, folderVars, callVars>>

-----------------------------------------------------------------------------
\* An error, the operation timeout or the end of the application: a file that
\* was written stays, an open transaction is rolled back by the database.
Abort(c) ==
    /\ Active(c)
    /\ phase' = [phase EXCEPT ![c] = "failed"]
    /\ UNCHANGED <<now, folderVars, dbVars, callVars>>

\* A second passes.
Tick ==
    /\ now < LastSecond
    /\ now' = now + 1
    /\ UNCHANGED <<folderVars, dbVars, callVars, phase>>

\* A pair somebody else has written appears in the folder.
Pull(m) ==
    /\ m[1] <= now
    /\ Distinct => ~VersionUsed(m[1])
    /\ Arrives(m)
    /\ downs' = downs \cup {m}
    /\ UNCHANGED <<now, dbVars, task, arg, queue, top, phase>>

\* The user completes or removes a half-written pair.
Repair(m) ==
    /\ m \in ups \ downs
    /\ \A c \in Calls : Active(c) => arg[c] # m
    /\ ups' = ups \ {m}
    /\ UNCHANGED <<now, downs, dbVars, callVars, phase>>

Advance(c) ==
    \/ WriteUp(c) \/ WriteDown(c)
    \/ LoadApplied(c) \/ RunUp(c) \/ RecordAndCommit(c) \/ ApplyFails(c)
    \/ FindTarget(c) \/ RunDown(c) \/ ForgetAndCommit(c)

AllDone ==
    /\ now = LastSecond
    /\ \A c \in Calls : ~Active(c)
    /\ UNCHANGED migrationsVars

MigrationsNext ==
    \/ \E c \in Calls :
          \/ \E s \in Slugs : Scaffold(c, s)
          \/ DiscoverToApply(c) \/ ReadLatest(c)
          \/ Advance(c) \/ Abort(c)
    \/ \E m \in Pairs : Pull(m) \/ Repair(m)
    \/ Tick
    \/ AllDone

MigrationsSpec == MigrationsInit /\ [][MigrationsNext]_migrationsVars

-----------------------------------------------------------------------------
(***************************************************************************)
(* Properties.                                                             *)
(***************************************************************************)

\* A migration's change is in force exactly if its row is in the tracking
\* table (Apply: "can never end up with its schema change applied but no
\* tracking row, or a tracking row but no schema change"). It holds on an
\* engine whose DDL is transactional, for any number of overlapping calls.
TrackedIffInForce ==
    \A m \in Pairs : m \in inForce <=> tracked[m[1]] = m[2]

\* The same once every call has returned: what the comment of Apply promises
\* on every engine. Where DDL commits implicitly, a failure between the up
\* file and the tracking row leaves the change without its row.
NeverEndsHalfApplied ==
    (\A c \in Calls : ~Active(c)) => TrackedIffInForce

\* Applied migrations are a prefix of the folder: no version is applied while
\* a lower one is pending - failed applies, rollbacks and files that appear
\* in the middle of a run included - as long as versions only grow and one
\* call at a time works on the database.
AppliedIsPrefix ==
    ~crossed => \A m, n \in ups \cap downs :
        m[1] < n[1] /\ n[1] \in Applied => m[1] \in Applied

\* A rollback takes back the migration that was applied last, and never one
\* that is not in force any more, under the same conditions.
RollbackRevertsLast ==
    [][~crossed => \A c \in Calls : phase[c] = "forget" /\ phase'[c] = "done" =>
          arg[c] \in Recorded /\ \A m \in Recorded : <<m, arg[c]>> \in history]_migrationsVars

\* Apply and Rollback never run one half of a pair (DiscoverMigrations: "a
\* later Apply/Rollback against a half-formed migration should never be
\* attempted"), although CreateMigration writes the two files one by one.  The
\* state keeps its types.
NothingHalfFormed ==
    /\ MigrationsTypeOK
    /\ \A c \in Calls :
          phase[c] \in {"record", "revert", "forget"} =>
              arg[c] \in ups /\ arg[c] \in downs
=============================================================================
