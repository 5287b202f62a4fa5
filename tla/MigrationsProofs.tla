-------------------------- MODULE MigrationsProofs --------------------------
(***************************************************************************)
(* Migrations, for any number of calls, seconds and slugs: no half of a    *)
(* pair is ever run; where DDL is transactional a change is in force       *)
(* exactly if it is tracked; and while one call at a time works on the     *)
(* database and versions grow, the applied ones are a prefix and a         *)
(* rollback takes back the last.                                           *)
(***************************************************************************)
EXTENDS Migrations, TLAPS

-----------------------------------------------------------------------------
(***************************************************************************)
(* Where a call of each kind can be, and what it works on.  A file is      *)
(* taken away only while its counterpart is not there, so a pair that was  *)
(* complete once stays.                                                    *)
(***************************************************************************)
Placed(c) ==
    \/ task[c] = None /\ phase[c] = "idle"
    \/ task[c] # None /\ phase[c] \in {"done", "failed"}
    \/ task[c] = "create" /\ phase[c] \in {"writeup", "writedown"}
    \/ task[c] = "apply" /\ phase[c] \in {"discovered", "next", "record"}
    \/ task[c] = "rollback" /\ phase[c] \in {"latest", "revert", "forget"}

Holds(c) ==
    /\ phase[c] = "writeup" => arg[c] \in Pairs
    /\ phase[c] = "writedown" => arg[c] \in ups
    /\ phase[c] \in {"discovered", "next", "record"} => queue[c] \subseteq downs
    /\ phase[c] = "record" => arg[c] \in queue[c]
    /\ phase[c] = "latest" => top[c] \in Seconds
    /\ phase[c] \in {"revert", "forget"} => arg[c] \in downs

FolderInv ==
    /\ MigrationsTypeOK
    /\ downs \subseteq ups
    /\ \A v \in Applied : <<v, tracked[v]>> \in downs
    /\ \A c \in Calls : Placed(c) /\ Holds(c)

-----------------------------------------------------------------------------
(* With distinct versions, a version tells which migration is meant. *)
VersionTells == \A m, n \in ups : m[1] = n[1] => m = n

DistinctInv ==
    /\ VersionTells
    /\ \A c, d \in Calls :
          task[c] = "create" /\ Active(c) /\ task[d] = "create" /\ Active(d) => c = d
    /\ \A c \in Calls : phase[c] = "writeup" => \A m \in ups : m[1] # arg[c][1]

-----------------------------------------------------------------------------
(***************************************************************************)
(* While nothing crosses: what is not applied and not in the queue of the  *)
(* apply that runs is newer than all that is in it, and the version a      *)
(* rollback has read stays the latest.                                     *)
(***************************************************************************)
OneDatabaseCall ==
    \A c, d \in Calls :
        Active(c) /\ OnDatabase(task[c]) /\ Active(d) /\ OnDatabase(task[d]) => c = d

Prefix ==
    \A m, n \in ups : m[1] < n[1] /\ n[1] \in Applied => m[1] \in Applied

QueueInv ==
    \A c \in Calls :
        /\ phase[c] \in {"discovered", "next", "record"} =>
              \A m \in ups : \/ m[1] \in Applied
                             \/ m \in queue[c]
                             \/ \A n \in queue[c] : n[1] < m[1]
        /\ phase[c] = "record" => IsNext(arg[c], queue[c])
        /\ phase[c] \in {"latest", "revert", "forget"} => IsLatest(top[c])
        /\ phase[c] \in {"revert", "forget"} => arg[c][1] = top[c]

\* The migrations were recorded in the order of their versions.
Tracked == {m \in Pairs : tracked[m[1]] = m[2]}
Ascending == history = {o \in Tracked \X Tracked : o[1][1] <= o[2][1]}

Calm == VersionTells /\ OneDatabaseCall /\ Prefix /\ QueueInv /\ Ascending

CalmInv == ~crossed => Calm

-----------------------------------------------------------------------------
(* Types and halves. *)

LEMMA FolderInit == MigrationsInit => FolderInv
<1> SUFFICES ASSUME MigrationsInit
             PROVE  FolderInv
  OBVIOUS
<1>1. MigrationsTypeOK
  <2>1. now \in Seconds
    BY SecondsAssumption DEF MigrationsInit, Seconds
  <2> QED
    BY <2>1 DEF MigrationsInit, MigrationsTypeOK, Phases
<1>2. downs \subseteq ups /\ \A v \in Applied : <<v, tracked[v]>> \in downs
  BY DEF MigrationsInit, Applied
<1>3. \A c \in Calls : Placed(c) /\ Holds(c)
  BY DEF MigrationsInit, Placed, Holds
<1> QED
  BY <1>1, <1>2, <1>3 DEF FolderInv

\* The other calls see files come; those they work on do not go.
LEMMA OthersHold ==
  ASSUME FolderInv, NEW c \in Calls, downs \subseteq downs',
         \A d \in Calls \ {c} :
            /\ UNCHANGED <<task[d], phase[d], arg[d], queue[d], top[d]>>
            /\ phase[d] = "writedown" => arg[d] \in ups',
         Placed(c)', Holds(c)'
  PROVE  \A d \in Calls : Placed(d)' /\ Holds(d)'
<1> SUFFICES ASSUME NEW d \in Calls \ {c}
             PROVE  Placed(d)' /\ Holds(d)'
  OBVIOUS
<1>1. Placed(d) /\ Holds(d)
  BY DEF FolderInv
<1> QED
  BY <1>1 DEF Placed, Holds

LEMMA CreateFolder ==
  ASSUME FolderInv, NEW c \in Calls,
         (\E s \in Slugs : Scaffold(c, s)) \/ WriteUp(c) \/ WriteDown(c)
  PROVE  FolderInv'
<1> USE MigNoneAssumption DEF FolderInv, MigrationsTypeOK, MoveTo, folderVars, dbVars, callVars, Phases
<1>1. ASSUME NEW s \in Slugs, Scaffold(c, s)
      PROVE  FolderInv'
  <2>1. MigrationsTypeOK' /\ UNCHANGED <<ups, downs, tracked>>
    BY <1>1 DEF Scaffold, Begin, Pairs
  <2>2. Placed(c)' /\ Holds(c)'
    BY <1>1 DEF Scaffold, Begin, Placed, Holds, Pairs
  <2>3. \A d \in Calls : Placed(d)' /\ Holds(d)'
    BY <1>1, <2>1, <2>2, OthersHold DEF Scaffold, Begin, Holds
  <2> QED
    BY <2>1, <2>3 DEF Applied
<1>2. CASE WriteUp(c)
  <2>1. arg[c] \in Pairs /\ Placed(c)
    BY <1>2 DEF WriteUp, Holds
  <2>2. MigrationsTypeOK' /\ UNCHANGED <<downs, tracked>> /\ ups \subseteq ups'
    BY <1>2, <2>1 DEF WriteUp, Arrives
  <2>3. Placed(c)' /\ Holds(c)'
    BY <1>2, <2>1 DEF WriteUp, Arrives, Placed, Holds
  <2>4. \A d \in Calls : Placed(d)' /\ Holds(d)'
    BY <1>2, <2>2, <2>3, OthersHold DEF WriteUp, Holds
  <2> QED
    BY <2>2, <2>4 DEF Applied
<1>3. CASE WriteDown(c)
  <2>1. arg[c] \in ups /\ Placed(c)
    BY <1>3 DEF WriteDown, Holds
  <2>2. MigrationsTypeOK' /\ UNCHANGED <<ups, tracked>> /\ downs \subseteq downs' /\ downs' \subseteq ups'
    BY <1>3, <2>1 DEF WriteDown
  <2>3. Placed(c)' /\ Holds(c)'
    BY <1>3, <2>1 DEF WriteDown, Placed, Holds
  <2>4. \A d \in Calls : Placed(d)' /\ Holds(d)'
    BY <1>3, <2>2, <2>3, OthersHold DEF WriteDown, Holds
  <2> QED
    BY <2>2, <2>4 DEF Applied
<1> QED
  BY <1>1, <1>2, <1>3

LEMMA ApplyFolder ==
  ASSUME FolderInv, NEW c \in Calls,
         \/ DiscoverToApply(c) \/ LoadApplied(c) \/ RunUp(c)
         \/ RecordAndCommit(c) \/ ApplyFails(c)
  PROVE  FolderInv'
<1> USE MigNoneAssumption DEF FolderInv, MigrationsTypeOK, MoveTo, folderVars, dbVars, callVars, Phases
<1>1. Placed(c) /\ Holds(c)
  OBVIOUS
<1>2. CASE DiscoverToApply(c)
  <2>1. MigrationsTypeOK' /\ UNCHANGED <<ups, downs, tracked>>
    BY <1>2 DEF DiscoverToApply, Begin
  <2>2. Placed(c)' /\ Holds(c)'
    BY <1>2 DEF DiscoverToApply, Begin, FolderComplete, Placed, Holds
  <2>3. \A d \in Calls : Placed(d)' /\ Holds(d)'
    BY <1>2, <2>1, <2>2, OthersHold DEF DiscoverToApply, Begin, Holds
  <2> QED
    BY <2>1, <2>3 DEF Applied
<1>3. CASE LoadApplied(c)
  <2>1. MigrationsTypeOK' /\ UNCHANGED <<ups, downs, tracked>>
    BY <1>3 DEF LoadApplied
  <2>2. Placed(c)' /\ Holds(c)'
    BY <1>1, <1>3 DEF LoadApplied, Placed, Holds
  <2>3. \A d \in Calls : Placed(d)' /\ Holds(d)'
    BY <1>3, <2>1, <2>2, OthersHold DEF LoadApplied, Holds
  <2> QED
    BY <2>1, <2>3 DEF Applied
<1>4. CASE RunUp(c)
  <2>1. MigrationsTypeOK' /\ UNCHANGED <<ups, downs, tracked>>
    BY <1>4 DEF RunUp
  <2>2. Placed(c)' /\ Holds(c)'
    BY <1>1, <1>4 DEF RunUp, Placed, Holds
  <2>3. \A d \in Calls : Placed(d)' /\ Holds(d)'
    BY <1>4, <2>1, <2>2, OthersHold DEF RunUp, Holds
  <2> QED
    BY <2>1, <2>3 DEF Applied
<1>5. CASE RecordAndCommit(c)
  <2>1. arg[c] \in queue[c] /\ arg[c] \in downs /\ arg[c] \in Pairs
    BY <1>1, <1>5 DEF RecordAndCommit, Holds
  <2>2. arg[c][1] \in Seconds /\ arg[c][2] \in Slugs /\ arg[c] = <<arg[c][1], arg[c][2]>>
    BY <2>1 DEF Pairs
  <2>3. /\ history' = history \cup {<<n, arg[c]>> : n \in Recorded \cup {arg[c]}}
        /\ Recorded \subseteq Pairs
    BY <1>5 DEF RecordAndCommit, Recorded
  <2>4. history' \subseteq Pairs \X Pairs
    BY <2>1, <2>3
  <2>5. MigrationsTypeOK' /\ UNCHANGED <<ups, downs>>
    BY <1>5, <2>1, <2>2, <2>4 DEF RecordAndCommit
  <2>6. \A v \in Applied' : <<v, tracked'[v]>> \in downs
    BY <1>5, <2>1, <2>2 DEF RecordAndCommit, Applied
  <2>7. Placed(c)' /\ Holds(c)'
    BY <1>1, <1>5 DEF RecordAndCommit, Placed, Holds
  <2>8. \A d \in Calls : Placed(d)' /\ Holds(d)'
    BY <1>5, <2>5, <2>7, OthersHold DEF RecordAndCommit, Holds
  <2> QED
    BY <2>5, <2>6, <2>8
<1>6. CASE ApplyFails(c)
  <2>1. MigrationsTypeOK' /\ UNCHANGED <<ups, downs, tracked>>
    BY <1>6 DEF ApplyFails
  <2>2. Placed(c)' /\ Holds(c)'
    BY <1>1, <1>6 DEF ApplyFails, Placed, Holds
  <2>3. \A d \in Calls : Placed(d)' /\ Holds(d)'
    BY <1>6, <2>1, <2>2, OthersHold DEF ApplyFails, Holds
  <2> QED
    BY <2>1, <2>3 DEF Applied
<1> QED
  BY <1>2, <1>3, <1>4, <1>5, <1>6

LEMMA RollbackFolder ==
  ASSUME FolderInv, NEW c \in Calls,
         \/ ReadLatest(c) \/ FindTarget(c) \/ RunDown(c) \/ ForgetAndCommit(c) \/ Abort(c)
  PROVE  FolderInv'
<1> USE MigNoneAssumption DEF FolderInv, MigrationsTypeOK, MoveTo, folderVars, dbVars, callVars, Phases
<1>1. Placed(c) /\ Holds(c)
  OBVIOUS
<1>2. CASE ReadLatest(c)
  <2>1. MigrationsTypeOK' /\ UNCHANGED <<ups, downs, tracked>>
    BY <1>2 DEF ReadLatest, Begin, Applied
  <2>2. Placed(c)' /\ Holds(c)'
    BY <1>2 DEF ReadLatest, Begin, Applied, Placed, Holds
  <2>3. \A d \in Calls : Placed(d)' /\ Holds(d)'
    BY <1>2, <2>1, <2>2, OthersHold DEF ReadLatest, Begin, Holds
  <2> QED
    BY <2>1, <2>3 DEF Applied
<1>3. CASE FindTarget(c)
  <2>1. MigrationsTypeOK' /\ UNCHANGED <<ups, downs, tracked>>
    BY <1>3 DEF FindTarget
  <2>2. Placed(c)' /\ Holds(c)'
    BY <1>1, <1>3 DEF FindTarget, FolderComplete, Placed, Holds
  <2>3. \A d \in Calls : Placed(d)' /\ Holds(d)'
    BY <1>3, <2>1, <2>2, OthersHold DEF FindTarget, Holds
  <2> QED
    BY <2>1, <2>3 DEF Applied
<1>4. CASE RunDown(c)
  <2>1. MigrationsTypeOK' /\ UNCHANGED <<ups, downs, tracked>>
    BY <1>4 DEF RunDown
  <2>2. Placed(c)' /\ Holds(c)'
    BY <1>1, <1>4 DEF RunDown, Placed, Holds
  <2>3. \A d \in Calls : Placed(d)' /\ Holds(d)'
    BY <1>4, <2>1, <2>2, OthersHold DEF RunDown, Holds
  <2> QED
    BY <2>1, <2>3 DEF Applied
<1>5. CASE ForgetAndCommit(c)
  <2>1. MigrationsTypeOK' /\ UNCHANGED <<ups, downs>>
    BY <1>5 DEF ForgetAndCommit
  <2>2. \A v \in Applied' : v \in Applied /\ tracked'[v] = tracked[v]
    BY <1>5 DEF ForgetAndCommit, Applied
  <2>3. Placed(c)' /\ Holds(c)'
    BY <1>1, <1>5 DEF ForgetAndCommit, Placed, Holds
  <2>4. \A d \in Calls : Placed(d)' /\ Holds(d)'
    BY <1>5, <2>1, <2>3, OthersHold DEF ForgetAndCommit, Holds
  <2> QED
    BY <2>1, <2>2, <2>4
<1>6. CASE Abort(c)
  <2>1. MigrationsTypeOK' /\ UNCHANGED <<ups, downs, tracked>>
    BY <1>6 DEF Abort
  <2>2. Placed(c)' /\ Holds(c)'
    BY <1>1, <1>6 DEF Abort, Active, Placed, Holds
  <2>3. \A d \in Calls : Placed(d)' /\ Holds(d)'
    BY <1>6, <2>1, <2>2, OthersHold DEF Abort, Holds
  <2> QED
    BY <2>1, <2>3 DEF Applied
<1> QED
  BY <1>2, <1>3, <1>4, <1>5, <1>6

LEMMA FolderStep == FolderInv /\ [MigrationsNext]_migrationsVars => FolderInv'
<1> SUFFICES ASSUME FolderInv, [MigrationsNext]_migrationsVars
             PROVE  FolderInv'
  OBVIOUS
<1> USE MigNoneAssumption DEF folderVars, dbVars, callVars
<1>1. ASSUME UNCHANGED <<dbVars, task, arg, queue, top, phase>>, crossed' \in BOOLEAN,
             now' \in Seconds, ups' \subseteq Pairs,
             downs \subseteq downs', downs' \subseteq ups',
             \A c \in Calls : phase[c] = "writedown" => arg[c] \in ups'
      PROVE  FolderInv'
  BY <1>1 DEF FolderInv, MigrationsTypeOK, Applied, Placed, Holds
<1>2. CASE UNCHANGED migrationsVars
  BY <1>1, <1>2 DEF migrationsVars, FolderInv, MigrationsTypeOK, Holds
<1>3. CASE Tick
  <2>1. now' \in Seconds
    BY <1>3, SecondsAssumption DEF Tick, FolderInv, MigrationsTypeOK, Seconds
  <2> QED
    BY <1>1, <1>3, <2>1 DEF Tick, FolderInv, MigrationsTypeOK, Holds
<1>4. ASSUME NEW m \in Pairs, Pull(m)
      PROVE  FolderInv'
  BY <1>1, <1>4 DEF Pull, Arrives, FolderInv, MigrationsTypeOK, Holds
<1>5. ASSUME NEW m \in Pairs, Repair(m)
      PROVE  FolderInv'
  <2>1. \A c \in Calls : phase[c] = "writedown" => arg[c] # m
    BY <1>5 DEF Repair, Active
  <2> QED
    BY <1>1, <1>5, <2>1 DEF Repair, FolderInv, MigrationsTypeOK, Holds
<1> QED
  BY <1>2, <1>3, <1>4, <1>5, CreateFolder, ApplyFolder, RollbackFolder
     DEF MigrationsNext, AllDone, Advance

\* Apply and Rollback never run one half of a pair, whatever files come and go
\* meanwhile, and the state keeps its types: a folder that is not complete is
\* refused, and no file of a complete pair is taken away.
THEOREM NoHalfIsRun == MigrationsSpec => []NothingHalfFormed
<1>1. FolderInv => NothingHalfFormed
  BY DEF FolderInv, Holds, NothingHalfFormed
<1> QED
  BY <1>1, FolderInit, FolderStep, PTL DEF MigrationsSpec

-----------------------------------------------------------------------------
(***************************************************************************)
(* Distinct versions.                                                      *)
(***************************************************************************)
LEMMA DistinctStep ==
  ASSUME Distinct, FolderInv, DistinctInv, [MigrationsNext]_migrationsVars
  PROVE  DistinctInv'
<1> USE MigNoneAssumption DEF FolderInv, MigrationsTypeOK, MoveTo, folderVars, dbVars, callVars
<1>1. ASSUME ups' \subseteq ups,
             \A c \in Calls :
                /\ task'[c] = "create" /\ Active(c)' => task[c] = "create" /\ Active(c)
                /\ phase'[c] = "writeup" => phase[c] = "writeup" /\ arg'[c] = arg[c]
      PROVE  DistinctInv'
  BY <1>1 DEF DistinctInv, VersionTells
<1>2. CASE UNCHANGED migrationsVars \/ Tick \/ \E m \in Pairs : Repair(m)
  BY <1>1, <1>2 DEF migrationsVars, Tick, Repair, Active
<1>3. ASSUME NEW m \in Pairs, Pull(m)
      PROVE  DistinctInv'
  <2>1. \A n \in ups : n[1] # m[1]
    BY <1>3 DEF Pull, VersionUsed
  <2>2. \A c \in Calls : phase[c] = "writeup" => arg[c][1] # m[1]
    BY <1>3 DEF Pull, VersionUsed, Placed, Active
  <2> QED
    BY <1>3, <2>1, <2>2 DEF Pull, Arrives, DistinctInv, VersionTells, Active
<1>4. ASSUME NEW c \in Calls, NEW s \in Slugs, Scaffold(c, s)
      PROVE  DistinctInv'
  <2>1. arg' = [arg EXCEPT ![c] = <<now, s>>] /\ \A m \in ups : m[1] # now
    BY <1>4 DEF Scaffold, VersionUsed
  <2>2. /\ \A d \in Calls \ {c} : task'[d] = task[d] /\ phase'[d] = phase[d]
        /\ \A d \in Calls : Active(d) => task[d] # "create"
        /\ ups' = ups
    BY <1>4 DEF Scaffold, Begin
  <2> QED
    BY <2>1, <2>2 DEF DistinctInv, VersionTells, Active
<1>5. ASSUME NEW c \in Calls, WriteUp(c)
      PROVE  DistinctInv'
  <2>1. task[c] = "create" /\ Active(c) /\ \A m \in ups : m[1] # arg[c][1]
    BY <1>5 DEF WriteUp, Placed, Active, DistinctInv
  <2>2. \A d \in Calls : phase[d] = "writeup" => d = c
    BY <2>1 DEF DistinctInv, Placed, Active
  <2> QED
    BY <1>5, <2>1, <2>2 DEF WriteUp, Arrives, DistinctInv, VersionTells, Active
<1>6. ASSUME NEW c \in Calls, DiscoverToApply(c) \/ ReadLatest(c)
      PROVE  DistinctInv'
  BY <1>1, <1>6 DEF DiscoverToApply, ReadLatest, Begin, Active
<1>7. ASSUME NEW c \in Calls,
             \/ WriteDown(c) \/ LoadApplied(c) \/ RunUp(c) \/ RecordAndCommit(c)
             \/ ApplyFails(c) \/ FindTarget(c) \/ RunDown(c) \/ ForgetAndCommit(c) \/ Abort(c)
      PROVE  DistinctInv'
  <2>1. UNCHANGED <<task, ups>> /\ Active(c)
    BY <1>7 DEF WriteDown, LoadApplied, RunUp, RecordAndCommit, ApplyFails, FindTarget,
       RunDown, ForgetAndCommit, Abort, Active
  <2>2. phase'[c] # "writeup"
    BY <1>7 DEF WriteDown, LoadApplied, RunUp, RecordAndCommit, ApplyFails, FindTarget,
       RunDown, ForgetAndCommit, Abort
  <2>3. \A d \in Calls \ {c} : phase'[d] = phase[d] /\ arg'[d] = arg[d]
    BY <1>7 DEF WriteDown, LoadApplied, RunUp, RecordAndCommit, ApplyFails, FindTarget,
       RunDown, ForgetAndCommit, Abort
  <2> QED
    BY <1>1, <2>1, <2>2, <2>3 DEF Active
<1> QED
  BY <1>2, <1>3, <1>4, <1>5, <1>6, <1>7 DEF MigrationsNext, AllDone, Advance

LEMMA TrackedStep ==
  ASSUME ~DDLCommits, FolderInv, DistinctInv, TrackedIffInForce, [MigrationsNext]_migrationsVars
  PROVE  TrackedIffInForce'
<1> USE MigNoneAssumption DEF FolderInv, MigrationsTypeOK, MoveTo, dbVars
<1>1. ASSUME UNCHANGED <<tracked, inForce>>
      PROVE  TrackedIffInForce'
  BY <1>1 DEF TrackedIffInForce
<1>2. ASSUME NEW c \in Calls, RecordAndCommit(c)
      PROVE  TrackedIffInForce'
  <2>1. arg[c] \in Pairs
    BY <1>2 DEF RecordAndCommit, Holds
  <2>2. \A m \in Pairs : m[1] \in Seconds /\ m[2] \in Slugs /\ m = <<m[1], m[2]>>
    BY DEF Pairs
  <2> QED
    BY <1>2, <2>1, <2>2 DEF RecordAndCommit, TrackedIffInForce
<1>3. ASSUME NEW c \in Calls, ForgetAndCommit(c)
      PROVE  TrackedIffInForce'
  <2>1. arg[c] \in ups /\ arg[c] \in Pairs
    BY <1>3 DEF ForgetAndCommit, Holds
  <2>2. \A m \in Pairs : m[1] \in Seconds /\ m[2] \in Slugs /\ m = <<m[1], m[2]>>
    BY DEF Pairs
  <2>3. \A m \in inForce : m \in ups
    BY <2>2 DEF TrackedIffInForce, Applied
  <2>4. \A m \in inForce : m[1] = arg[c][1] => m = arg[c]
    BY <2>1, <2>3 DEF DistinctInv, VersionTells
  <2> QED
    BY <1>3, <2>1, <2>2, <2>4 DEF ForgetAndCommit, TrackedIffInForce
<1>4. CASE UNCHANGED migrationsVars \/ Tick \/ \E m \in Pairs : Pull(m) \/ Repair(m)
  BY <1>1, <1>4 DEF migrationsVars, Tick, Pull, Repair
<1>5. ASSUME NEW c \in Calls,
             \/ \E s \in Slugs : Scaffold(c, s)
             \/ WriteUp(c) \/ WriteDown(c) \/ DiscoverToApply(c) \/ ReadLatest(c)
             \/ LoadApplied(c) \/ RunUp(c) \/ ApplyFails(c) \/ FindTarget(c) \/ RunDown(c)
             \/ Abort(c)
      PROVE  TrackedIffInForce'
  BY <1>1, <1>5 DEF Scaffold, WriteUp, WriteDown, DiscoverToApply, ReadLatest, LoadApplied,
     RunUp, ApplyFails, FindTarget, RunDown, Abort
<1> QED
  BY <1>2, <1>3, <1>4, <1>5 DEF MigrationsNext, AllDone, Advance

\* With distinct versions, and on an engine whose DDL is transactional, a
\* change is in force exactly if it is tracked: at any moment, and however many
\* applies and rollbacks overlap, fail or are cut off.
THEOREM TrackedExactly == Distinct /\ ~DDLCommits => (MigrationsSpec => []TrackedIffInForce)
<1> SUFFICES ASSUME Distinct, ~DDLCommits
             PROVE  MigrationsSpec => []TrackedIffInForce
  OBVIOUS
<1>1. MigrationsInit => DistinctInv
  BY DEF MigrationsInit, DistinctInv, VersionTells, Active
<1>2. MigrationsInit => TrackedIffInForce
  BY MigNoneAssumption DEF MigrationsInit, TrackedIffInForce, Pairs
<1>3. FolderInv /\ DistinctInv /\ [MigrationsNext]_migrationsVars => DistinctInv'
  BY DistinctStep
<1>4. FolderInv /\ DistinctInv /\ TrackedIffInForce /\ [MigrationsNext]_migrationsVars => TrackedIffInForce'
  BY TrackedStep
<1> QED
  BY <1>1, <1>2, <1>3, <1>4, FolderInit, FolderStep, PTL DEF MigrationsSpec

-----------------------------------------------------------------------------
(***************************************************************************)
(* One call at a time, and growing versions.                               *)
(***************************************************************************)
DatabasePCs == {"discovered", "next", "record", "latest", "revert", "forget"}

\* The calls on the database are those that are in the middle of one.
LEMMA OnDatabasePlaces ==
  ASSUME FolderInv, NEW c \in Calls
  PROVE  Active(c) /\ OnDatabase(task[c]) <=> phase[c] \in DatabasePCs
  BY MigNoneAssumption DEF FolderInv, Placed, Active, OnDatabase, DatabasePCs

\* Nothing that the calls on the database know is changed.
LEMMA CalmKept ==
  ASSUME FolderInv, FolderInv', Calm, ups' \subseteq ups, UNCHANGED <<tracked, history>>,
         \A c \in Calls : \/ phase'[c] \notin DatabasePCs
                          \/ UNCHANGED <<phase[c], arg[c], queue[c], top[c]>>
  PROVE  Calm'
<1>1. OneDatabaseCall'
  BY OnDatabasePlaces DEF Calm, OneDatabaseCall, FolderInv, Placed, Active, OnDatabase, DatabasePCs
<1>2. VersionTells' /\ Prefix' /\ Ascending'
  BY DEF Calm, VersionTells, Prefix, Ascending, Applied, Tracked
<1>3. QueueInv'
  BY DEF Calm, QueueInv, DatabasePCs, Applied, IsNext, IsLatest
<1> QED
  BY <1>1, <1>2, <1>3 DEF Calm

\* A file that arrives is newer than all that are there, and so than all that
\* are applied or queued.
LEMMA ArrivesCalm ==
  ASSUME FolderInv, FolderInv', Calm, NEW m \in Pairs, Arrives(m), ~crossed',
         UNCHANGED <<tracked, history, arg, queue, top>>,
         \A c \in Calls : phase'[c] \notin DatabasePCs \/ phase'[c] = phase[c]
  PROVE  Calm'
<1>2. \A n \in ups \cup {m} : n[1] \in Int
  BY DEF FolderInv, MigrationsTypeOK, Pairs, Seconds
<1>1. ups' = ups \cup {m} /\ \A n \in ups : n[1] < m[1]
  <2>1. ups' = ups \cup {m} /\ \A n \in ups : ~(n[1] >= m[1])
    BY DEF Arrives
  <2> QED
    BY <1>2, <2>1
<1>3. \A v \in Applied : <<v, tracked[v]>> \in ups /\ <<v, tracked[v]>>[1] = v
  BY DEF FolderInv
<1>4. m[1] \notin Applied
  <2> SUFFICES ASSUME m[1] \in Applied
               PROVE  FALSE
    OBVIOUS
  <2> DEFINE n == <<m[1], tracked[m[1]]>>
  <2>1. n \in ups /\ n[1] = m[1]
    BY <1>3
  <2> HIDE DEF n
  <2> QED
    BY <1>1, <1>2, <2>1
<1>5. OneDatabaseCall'
  BY OnDatabasePlaces DEF Calm, OneDatabaseCall, FolderInv, Placed, Active, OnDatabase, DatabasePCs
<1>6. VersionTells' /\ Prefix' /\ Ascending'
  BY <1>1, <1>2, <1>4 DEF Calm, VersionTells, Prefix, Ascending, Applied, Tracked
<1>7. ASSUME NEW c \in Calls, phase'[c] \in {"discovered", "next", "record"}
      PROVE  \A n \in ups' : \/ n[1] \in Applied'
                             \/ n \in queue'[c]
                             \/ \A q \in queue'[c] : q[1] < n[1]
  <2>1. queue[c] \subseteq ups /\ phase[c] = phase'[c]
    BY <1>7 DEF FolderInv, Holds, DatabasePCs
  <2> QED
    BY <1>1, <1>7, <2>1 DEF Calm, QueueInv, Applied
<1>8. QueueInv'
  BY <1>7 DEF Calm, QueueInv, DatabasePCs, Applied, IsNext, IsLatest
<1> QED
  BY <1>5, <1>6, <1>8 DEF Calm

\* A call on the database begins while no other runs.
LEMMA BeginCalm ==
  ASSUME FolderInv, FolderInv', Calm, NEW c \in Calls, ~crossed',
         DiscoverToApply(c) \/ ReadLatest(c)
  PROVE  Calm'
<1> USE DEF FolderInv, MigrationsTypeOK, folderVars, dbVars
<1>1. \A d \in Calls : phase[d] \notin DatabasePCs
  BY OnDatabasePlaces DEF DiscoverToApply, ReadLatest, Begin, OnDatabase
<1>2. /\ UNCHANGED <<ups, tracked, history>>
      /\ \A d \in Calls \ {c} : phase'[d] = phase[d]
  BY DEF DiscoverToApply, ReadLatest, Begin
<1>3. VersionTells' /\ Prefix' /\ Ascending'
  BY <1>2 DEF Calm, VersionTells, Prefix, Ascending, Applied, Tracked
<1>4. OneDatabaseCall'
  BY <1>1, <1>2 DEF OneDatabaseCall, Placed, Active, OnDatabase, DatabasePCs
<1>5. QueueInv'
  <2>1. CASE DiscoverToApply(c)
    BY <1>1, <1>2, <2>1 DEF DiscoverToApply, QueueInv, DatabasePCs
  <2>2. CASE ReadLatest(c)
    BY <1>1, <1>2, <2>2 DEF ReadLatest, QueueInv, DatabasePCs, IsLatest, Applied
  <2> QED
    BY <2>1, <2>2
<1> QED
  BY <1>3, <1>4, <1>5 DEF Calm

\* The one call on the database goes on.
LEMMA GoesOnCalm ==
  ASSUME FolderInv, FolderInv', Calm, NEW c \in Calls, phase[c] \in DatabasePCs,
         UNCHANGED <<ups, task>>,
         \A d \in Calls \ {c} : UNCHANGED <<phase[d], arg[d], queue[d], top[d]>>,
         VersionTells => Prefix' /\ Ascending',
         phase'[c] \in {"discovered", "next", "record"} =>
            \A m \in ups : \/ m[1] \in Applied'
                           \/ m \in queue'[c]
                           \/ \A n \in queue'[c] : n[1] < m[1],
         phase'[c] = "record" => IsNext(arg'[c], queue'[c]),
         phase'[c] \in {"latest", "revert", "forget"} =>
            (\A v \in Applied' : v <= top'[c]) /\ top'[c] \in Applied',
         phase'[c] \in {"revert", "forget"} => arg'[c][1] = top'[c]
  PROVE  Calm'
<1>1. \A d \in Calls \ {c} : phase[d] \notin DatabasePCs
  BY OnDatabasePlaces DEF Calm, OneDatabaseCall
<1>2. OneDatabaseCall'
  <2>1. \A d \in Calls : (Active(d) /\ OnDatabase(task[d]))' => d = c
    BY <1>1, MigNoneAssumption
       DEF FolderInv, Placed, Active, OnDatabase, DatabasePCs
  <2> QED
    BY <2>1 DEF OneDatabaseCall
<1>3. QueueInv'
  BY <1>1 DEF QueueInv, DatabasePCs, IsNext, IsLatest
<1> QED
  BY <1>2, <1>3 DEF Calm, VersionTells

LEMMA ApplyCalm ==
  ASSUME FolderInv, FolderInv', Calm, NEW c \in Calls, LoadApplied(c) \/ RunUp(c)
  PROVE  Calm'
<1> USE DEF MoveTo, FolderInv, MigrationsTypeOK, folderVars, dbVars
<1>1. QueueInv
  BY DEF Calm
<1>2. UNCHANGED <<ups, task, tracked, history, top, crossed>> /\ phase[c] \in {"discovered", "next"}
  BY DEF LoadApplied, RunUp
<1>3. \A d \in Calls \ {c} : UNCHANGED <<phase[d], arg[d], queue[d], top[d]>>
  BY DEF LoadApplied, RunUp
<1>4. Prefix' /\ Ascending'
  BY <1>2 DEF Calm, Prefix, Ascending, Applied, Tracked
<1>5. phase'[c] \in {"done", "next", "record"}
  BY DEF LoadApplied, RunUp
<1>6. \A m \in ups : \/ m[1] \in Applied'
                    \/ m \in queue'[c]
                    \/ \A n \in queue'[c] : n[1] < m[1]
  <2>1. \A m \in ups : \/ m[1] \in Applied
                      \/ m \in queue[c]
                      \/ \A n \in queue[c] : n[1] < m[1]
    BY <1>1, <1>2 DEF QueueInv
  <2>2. queue'[c] \subseteq queue[c] /\ \A m \in queue[c] : m \in queue'[c] \/ m[1] \in Applied
    BY DEF LoadApplied, RunUp
  <2>3. Applied' = Applied
    BY <1>2 DEF Applied
  <2> QED
    BY <2>1, <2>2, <2>3
<1>7. phase'[c] = "record" => IsNext(arg'[c], queue'[c])
  BY DEF LoadApplied, RunUp, IsNext
<1> QED
  BY <1>2, <1>3, <1>4, <1>5, <1>6, <1>7, GoesOnCalm DEF DatabasePCs

\* What is recorded next is newer than all that is recorded.
LEMMA RecordCalm ==
  ASSUME FolderInv, FolderInv', Calm, NEW c \in Calls, RecordAndCommit(c)
  PROVE  Calm'
<1> DEFINE m == arg[c]
<1> USE DEF FolderInv, MigrationsTypeOK, folderVars
<1>1. /\ phase[c] = "record" /\ tracked[m[1]] = None
      /\ m \in queue[c] /\ queue[c] \subseteq ups /\ m \in Pairs
  BY DEF RecordAndCommit, Holds
<1>2. /\ \A n \in queue[c] : m[1] <= n[1]
      /\ \A n \in ups : \/ n[1] \in Applied
                        \/ n \in queue[c]
                        \/ \A q \in queue[c] : q[1] < n[1]
  BY <1>1 DEF Calm, QueueInv, IsNext
<1>3. /\ UNCHANGED <<ups, task>>
      /\ tracked' = [tracked EXCEPT ![m[1]] = m[2]]
      /\ history' = history \cup {<<n, m>> : n \in Recorded \cup {m}}
      /\ queue' = [queue EXCEPT ![c] = @ \ {m}]
      /\ phase' = [phase EXCEPT ![c] = IF queue[c] = {m} THEN "done" ELSE "next"]
      /\ UNCHANGED <<arg, top>>
  BY DEF RecordAndCommit
<1>4. \A n \in Pairs : /\ n[1] \in Seconds /\ n[1] \in Int
                      /\ n[2] \in Slugs /\ n[2] # None /\ n = <<n[1], n[2]>>
  BY MigNoneAssumption DEF Pairs, Seconds
<1> HIDE DEF m
<1>5. Applied' = Applied \cup {m[1]} /\ m[1] \notin Applied
  BY <1>1, <1>3, <1>4 DEF Applied
<1>6. Tracked' = Tracked \cup {m}
  BY <1>1, <1>3, <1>4 DEF Tracked
<1>7. \A n \in Tracked : n \in Pairs /\ n \in ups /\ n[1] \in Applied /\ n[1] < m[1]
  <2> SUFFICES ASSUME NEW n \in Tracked
               PROVE  n \in Pairs /\ n \in ups /\ n[1] \in Applied /\ n[1] < m[1]
    OBVIOUS
  <2>1. n \in Pairs /\ tracked[n[1]] = n[2]
    BY DEF Tracked
  <2>2. n[1] \in Applied
    BY <1>4, <2>1 DEF Applied
  <2>3. n \in ups
    BY <1>4, <2>1, <2>2
  <2>4. ~(m[1] < n[1]) /\ m[1] # n[1]
    BY <1>1, <1>5, <2>2, <2>3 DEF Calm, Prefix
  <2>5. m[1] \in Int /\ n[1] \in Int
    BY <1>1, <1>4, <2>1
  <2> QED
    BY <2>1, <2>2, <2>3, <2>4, <2>5
<1>8. Prefix'
  <2> SUFFICES ASSUME NEW a \in ups, NEW b \in ups, a[1] < b[1], b[1] \in Applied'
               PROVE  a[1] \in Applied'
    BY <1>3 DEF Prefix
  <2>1. CASE b[1] \in Applied
    BY <1>5, <2>1 DEF Calm, Prefix
  <2>2. CASE b[1] = m[1]
    <3>1. a[1] \in Int /\ m[1] \in Int
      BY <1>1, <1>4
    <3>2. a \notin queue[c] /\ ~(m[1] < a[1])
      BY <1>2, <2>2, <3>1
    <3> QED
      BY <1>1, <1>2, <1>5, <3>2
  <2> QED
    BY <1>5, <2>1, <2>2
<1>9. Ascending'
  <2>1. Recorded = Tracked
    <3>1. \A n \in Tracked : <<n, n>> \in history
      BY <1>4, <1>7 DEF Calm, Ascending
    <3>2. \A n \in Recorded : n \in Tracked
      BY DEF Calm, Ascending, Recorded
    <3> QED
      BY <1>7, <3>1, <3>2 DEF Recorded
  <2>2. history' = {o \in Tracked \X Tracked : o[1][1] <= o[2][1]}
                   \cup {<<n, m>> : n \in Tracked \cup {m}}
    BY <1>3, <2>1 DEF Calm, Ascending
  <2>3. \A n \in Tracked \cup {m} : n[1] \in Int /\ n[1] <= m[1]
    BY <1>1, <1>4, <1>7
  <2>4. \A a, b \in Tracked' : <<a, b>> \in history' <=> a[1] <= b[1]
    <3> SUFFICES ASSUME NEW a \in Tracked \cup {m}, NEW b \in Tracked \cup {m}
                 PROVE  <<a, b>> \in history' <=> a[1] <= b[1]
      BY <1>6
    <3>1. CASE b = m
      BY <2>2, <2>3, <3>1
    <3>2. CASE a = m /\ b \in Tracked
      <4>1. m \notin Tracked /\ ~(m[1] <= b[1])
        BY <1>1, <1>4, <1>7, <3>2
      <4> QED
        BY <2>2, <3>2, <4>1
    <3>3. CASE a \in Tracked /\ b \in Tracked
      <4>1. b # m
        BY <1>1, <1>4, <1>7, <3>3
      <4> QED
        BY <2>2, <3>3, <4>1
    <3> QED
      BY <3>1, <3>2, <3>3
  <2>5. history' \subseteq Tracked' \X Tracked'
    BY <1>6, <2>2
  <2>6. \A o \in Tracked' \X Tracked' : o = <<o[1], o[2]>> /\ o[1] \in Tracked' /\ o[2] \in Tracked'
    OBVIOUS
  <2> QED
    BY <2>4, <2>5, <2>6 DEF Ascending
<1>10. \A n \in ups : \/ n[1] \in Applied'
                      \/ n \in queue'[c]
                      \/ \A q \in queue'[c] : q[1] < n[1]
  BY <1>2, <1>3, <1>5
<1>11. phase'[c] \in {"done", "next"}
  BY <1>3
<1> QED
  BY <1>1, <1>3, <1>8, <1>9, <1>10, <1>11, GoesOnCalm DEF DatabasePCs

LEMMA RollbackCalm ==
  ASSUME FolderInv, FolderInv', Calm, NEW c \in Calls, FindTarget(c) \/ RunDown(c)
  PROVE  Calm'
<1> USE DEF MoveTo, FolderInv, MigrationsTypeOK, folderVars, dbVars, callVars
<1>1. /\ UNCHANGED <<ups, task, tracked, history, top, queue>>
      /\ phase[c] \in {"latest", "revert"} /\ phase'[c] \in {"revert", "forget"}
  BY DEF FindTarget, RunDown
<1>2. \A d \in Calls \ {c} : UNCHANGED <<phase[d], arg[d], queue[d], top[d]>>
  BY DEF FindTarget, RunDown
<1>3. Prefix' /\ Ascending'
  BY <1>1 DEF Calm, Prefix, Ascending, Applied, Tracked
<1>4. (\A v \in Applied' : v <= top'[c]) /\ top'[c] \in Applied'
  BY <1>1 DEF Calm, QueueInv, IsLatest, Applied
<1>5. arg'[c][1] = top'[c]
  BY DEF FindTarget, RunDown, Calm, QueueInv
<1> QED
  BY <1>1, <1>2, <1>3, <1>4, <1>5, GoesOnCalm DEF DatabasePCs

\* The migration a rollback forgets is the newest of those recorded.
LEMMA ForgetsTheNewest ==
  ASSUME FolderInv, Calm, NEW c \in Calls, phase[c] = "forget"
  PROVE  /\ arg[c] \in Tracked
         /\ \A n \in Tracked : n[1] <= arg[c][1] /\ (n[1] = arg[c][1] => n = arg[c])
<1> DEFINE m == arg[c]
<1> USE DEF FolderInv, MigrationsTypeOK
<1>1. m \in ups /\ m \in Pairs /\ m[1] \in Applied /\ \A v \in Applied : v <= m[1]
  BY DEF Holds, Calm, QueueInv, IsLatest
<1>2. <<m[1], tracked[m[1]]>> \in ups
  BY <1>1
<1>3. \A n \in Pairs : n[2] \in Slugs /\ n[2] # None /\ n = <<n[1], n[2]>> /\ n[1] \in Seconds
  BY MigNoneAssumption DEF Pairs
<1> HIDE DEF m
<1>4. <<m[1], tracked[m[1]]>> = m
  BY <1>1, <1>2 DEF Calm, VersionTells
<1>5. m \in Tracked
  BY <1>1, <1>4 DEF Tracked
<1>6. \A n \in Tracked : n[1] \in Applied
  BY <1>3 DEF Tracked, Applied
<1>7. \A n \in Tracked : n[1] = m[1] => n = m
  BY <1>3, <1>5 DEF Tracked
<1> QED
  BY <1>1, <1>5, <1>6, <1>7 DEF m

LEMMA ForgetCalm ==
  ASSUME FolderInv, FolderInv', Calm, NEW c \in Calls, ForgetAndCommit(c)
  PROVE  Calm'
<1> DEFINE m == arg[c]
<1> USE DEF MoveTo, FolderInv, MigrationsTypeOK, folderVars, callVars
<1>1. /\ phase[c] = "forget" /\ phase'[c] = "done"
      /\ UNCHANGED <<ups, task, arg, queue, top>>
      /\ tracked' = [tracked EXCEPT ![m[1]] = None]
      /\ history' = {o \in history : m \notin {o[1], o[2]}}
      /\ \A d \in Calls \ {c} : phase'[d] = phase[d]
  BY DEF ForgetAndCommit
<1>2. m \in Tracked /\ \A n \in Tracked : n[1] <= m[1] /\ (n[1] = m[1] => n = m)
  BY <1>1, ForgetsTheNewest
<1>3. \A n \in Pairs : n[1] \in Int /\ n[2] # None /\ n[1] \in Seconds
  BY MigNoneAssumption DEF Pairs, Seconds
<1>4. m \in Pairs /\ m[1] \in Applied /\ \A v \in Applied : v <= m[1] /\ v \in Int
  BY <1>1, <1>2, <1>3 DEF Tracked, Calm, QueueInv, IsLatest, Applied, Seconds
<1> HIDE DEF m
<1>5. Applied' = Applied \ {m[1]}
  BY <1>1, <1>3, <1>4 DEF Applied
<1>6. Tracked' = Tracked \ {m}
  <2>1. \A n \in Pairs : tracked'[n[1]] = n[2] <=> n[1] # m[1] /\ tracked[n[1]] = n[2]
    BY <1>1, <1>3, <1>4
  <2>2. \A n \in Pairs : n \in Tracked => (n[1] # m[1] <=> n # m)
    BY <1>2
  <2> QED
    BY <2>1, <2>2 DEF Tracked
<1>7. Prefix'
  <2> SUFFICES ASSUME NEW a \in ups, NEW b \in ups, a[1] < b[1], b[1] \in Applied'
               PROVE  a[1] \in Applied'
    BY <1>1 DEF Prefix
  <2>1. a[1] \in Applied /\ b[1] <= m[1] /\ b[1] \in Int /\ a[1] \in Int /\ m[1] \in Int
    BY <1>3, <1>4, <1>5 DEF Calm, Prefix
  <2> QED
    BY <1>5, <2>1
<1>8. Ascending'
  <2>1. \A o \in Tracked \X Tracked : m \notin {o[1], o[2]} <=> o \in Tracked' \X Tracked'
    BY <1>6
  <2>2. Tracked' \X Tracked' \subseteq Tracked \X Tracked
    BY <1>6
  <2> QED
    BY <1>1, <2>1, <2>2 DEF Calm, Ascending
<1> QED
  BY <1>1, <1>7, <1>8, GoesOnCalm DEF DatabasePCs

LEMMA CalmStep ==
  ASSUME FolderInv, FolderInv', CalmInv, [MigrationsNext]_migrationsVars
  PROVE  CalmInv'
<1> SUFFICES ASSUME ~crossed'
             PROVE  Calm'
  BY DEF CalmInv
<1> USE DEF folderVars, dbVars, callVars, MoveTo
<1>1. ~crossed
  <2>1. CASE UNCHANGED migrationsVars \/ Tick \/ \E m \in Pairs : Pull(m) \/ Repair(m)
    BY <2>1 DEF migrationsVars, Tick, Pull, Repair, Arrives
  <2>2. ASSUME NEW c \in Calls, \/ \E s \in Slugs : Scaffold(c, s)
                               \/ DiscoverToApply(c) \/ ReadLatest(c) \/ WriteUp(c)
        PROVE  ~crossed
    BY <2>2 DEF Scaffold, DiscoverToApply, ReadLatest, WriteUp, Begin, Arrives
  <2>3. ASSUME NEW c \in Calls,
               \/ WriteDown(c) \/ LoadApplied(c) \/ RunUp(c) \/ RecordAndCommit(c)
               \/ ApplyFails(c) \/ FindTarget(c) \/ RunDown(c) \/ ForgetAndCommit(c) \/ Abort(c)
        PROVE  ~crossed
    BY <2>3 DEF WriteDown, LoadApplied, RunUp, RecordAndCommit, ApplyFails, FindTarget,
       RunDown, ForgetAndCommit, Abort
  <2> QED
    BY <2>1, <2>2, <2>3 DEF MigrationsNext, AllDone, Advance
<1>2. Calm
  BY <1>1 DEF CalmInv
<1>3. CASE UNCHANGED migrationsVars \/ Tick \/ \E m \in Pairs : Repair(m)
  BY <1>2, <1>3, CalmKept DEF migrationsVars, Tick, Repair
<1>4. ASSUME NEW m \in Pairs, Pull(m)
      PROVE  Calm'
  BY <1>2, <1>4, ArrivesCalm DEF Pull
<1>5. ASSUME NEW c \in Calls, WriteUp(c)
      PROVE  Calm'
  <2>1. arg[c] \in Pairs
    BY <1>5 DEF WriteUp, FolderInv, Holds
  <2>2. \A d \in Calls : phase'[d] \notin DatabasePCs \/ phase'[d] = phase[d]
    BY <1>5 DEF WriteUp, FolderInv, MigrationsTypeOK, DatabasePCs
  <2> QED
    BY <1>2, <1>5, <2>1, <2>2, ArrivesCalm DEF WriteUp
<1>6. ASSUME NEW c \in Calls,
             (\E s \in Slugs : Scaffold(c, s)) \/ WriteDown(c) \/ ApplyFails(c) \/ Abort(c)
      PROVE  Calm'
  <2>1. UNCHANGED <<ups, tracked, history>> /\ phase'[c] \notin DatabasePCs
    BY <1>6 DEF Scaffold, WriteDown, ApplyFails, Abort, FolderInv, MigrationsTypeOK, DatabasePCs
  <2>2. \A d \in Calls \ {c} : UNCHANGED <<phase[d], arg[d], queue[d], top[d]>>
    BY <1>6 DEF Scaffold, WriteDown, ApplyFails, Abort, FolderInv, MigrationsTypeOK
  <2> QED
    BY <1>2, <2>1, <2>2, CalmKept
<1> QED
  BY <1>2, <1>3, <1>4, <1>5, <1>6, BeginCalm, ApplyCalm, RecordCalm, RollbackCalm, ForgetCalm
     DEF MigrationsNext, AllDone, Advance

LEMMA CalmInit == MigrationsInit => CalmInv
<1> SUFFICES ASSUME MigrationsInit
             PROVE  Calm
  BY DEF CalmInv
<1>1. VersionTells /\ OneDatabaseCall /\ Prefix /\ QueueInv
  BY DEF MigrationsInit, VersionTells, OneDatabaseCall, Prefix, QueueInv, Active
<1>2. Tracked = {} /\ history = {}
  BY MigNoneAssumption DEF MigrationsInit, Tracked, Pairs
<1> QED
  BY <1>1, <1>2 DEF Calm, Ascending

\* As long as versions only grow and one call at a time works on the database,
\* no version is applied while a lower one is pending: failed applies,
\* rollbacks and files that appear in the middle of a run included.
THEOREM AppliedInOrder == MigrationsSpec => []AppliedIsPrefix
<1>1. FolderInv /\ CalmInv => AppliedIsPrefix
  BY DEF FolderInv, CalmInv, Calm, Prefix, AppliedIsPrefix
<1>2. FolderInv /\ FolderInv' /\ CalmInv /\ [MigrationsNext]_migrationsVars => CalmInv'
  BY CalmStep
<1> QED
  BY <1>1, <1>2, FolderInit, FolderStep, CalmInit, PTL DEF MigrationsSpec

\* Under the same conditions a rollback takes back the migration that was
\* recorded last, and never one that is not recorded any more.
THEOREM RollsBackTheLast == MigrationsSpec => RollbackRevertsLast
<1>1. ASSUME FolderInv, CalmInv, ~crossed, NEW c \in Calls, phase[c] = "forget"
      PROVE  arg[c] \in Recorded /\ \A m \in Recorded : <<m, arg[c]>> \in history
  <2>1. arg[c] \in Tracked /\ \A n \in Tracked : n[1] <= arg[c][1]
    BY <1>1, ForgetsTheNewest DEF CalmInv
  <2>2. \A a, b \in Tracked : a[1] <= b[1] => <<a, b>> \in history
    BY <1>1 DEF CalmInv, Calm, Ascending
  <2>3. arg[c] \in Recorded
    BY <2>1, <2>2 DEF Recorded, Tracked
  <2>4. \A n \in Recorded : n \in Tracked
    BY <1>1 DEF Recorded, CalmInv, Calm, Ascending
  <2> QED
    BY <2>1, <2>2, <2>3, <2>4
<1>2. FolderInv /\ CalmInv =>
         (~crossed => \A c \in Calls : phase[c] = "forget" /\ phase'[c] = "done" =>
             arg[c] \in Recorded /\ \A m \in Recorded : <<m, arg[c]>> \in history)
  BY <1>1
<1>3. FolderInv /\ FolderInv' /\ CalmInv /\ [MigrationsNext]_migrationsVars => CalmInv'
  BY CalmStep
<1> QED
  BY <1>2, <1>3, FolderInit, FolderStep, CalmInit, PTL DEF MigrationsSpec, RollbackRevertsLast

=============================================================================
