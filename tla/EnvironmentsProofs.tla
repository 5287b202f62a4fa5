------------------------- MODULE EnvironmentsProofs -------------------------
(***************************************************************************)
(* For any number of calls, profiles, engines and ports: the types, that a *)
(* reset erases what it found, and, for a user who waits for the calls on  *)
(* a profile, that created ports are distinct, that no container is left   *)
(* without a row, and that starts and stops do what they report.           *)
(***************************************************************************)
EXTENDS Environments, FiniteSetTheorems, FunctionTheorems, WellFoundedInduction, TLAPS

-----------------------------------------------------------------------------
(***************************************************************************)
(* assignHostPorts finds a port: there are more candidates than ports      *)
(* taken, and the least that is free is the one it stops at.               *)
(***************************************************************************)
LEMMA LeastElement ==
  ASSUME NEW T \in SUBSET Nat, T # {}
  PROVE  \E x \in T : \A y \in T : x <= y
<1>1. PICK x \in T : \A y \in T : ~(<<y, x>> \in OpToRel(<, Nat))
  BY NatLessThanWellFounded, WFMin
<1>2. ASSUME NEW y \in T
      PROVE  x <= y
  <2>1. x \in Nat /\ y \in Nat
    OBVIOUS
  <2>2. ~(y < x)
    BY <1>1, <2>1 DEF OpToRel
  <2> QED
    BY <2>1, <2>2
<1> QED
  BY <1>2

LEMMA FirstFreeIsFree ==
  ASSUME NEW used \in SUBSET Nat, IsFiniteSet(used), NEW q \in Nat
  PROVE  FirstFree(used, q) \in Nat \ used
<1> DEFINE n == Cardinality(used)
<1> DEFINE T == {r \in q..(q + n) : r \notin used}
<1>1. n \in Nat
  BY FS_CardinalityType
<1>2. T # {}
  <2> SUFFICES ASSUME q..(q + n) \subseteq used
               PROVE  FALSE
    OBVIOUS
  <2>1. Cardinality(q..(q + n)) <= n
    BY FS_Subset
  <2>2. Cardinality(q..(q + n)) = n + 1
    BY <1>1, FS_Interval
  <2> QED
    BY <1>1, <2>1, <2>2
<1>3. PICK x \in T : \A y \in T : x <= y
  <2>1. T \in SUBSET Nat
    BY <1>1
  <2> HIDE DEF T
  <2> QED
    BY <1>2, <2>1, LeastElement
<1>4. x \in q..(q + n) /\ x \notin used /\ \A t \in q..(x - 1) : t \in used
  BY <1>1, <1>3
<1>5. \E r \in q..(q + n) : r \notin used /\ \A t \in q..(r - 1) : t \in used
  BY <1>4
<1>6. FirstFree(used, q) \in q..(q + n) /\ FirstFree(used, q) \notin used
  BY <1>5 DEF FirstFree
<1> QED
  BY <1>1, <1>6

-----------------------------------------------------------------------------
(***************************************************************************)
(* Where a call of each kind can be, and what it holds there.              *)
(***************************************************************************)
AtService == {"portcheck", "owner", "volume", "inspect", "create", "boot",
              "stopping", "halt", "removing", "remove", "wipe", "status"}

Placed(c) ==
    \/ op[c] = None /\ pc[c] = "idle"
    \/ op[c] # None /\ pc[c] \in {"done", "failed"}
    \/ op[c] = "create" /\ pc[c] \in {"inserting", "reading", "next"}
    \/ op[c] = "duplicate" /\ pc[c] \in {"inserting", "next"}
    \/ op[c] = "start" /\ pc[c] \in {"next", "portcheck", "owner", "volume",
                                     "inspect", "create", "boot"}
    \/ op[c] = "stop" /\ pc[c] \in {"next", "stopping", "halt"}
    \/ op[c] = "delete" /\ pc[c] \in {"next", "status", "deleting"}
    \/ op[c] = "reset" /\ pc[c] \in {"stopping", "halt", "removing", "remove", "wipe",
                                     "volume", "inspect", "create", "boot"}

\* A call works on a profile that exists or existed, on a service of its own
\* list; a reset has but one.
Holds(c) ==
    /\ prof[c] \in issued \cup {None}
    /\ src[c] \in issued \cup {None}
    /\ pc[c] = "inserting" => prof[c] = None
    /\ Active(c) /\ pc[c] # "inserting" => prof[c] \in issued
    /\ op[c] = "duplicate" => src[c] \in issued
    /\ pc[c] \in AtService => cur[c] \in todo[c]
    /\ op[c] = "reset" /\ Active(c) => todo[c] = {cur[c]}
    /\ pc[c] = "deleting" => todo[c] = {}
    /\ IsFiniteSet(taken[c])

RowsHold ==
    /\ profiles \subseteq issued
    /\ \A s \in services : s[1] \in profiles
    /\ IsFiniteSet(services)

EnvInv ==
    /\ TypeOK
    /\ RowsHold
    /\ \A c \in Calls : Placed(c) /\ Holds(c)

-----------------------------------------------------------------------------
(* Past the volume's removal, a reset's data is gone. *)
WipedInv ==
    \A c \in Calls :
        op[c] = "reset" /\ pc[c] \in {"volume", "inspect", "create", "boot", "done"}
        => c \notin stale

-----------------------------------------------------------------------------
(***************************************************************************)
(* The patient user's calls: no two work on a profile, and no two create.  *)
(***************************************************************************)
Exclusive ==
    /\ \A c, d \in Calls :
          c # d /\ Active(c) /\ Active(d)
          => \A p \in Profiles : ~(Touches(c, p) /\ Touches(d, p))
    /\ \A c, d \in Calls :
          Active(c) /\ Active(d) /\ op[c] = "create" /\ op[d] = "create" => c = d

\* A creation under way knows the ports of all services: those recorded when it
\* read them, and what is inserted since is its own or a copy of one of them.
PortsKnown ==
    \A c \in Calls :
        op[c] = "create" /\ pc[c] = "next" => \A s \in services : hostPort[s] \in taken[c]

\* What a duplication under way has left to copy is still there.
OriginalsThere ==
    \A c \in Calls :
        op[c] = "duplicate" /\ Active(c) => \A e \in todo[c] : <<src[c], e>> \in services

\* What a start, a stop or a delete has left to do is of the profile's rows,
\* and the others are as it left them.
Handled(c) ==
    /\ todo[c] \subseteq EnginesOf(prof[c])
    /\ \A e \in EnginesOf(prof[c]) \ todo[c] :
          /\ op[c] = "start" => container[<<prof[c], e>>] = "running"
          /\ op[c] \in {"stop", "delete"} => container[<<prof[c], e>>] # "running"

Handlers == {"start", "stop", "delete", "reset"}

HandledInv ==
    \A c \in Calls : Active(c) /\ op[c] \in Handlers => Handled(c)

PatientInv ==
    patient => /\ Exclusive
               /\ PortsKnown
               /\ OriginalsThere
               /\ HandledInv
               /\ NoOrphanedContainer
               /\ CreatedPortsDistinct

-----------------------------------------------------------------------------
(***************************************************************************)
(* The types.                                                              *)
(***************************************************************************)
LEMMA EnvInit == Init => EnvInv
<1> SUFFICES ASSUME Init
             PROVE  EnvInv
  OBVIOUS
<1>1. TypeOK
  BY DEF Init, TypeOK, PCs, Svc
<1>2. RowsHold
  BY FS_EmptySet DEF Init, RowsHold
<1>3. ASSUME NEW c \in Calls
      PROVE  Placed(c) /\ Holds(c)
  <2>1. IsFiniteSet({})
    BY FS_EmptySet
  <2> QED
    BY <2>1, EnvNoneAssumption DEF Init, Placed, Holds, Active, AtService, AllOps
<1> QED
  BY <1>1, <1>2, <1>3 DEF EnvInv

\* What a call holds is its own.
Kept(d) == UNCHANGED <<op[d], pc[d], prof[d], src[d], todo[d], cur[d], taken[d]>>

LEMMA OthersKeep ==
  ASSUME EnvInv, NEW c \in Calls, \A d \in Calls \ {c} : Kept(d), issued \subseteq issued',
         Placed(c)', Holds(c)', TypeOK', RowsHold'
  PROVE  EnvInv'
<1> SUFFICES ASSUME NEW d \in Calls \ {c}
             PROVE  Placed(d)' /\ Holds(d)'
  BY DEF EnvInv
<1>1. Placed(d) /\ Holds(d) /\ Kept(d)
  BY DEF EnvInv
<1> QED
  BY <1>1 DEF Placed, Holds, Kept, Active

LEMMA BeginKeeps ==
  ASSUME EnvInv, NEW c \in Calls, NEW o, NEW p \in Profiles \cup {None},
         NEW from \in Profiles \cup {None}, NEW engines \in SUBSET Engines,
         NEW there \in PCs, NEW e \in Engines \cup {None},
         Begin(c, o, p, from, engines), UNCHANGED patient,
         pc' = [pc EXCEPT ![c] = there], cur' = [cur EXCEPT ![c] = e],
         stale' \subseteq stale \cup {c},
         Placed(c)', Holds(c)'
  PROVE  EnvInv'
<1>1. o \in AllOps
  BY EnvOpsAssumption DEF Begin
<1>2. TypeOK'
  BY <1>1 DEF Begin, rowVars, EnvInv, TypeOK
<1>3. RowsHold'
  BY DEF Begin, rowVars, EnvInv, RowsHold
<1>4. \A d \in Calls \ {c} : Kept(d)
  BY DEF Begin, EnvInv, TypeOK, Kept
<1> QED
  BY <1>2, <1>3, <1>4, OthersKeep DEF Begin, rowVars

LEMMA BeginTypes ==
  ASSUME EnvInv, NEW c \in Calls, Call(c), UNCHANGED patient
  PROVE  EnvInv'
<1> USE DEF PCs
<1>1. cur = [cur EXCEPT ![c] = cur[c]] /\ cur[c] \in Engines \cup {None}
  BY DEF EnvInv, TypeOK
<1>3. ASSUME NEW o \in Ops, NEW p \in Profiles, StartOrStopBegin(c, o, p)
      PROVE  EnvInv'
  <2>1. p \in issued
    BY <1>3 DEF StartOrStopBegin, EnginesOf, EnvInv, RowsHold
  <2>2. Placed(c)'
    BY <1>3 DEF StartOrStopBegin, Begin, EnvInv, TypeOK, Placed
  <2>3. Holds(c)'
    BY <1>3, <2>1 DEF StartOrStopBegin, Begin, EnvInv, TypeOK, Holds, Active, AtService, rowVars
  <2> QED
    BY <1>1, <1>3, <2>2, <2>3, BeginKeeps DEF StartOrStopBegin, EnginesOf
<1>4. ASSUME NEW p \in Profiles, DeleteBegin(c, p)
      PROVE  EnvInv'
  <2>1. Placed(c)'
    BY <1>4 DEF DeleteBegin, Begin, EnvInv, TypeOK, Placed
  <2>2. Holds(c)'
    BY <1>4 DEF DeleteBegin, Begin, EnvInv, TypeOK, Holds, Active, AtService, rowVars
  <2> QED
    BY <1>1, <1>4, <2>1, <2>2, BeginKeeps DEF DeleteBegin, EnginesOf
<1>5. ASSUME NEW p \in Profiles, NEW e \in Engines, ResetBegin(c, p, e)
      PROVE  EnvInv'
  <2>1. p \in issued
    BY <1>5 DEF ResetBegin, EnginesOf, EnvInv, RowsHold
  <2>2. Placed(c)'
    BY <1>5 DEF ResetBegin, Begin, EnvInv, TypeOK, Placed
  <2>3. Holds(c)'
    BY <1>5, <2>1 DEF ResetBegin, Begin, EnvInv, TypeOK, Holds, Active, AtService, rowVars
  <2> QED
    BY <1>5, <2>2, <2>3, BeginKeeps DEF ResetBegin
<1>6. ASSUME NEW engines \in SUBSET Engines, CreateBegin(c, engines)
      PROVE  EnvInv'
  <2>1. Placed(c)'
    BY <1>6 DEF CreateBegin, Begin, EnvInv, TypeOK, Placed
  <2>2. Holds(c)'
    BY <1>6 DEF CreateBegin, Begin, EnvInv, TypeOK, Holds, Active, AtService, rowVars
  <2> QED
    BY <1>1, <1>6, <2>1, <2>2, BeginKeeps DEF CreateBegin
<1>7. ASSUME NEW p \in Profiles, DuplicateBegin(c, p)
      PROVE  EnvInv'
  <2>1. p \in issued
    BY <1>7 DEF DuplicateBegin, EnvInv, RowsHold
  <2>2. Placed(c)'
    BY <1>7 DEF DuplicateBegin, Begin, EnvInv, TypeOK, Placed
  <2>3. Holds(c)'
    BY <1>7, <2>1 DEF DuplicateBegin, Begin, EnvInv, TypeOK, Holds, Active, AtService, rowVars
  <2> QED
    BY <1>1, <1>7, <2>2, <2>3, BeginKeeps DEF DuplicateBegin, EnginesOf
<1> QED
  BY <1>3, <1>4, <1>5, <1>6, <1>7 DEF Call

\* The rows of a profile come after it, and a port is found for each.
LEMMA InsertTypes ==
  ASSUME EnvInv, NEW c \in Calls, UNCHANGED patient,
         \/ \E p \in Profiles : InsertProfile(c, p)
         \/ ReadUsedPorts(c)
         \/ \E e \in Engines : InsertService(c, e)
  PROVE  EnvInv'
<1> USE DEF PCs
<1>1. CASE ReadUsedPorts(c)
  <2> DEFINE T == {hostPort[s] : s \in services}
  <2>1. IsFiniteSet(T)
    <3>1. [s \in services |-> hostPort[s]] \in Surjection(services, T)
      BY Fun_IsSurj
    <3> QED
      BY <3>1, FS_Surjection DEF EnvInv, RowsHold
  <2>2. T \in SUBSET Nat
    BY DEF EnvInv, TypeOK
  <2> HIDE DEF T
  <2>3. /\ taken' = [taken EXCEPT ![c] = T]
        /\ UNCHANGED <<rowVars, dockerVars, foreign, argVars, todo, cur>>
        /\ pc[c] = "reading" /\ pc' = [pc EXCEPT ![c] = "next"]
    BY <1>1 DEF ReadUsedPorts, Goto, T
  <2>4. TypeOK'
    BY <2>2, <2>3 DEF EnvInv, TypeOK, rowVars, dockerVars, argVars
  <2>5. RowsHold'
    BY <2>3 DEF EnvInv, RowsHold, rowVars
  <2>6. \A d \in Calls \ {c} : Kept(d)
    BY <2>3 DEF EnvInv, TypeOK, Kept, argVars
  <2>7. Placed(c) /\ Holds(c)
    BY DEF EnvInv
  <2>8. Placed(c)' /\ Holds(c)'
    BY <2>1, <2>3, <2>7 DEF EnvInv, TypeOK, Placed, Holds, Active, AtService, argVars, rowVars
  <2> QED
    BY <2>3, <2>4, <2>5, <2>6, <2>8, OthersKeep DEF rowVars
<1>2. ASSUME NEW p \in Profiles, InsertProfile(c, p)
      PROVE  EnvInv'
  <2>1. Placed(c) /\ Holds(c)
    BY DEF EnvInv
  <2>2. TypeOK'
    BY <1>2 DEF InsertProfile, EnvInv, TypeOK, dockerVars
  <2>3. RowsHold'
    BY <1>2 DEF InsertProfile, EnvInv, RowsHold
  <2>4. \A d \in Calls \ {c} : Kept(d)
    BY <1>2 DEF InsertProfile, EnvInv, TypeOK, Kept
  <2>5. Placed(c)'
    BY <1>2, <2>1, EnvNoneAssumption DEF InsertProfile, EnvInv, TypeOK, Placed, AllOps
  <2>6. Holds(c)'
    BY <1>2, <2>1 DEF InsertProfile, EnvInv, TypeOK, Placed, Holds, Active, AtService
  <2> QED
    BY <1>2, <2>2, <2>3, <2>4, <2>5, <2>6, OthersKeep DEF InsertProfile
<1>3. ASSUME NEW e \in Engines, InsertService(c, e)
      PROVE  EnvInv'
  <2>1. Placed(c) /\ Holds(c)
    BY DEF EnvInv
  <2>2. PortFor(c, e) \in Nat
    <3>1. CASE op[c] = "create"
      BY <2>1, <3>1, FirstFreeIsFree, EnvPortsAssumption DEF PortFor, EnvInv, TypeOK, Holds
    <3>2. CASE op[c] = "duplicate"
      BY <2>1, <3>2 DEF PortFor, EnvInv, TypeOK, Holds, Svc
    <3> QED
      BY <1>3, <3>1, <3>2 DEF InsertService
  <2> DEFINE port == PortFor(c, e)
  <2> DEFINE new == <<prof[c], e>>
  <2> DEFINE from == IF op[c] = "create" THEN new ELSE origin[<<src[c], e>>]
  <2>3. /\ pc[c] = "next" /\ op[c] \in {"create", "duplicate"}
        /\ prof[c] \in profiles
        /\ services' = services \cup {new}
        /\ hostPort' = [hostPort EXCEPT ![new] = port]
        /\ origin' = [origin EXCEPT ![new] = from]
        /\ taken' = [taken EXCEPT ![c] = IF todo[c] = {e} THEN {} ELSE @ \cup {port}]
        /\ todo' = [todo EXCEPT ![c] = @ \ {e}]
        /\ pc' = [pc EXCEPT ![c] = IF todo[c] = {e} THEN "done" ELSE "next"]
        /\ UNCHANGED <<profiles, issued, dockerVars, foreign, argVars, cur>>
    BY <1>3 DEF InsertService
  <2>4. new \in Svc /\ new[1] = prof[c] /\ port \in Nat
    BY <2>2, <2>3 DEF EnvInv, TypeOK, Svc
  <2>a. from \in Svc
    <3>1. op[c] = "duplicate" => <<src[c], e>> \in Svc
      BY <2>1 DEF EnvInv, TypeOK, Holds, Svc
    <3> QED
      BY <2>3, <2>4, <3>1 DEF EnvInv, TypeOK
  <2> HIDE DEF port, new, from
  <2>5. /\ IsFiniteSet(services \cup {new})
        /\ IsFiniteSet(taken[c] \cup {port})
        /\ IsFiniteSet({})
    BY <2>1, FS_AddElement, FS_EmptySet DEF EnvInv, RowsHold, Holds
  <2>6. TypeOK'
    BY <2>3, <2>4, <2>a DEF EnvInv, TypeOK, dockerVars, argVars
  <2>7. RowsHold'
    BY <2>3, <2>4, <2>5 DEF EnvInv, RowsHold
  <2>8. \A d \in Calls \ {c} : Kept(d)
    BY <2>3 DEF EnvInv, TypeOK, Kept, argVars
  <2>9. Placed(c)'
    BY <2>1, <2>3, EnvNoneAssumption DEF EnvInv, TypeOK, Placed, argVars, AllOps
  <2>10. IsFiniteSet(taken'[c])
    BY <2>3, <2>5 DEF EnvInv, TypeOK
  <2>11. Holds(c)'
    BY <2>1, <2>3, <2>10 DEF EnvInv, TypeOK, Placed, Holds, Active, AtService, argVars
  <2> QED
    BY <2>3, <2>6, <2>7, <2>8, <2>9, <2>11, OthersKeep
<1> QED
  BY <1>1, <1>2, <1>3

\* The steps of a call on a service, on Docker, or on the rows it deletes.
HandlingStep(c) ==
    \/ \E e \in Engines : PickService(c, e)
    \/ CheckPort(c) \/ CheckOwner(c) \/ EnsureVolume(c)
    \/ InspectContainer(c) \/ CreateContainer(c) \/ StartContainer(c)
    \/ InspectToStop(c) \/ StopContainer(c)
    \/ InspectToRemove(c) \/ RemoveContainer(c) \/ RemoveVolume(c)
    \/ CheckStatus(c) \/ DeleteRows(c) \/ Abort(c)

\* What they change: the call's own place and list, a service's container and
\* volume, and the rows of a profile.
HandlingFrame(c) ==
    /\ UNCHANGED <<issued, hostPort, origin, op, prof, src, foreign>>
    /\ profiles' \subseteq profiles
    /\ services' \subseteq services
    /\ \A s \in services' : s[1] \in profiles => s[1] \in profiles'
    /\ pc' \in [Calls -> PCs]
    /\ todo' \in [Calls -> SUBSET Engines]
    /\ cur' \in [Calls -> Engines \cup {None}]
    /\ taken' \in {taken, [taken EXCEPT ![c] = {}]}
    /\ container' \in [Svc -> {"none", "created", "running", "exited"}]
    /\ volumes' \subseteq Svc
    /\ stale' \subseteq stale
    /\ \A d \in Calls \ {c} : pc'[d] = pc[d] /\ cur'[d] = cur[d] /\ todo'[d] = todo[d]

LEMMA HandlingFrames ==
  ASSUME EnvInv, NEW c \in Calls, HandlingStep(c)
  PROVE  HandlingFrame(c)
<1> USE DEF HandlingFrame, EnvInv, TypeOK, PCs, Goto, ServiceDone, rowVars, dockerVars, argVars
<1>1. pc[c] \in AtService => This(c) \in Svc
  BY DEF Holds, Placed, Active, AtService, This, Svc
<1>2. CASE \E e \in Engines : PickService(c, e)
  BY <1>2 DEF PickService
<1>3. CASE CheckPort(c) \/ CheckOwner(c)
  BY <1>3 DEF CheckPort, CheckOwner
<1>4. CASE EnsureVolume(c)
  BY <1>1, <1>4 DEF EnsureVolume, AtService
<1>5. CASE InspectContainer(c)
  BY <1>5 DEF InspectContainer
<1>6. CASE CreateContainer(c)
  BY <1>1, <1>6 DEF CreateContainer, AtService
<1>7. CASE StartContainer(c)
  BY <1>7 DEF StartContainer
<1>8. CASE InspectToStop(c)
  BY <1>8 DEF InspectToStop
<1>9. CASE StopContainer(c)
  <2>1. container' \in [Svc -> {"none", "created", "running", "exited"}]
    <3>1. container[This(c)] \in {"none", "created", "running", "exited"}
      BY <1>1, <1>9 DEF StopContainer, AtService
    <3> QED
      BY <1>9, <3>1 DEF StopContainer
  <2>2. /\ UNCHANGED <<rowVars, volumes, stale, foreign, argVars, taken>>
        /\ \/ /\ \E there \in PCs : pc' = [pc EXCEPT ![c] = there]
              /\ UNCHANGED <<todo, cur>>
           \/ \E last \in PCs : ServiceDone(c, last)
    BY <1>9 DEF StopContainer
  <2> QED
    BY <2>1, <2>2
<1>10. CASE InspectToRemove(c) \/ RemoveContainer(c) \/ RemoveVolume(c)
  BY <1>10 DEF InspectToRemove, RemoveContainer, RemoveVolume
<1>11. CASE CheckStatus(c)
  BY <1>11 DEF CheckStatus
<1>12. CASE DeleteRows(c)
  BY <1>12 DEF DeleteRows
<1>13. CASE Abort(c)
  BY <1>13 DEF Abort
<1> QED
  BY <1>2, <1>3, <1>4, <1>5, <1>6, <1>7, <1>8, <1>9, <1>10, <1>11, <1>12, <1>13
     DEF HandlingStep

\* Where they lead to.
LEMMA HandlingPlaces ==
  ASSUME EnvInv, NEW c \in Calls, HandlingStep(c)
  PROVE  /\ Placed(c)'
         /\ pc'[c] \in AtService => cur'[c] \in todo'[c]
         /\ op[c] = "reset" /\ Active(c)' => todo'[c] = {cur'[c]}
         /\ pc'[c] = "deleting" => todo'[c] = {}
         /\ pc'[c] # "inserting"
         /\ Active(c)' => Active(c) /\ pc[c] # "inserting"
<1> USE EnvNoneAssumption
    DEF EnvInv, TypeOK, Goto, ServiceDone, argVars, Active, AtService, Placed, AllOps
<1>1. Placed(c) /\ Holds(c)
  OBVIOUS
<1>2. CASE \E e \in Engines : PickService(c, e)
  BY <1>1, <1>2 DEF PickService, Holds
<1>3. CASE CheckPort(c) \/ CheckOwner(c)
  BY <1>1, <1>3 DEF CheckPort, CheckOwner, Holds
<1>4. CASE EnsureVolume(c)
  BY <1>1, <1>4 DEF EnsureVolume, Holds
<1>5. CASE InspectContainer(c)
  BY <1>1, <1>5 DEF InspectContainer, Holds
<1>6. CASE CreateContainer(c)
  BY <1>1, <1>6 DEF CreateContainer, Holds
<1>7. CASE StartContainer(c)
  BY <1>1, <1>7 DEF StartContainer, Holds
<1>8. CASE InspectToStop(c)
  BY <1>1, <1>8 DEF InspectToStop, Holds
<1>9. CASE StopContainer(c)
  BY <1>1, <1>9 DEF StopContainer, Holds
<1>10. CASE InspectToRemove(c) \/ RemoveContainer(c) \/ RemoveVolume(c)
  BY <1>1, <1>10 DEF InspectToRemove, RemoveContainer, RemoveVolume, Holds
<1>11. CASE CheckStatus(c)
  BY <1>1, <1>11 DEF CheckStatus, Holds
<1>12. CASE DeleteRows(c)
  BY <1>1, <1>12 DEF DeleteRows, Holds
<1>13. CASE Abort(c)
  BY <1>1, <1>13 DEF Abort, Holds
<1> QED
  BY <1>2, <1>3, <1>4, <1>5, <1>6, <1>7, <1>8, <1>9, <1>10, <1>11, <1>12, <1>13
     DEF HandlingStep

LEMMA HandlingTypes ==
  ASSUME EnvInv, NEW c \in Calls, UNCHANGED patient, HandlingStep(c)
  PROVE  EnvInv'
<1>1. HandlingFrame(c)
  BY HandlingFrames
<1>2. TypeOK'
  BY <1>1 DEF HandlingFrame, EnvInv, TypeOK
<1>3. RowsHold'
  BY <1>1, FS_Subset DEF HandlingFrame, EnvInv, RowsHold
<1>4. ASSUME NEW d \in Calls
      PROVE  Placed(d)' /\ Holds(d)'
  <2>1. Placed(d) /\ Holds(d)
    BY DEF EnvInv
  <2>2. IsFiniteSet(taken'[d])
    BY <1>1, <2>1, FS_EmptySet DEF HandlingFrame, EnvInv, TypeOK, Holds
  <2>3. CASE d = c
    BY <1>1, <2>1, <2>2, <2>3, HandlingPlaces DEF HandlingFrame, Holds, Active
  <2>4. CASE d # c
    BY <1>1, <2>1, <2>2, <2>4 DEF HandlingFrame, Placed, Holds, Active
  <2> QED
    BY <2>3, <2>4
<1> QED
  BY <1>2, <1>3, <1>4 DEF EnvInv

LEMMA EnvStep == EnvInv /\ [Next]_vars => EnvInv'
<1> SUFFICES ASSUME EnvInv, [Next]_vars
             PROVE  EnvInv'
  OBVIOUS
<1>1. ASSUME UNCHANGED <<rowVars, dockerVars, argVars, pc, todo, cur, taken, patient>>,
             foreign' \subseteq ForeignPorts
      PROVE  EnvInv'
  BY <1>1 DEF EnvInv, TypeOK, RowsHold, Placed, Holds, Active, rowVars, dockerVars, argVars
<1>2. CASE UNCHANGED vars
  BY <1>1, <1>2 DEF vars, EnvInv, TypeOK
<1>3. CASE \E q \in ForeignPorts : (ForeignBinds(q) \/ ForeignReleases(q)) /\ UNCHANGED patient
  BY <1>1, <1>3 DEF ForeignBinds, ForeignReleases, EnvInv, TypeOK
<1>4. CASE \E c \in Calls : Call(c) /\ UNCHANGED patient
  BY <1>4, BeginTypes
<1>5. CASE \E c \in Calls : (Step(c) \/ Abort(c)) /\ UNCHANGED patient
  BY <1>5, InsertTypes, HandlingTypes DEF Step, HandlingStep
<1> QED
  BY <1>2, <1>3, <1>4, <1>5 DEF Next, Moves, Terminated

-----------------------------------------------------------------------------
(***************************************************************************)
(* ResetServiceVolume.  `stale` loses every reset of a volume that is      *)
(* removed, and a reset goes on only if it removed its own.                *)
(***************************************************************************)
LEMMA WipedStep == EnvInv /\ WipedInv /\ [Next]_vars => WipedInv'
<1> SUFFICES ASSUME EnvInv, WipedInv, [Next]_vars, NEW c \in Calls,
                    op'[c] = "reset",
                    pc'[c] \in {"volume", "inspect", "create", "boot", "done"}
             PROVE  c \notin stale'
  BY DEF WipedInv
<1> USE EnvNoneAssumption DEF AllOps
<1>1. Placed(c) /\ Holds(c)
  BY DEF EnvInv
<1>2. CASE UNCHANGED <<op[c], pc[c]>> /\ stale' \subseteq stale
  BY <1>2 DEF WipedInv
<1>3. CASE UNCHANGED vars
  BY <1>2, <1>3 DEF vars, dockerVars, argVars
<1>4. CASE \E q \in ForeignPorts : ForeignBinds(q) \/ ForeignReleases(q)
  BY <1>2, <1>4 DEF ForeignBinds, ForeignReleases, dockerVars, argVars
<1>5. ASSUME NEW d \in Calls, Call(d)
      PROVE  c \notin stale'
  <2>1. stale' \subseteq stale \cup {d}
    BY <1>5 DEF Call, StartOrStopBegin, DeleteBegin, ResetBegin, CreateBegin, DuplicateBegin
  <2>2. \E there \in {"next", "deleting", "stopping", "inserting"} :
          pc' = [pc EXCEPT ![d] = there]
    BY <1>5 DEF Call, StartOrStopBegin, DeleteBegin, ResetBegin, CreateBegin, DuplicateBegin
  <2>3. \E o \in Ops : op' = [op EXCEPT ![d] = o]
    BY <1>5 DEF Call, StartOrStopBegin, DeleteBegin, ResetBegin, CreateBegin, DuplicateBegin,
       Begin
  <2> QED
    BY <2>1, <2>2, <2>3 DEF EnvInv, TypeOK, WipedInv
<1>6. ASSUME NEW d \in Calls,
             \/ \E p \in Profiles : InsertProfile(d, p)
             \/ ReadUsedPorts(d)
             \/ \E e \in Engines : InsertService(d, e)
      PROVE  c \notin stale'
  BY <1>6, <1>1 DEF InsertProfile, ReadUsedPorts, InsertService, Goto, EnvInv, TypeOK,
     WipedInv, Placed, dockerVars, argVars
<1>7. ASSUME NEW d \in Calls, HandlingStep(d)
      PROVE  c \notin stale'
  <2>1. HandlingFrame(d)
    BY <1>7, HandlingFrames
  <2>2. CASE d # c
    BY <1>2, <2>1, <2>2 DEF HandlingFrame
  <2>3. CASE d = c /\ pc[c] \in {"volume", "inspect", "create", "boot", "done"}
    BY <2>1, <2>3 DEF HandlingFrame, WipedInv
  <2>4. CASE d = c /\ pc[c] \notin {"volume", "inspect", "create", "boot", "done"}
    <3>1. op[c] = "reset"
      BY <2>1 DEF HandlingFrame
    <3>2. RemoveVolume(c)
      BY <1>1, <1>7, <2>4, <3>1
         DEF HandlingStep, PickService, CheckPort, CheckOwner, EnsureVolume, InspectContainer,
             CreateContainer, StartContainer, InspectToStop, StopContainer, InspectToRemove,
             RemoveContainer, CheckStatus, DeleteRows, Abort, Goto, Placed, EnvInv, TypeOK
    <3> QED
      BY <3>2 DEF RemoveVolume, Goto, EnvInv, TypeOK
  <2> QED
    BY <2>2, <2>3, <2>4
<1> QED
  BY <1>3, <1>4, <1>5, <1>6, <1>7 DEF Next, Moves, Terminated, Step, HandlingStep

\* Every reachable state of the environments is well typed.
THEOREM EnvironmentsTypeCorrect == Spec => []TypeOK
<1>1. EnvInv => TypeOK
  BY DEF EnvInv
<1> QED
  BY <1>1, EnvInit, EnvStep, PTL DEF Spec

\* A ResetServiceVolume that returns without an error has erased the data it
\* found, whatever other calls do to the service at the same time.
THEOREM ResetErases == Spec => []ResetErasesData
<1>1. Init => WipedInv
  BY EnvNoneAssumption DEF Init, WipedInv, AllOps
<1>2. WipedInv => ResetErasesData
  BY DEF WipedInv, ResetErasesData
<1> QED
  BY <1>1, <1>2, EnvInit, EnvStep, WipedStep, PTL DEF Spec

-----------------------------------------------------------------------------
(***************************************************************************)
(* The patient user's calls keep apart.                                    *)
(***************************************************************************)

\* Every step that is not a begin or the insert of a profile leaves the calls'
\* arguments alone, and wakes no call.
InsertStep(c) == ReadUsedPorts(c) \/ \E e \in Engines : InsertService(c, e)

LEMMA ArgumentsKept ==
  ASSUME EnvInv, NEW c \in Calls, HandlingStep(c) \/ InsertStep(c)
  PROVE  /\ UNCHANGED <<op, prof, src, issued>>
         /\ \A d \in Calls : Active(d)' => Active(d)
         /\ Active(c)
<1>1. CASE HandlingStep(c)
  <2>1. HandlingFrame(c) /\ (Active(c)' => Active(c))
    BY <1>1, HandlingFrames, HandlingPlaces
  <2>2. Active(c)
    BY <1>1 DEF HandlingStep, PickService, CheckPort, CheckOwner, EnsureVolume,
       InspectContainer, CreateContainer, StartContainer, InspectToStop, StopContainer,
       InspectToRemove, RemoveContainer, RemoveVolume, CheckStatus, DeleteRows, Abort,
       Goto, Active
  <2> QED
    BY <2>1, <2>2 DEF HandlingFrame, Active
<1>2. CASE InsertStep(c)
  BY <1>2 DEF InsertStep, ReadUsedPorts, InsertService, Goto, Active, argVars, rowVars,
     EnvInv, TypeOK
<1> QED
  BY <1>1, <1>2

\* The calls begin one at a time on a profile, and a new profile is nobody's.
LEMMA BeginAlone ==
  ASSUME EnvInv, NEW c \in Calls, Call(c), patient
  PROVE  /\ ~Active(c) /\ Active(c)'
         /\ \A d \in Calls \ {c} : UNCHANGED <<op[d], pc[d], prof[d], src[d]>>
         /\ \A d \in Calls \ {c}, p \in Profiles :
               Active(d) /\ Touches(c, p)' => ~Touches(d, p)
         /\ op'[c] = "create" => ~Creating
<1> USE EnvNoneAssumption DEF AllOps
<1>1. PICK o \in AllOps, p \in Profiles \cup {None}, from \in Profiles \cup {None},
           there \in {"next", "deleting", "stopping", "inserting"} :
        /\ pc[c] = "idle"
        /\ pc' = [pc EXCEPT ![c] = there]
        /\ op' = [op EXCEPT ![c] = o]
        /\ prof' = [prof EXCEPT ![c] = p]
        /\ src' = [src EXCEPT ![c] = from]
        /\ p # None => Alone(p)
        /\ from # None => Alone(from)
        /\ o = "create" => ~Creating
  <2>1. CASE \E o \in Ops, p \in Profiles : StartOrStopBegin(c, o, p)
    BY <2>1 DEF StartOrStopBegin, Begin
  <2>2. CASE \E p \in Profiles : DeleteBegin(c, p)
    BY <2>2 DEF DeleteBegin, Begin
  <2>3. CASE \E p \in Profiles, e \in Engines : ResetBegin(c, p, e)
    BY <2>3 DEF ResetBegin, Begin
  <2>4. CASE \E engines \in SUBSET Engines : CreateBegin(c, engines)
    BY <2>4 DEF CreateBegin, Begin
  <2>5. CASE \E p \in Profiles : DuplicateBegin(c, p)
    BY <2>5 DEF DuplicateBegin, Begin
  <2> QED
    BY <2>1, <2>2, <2>3, <2>4, <2>5 DEF Call
<1> QED
  BY <1>1 DEF EnvInv, TypeOK, Active, Alone, Touches

LEMMA ExclusiveStep ==
  ASSUME EnvInv, patient, Exclusive, [Next]_vars
  PROVE  Exclusive'
<1>1. ASSUME UNCHANGED <<op, prof, src>>, \A d \in Calls : Active(d)' => Active(d)
      PROVE  Exclusive'
  BY <1>1 DEF Exclusive, Touches
<1>2. CASE UNCHANGED vars
  BY <1>1, <1>2 DEF vars, argVars, Active
<1>3. CASE \E q \in ForeignPorts : ForeignBinds(q) \/ ForeignReleases(q)
  BY <1>1, <1>3 DEF ForeignBinds, ForeignReleases, argVars, Active
<1>4. ASSUME NEW c \in Calls, HandlingStep(c) \/ InsertStep(c)
      PROVE  Exclusive'
  BY <1>1, <1>4, ArgumentsKept
<1>5. ASSUME NEW c \in Calls, Call(c)
      PROVE  Exclusive'
  BY <1>5, BeginAlone DEF Exclusive, Touches, Active, Creating
<1>6. ASSUME NEW c \in Calls, NEW p \in Profiles, InsertProfile(c, p)
      PROVE  Exclusive'
  <2>1. \A d \in Calls : prof[d] # p /\ src[d] # p
    BY <1>6, EnvNoneAssumption DEF InsertProfile, EnvInv, Holds
  <2>2. /\ op' = op /\ src' = src /\ Active(c)
        /\ prof' = [prof EXCEPT ![c] = p]
        /\ \A d \in Calls : Active(d)' => Active(d)
    BY <1>6 DEF InsertProfile, EnvInv, TypeOK, Active
  <2> QED
    BY <2>1, <2>2 DEF Exclusive, Touches, EnvInv, TypeOK
<1> QED
  BY <1>2, <1>3, <1>4, <1>5, <1>6
     DEF Next, Moves, Terminated, Step, HandlingStep, InsertStep

-----------------------------------------------------------------------------
(***************************************************************************)
(* CreateProfile's ports.                                                  *)
(***************************************************************************)

\* The service that a duplication copies next is not deleted: no DeleteProfile
\* of the patient user runs beside it.
LEMMA OriginalsStep ==
  ASSUME EnvInv, Exclusive, OriginalsThere, [Next]_vars, UNCHANGED patient
  PROVE  OriginalsThere'
<1> USE EnvNoneAssumption DEF AllOps, EnvInv, TypeOK
<1>1. ASSUME services \subseteq services',
             \A d \in Calls : op'[d] = "duplicate" /\ Active(d)' =>
                /\ op[d] = "duplicate" /\ Active(d)
                /\ src'[d] = src[d] /\ todo'[d] \subseteq todo[d]
      PROVE  OriginalsThere'
  BY <1>1 DEF OriginalsThere
<1>2. CASE UNCHANGED vars
  BY <1>1, <1>2 DEF vars, rowVars, argVars, Active
<1>3. CASE \E q \in ForeignPorts : ForeignBinds(q) \/ ForeignReleases(q)
  BY <1>1, <1>3 DEF ForeignBinds, ForeignReleases, rowVars, argVars, Active
<1>4. ASSUME NEW c \in Calls, DeleteRows(c)
      PROVE  OriginalsThere'
  <2>1. Placed(c) /\ Holds(c)
    OBVIOUS
  <2>2. /\ op[c] = "delete" /\ Active(c) /\ prof[c] \in Profiles
        /\ pc' = [pc EXCEPT ![c] = IF prof[c] \in profiles THEN "done" ELSE "failed"]
        /\ services' = {s \in services : s[1] # prof[c]}
        /\ UNCHANGED <<op, src, todo>>
    BY <1>4, <2>1 DEF DeleteRows, Goto, Placed, Holds, Active, argVars
  <2>3. SUFFICES ASSUME NEW d \in Calls, op'[d] = "duplicate", Active(d)',
                        NEW e \in todo'[d]
                 PROVE  <<src'[d], e>> \in services'
    BY DEF OriginalsThere
  <2>4. d # c /\ op[d] = "duplicate" /\ Active(d) /\ e \in todo[d]
    BY <2>2, <2>3 DEF Active
  <2>5. src[d] # prof[c]
    BY <2>2, <2>4 DEF Exclusive, Touches
  <2>6. <<src[d], e>> \in services
    BY <2>4 DEF OriginalsThere
  <2> QED
    BY <2>2, <2>5, <2>6
<1>5. ASSUME NEW c \in Calls, HandlingStep(c), ~DeleteRows(c)
      PROVE  OriginalsThere'
  <2>1. services' = services
    BY <1>5 DEF HandlingStep, PickService, CheckPort, CheckOwner, EnsureVolume,
       InspectContainer, CreateContainer, StartContainer, InspectToStop, StopContainer,
       InspectToRemove, RemoveContainer, RemoveVolume, CheckStatus, Abort, rowVars
  <2>2. op[c] = "duplicate" => pc'[c] = "failed"
    BY <1>5 DEF HandlingStep, PickService, CheckPort, CheckOwner, EnsureVolume,
       InspectContainer, CreateContainer, StartContainer, InspectToStop, StopContainer,
       InspectToRemove, RemoveContainer, RemoveVolume, CheckStatus, Abort, Goto, Placed
  <2>3. /\ UNCHANGED <<op, src>>
        /\ \A d \in Calls \ {c} : UNCHANGED <<pc[d], todo[d]>>
    BY <1>5 DEF HandlingStep, PickService, CheckPort, CheckOwner, EnsureVolume,
       InspectContainer, CreateContainer, StartContainer, InspectToStop, StopContainer,
       InspectToRemove, RemoveContainer, RemoveVolume, CheckStatus, Abort, Goto,
       ServiceDone, argVars
  <2> QED
    BY <1>1, <2>1, <2>2, <2>3 DEF Active
<1>6. ASSUME NEW c \in Calls, Call(c)
      PROVE  OriginalsThere'
  <2>1. services' = services
    BY <1>6 DEF Call, StartOrStopBegin, DeleteBegin, ResetBegin, CreateBegin,
       DuplicateBegin, Begin, rowVars
  <2>2. \A d \in Calls \ {c} : UNCHANGED <<op[d], pc[d], src[d], todo[d]>>
    BY <1>6 DEF Call, StartOrStopBegin, DeleteBegin, ResetBegin, CreateBegin,
       DuplicateBegin, Begin
  <2>3. op'[c] = "duplicate" => \E p \in Profiles : src'[c] = p /\ todo'[c] = EnginesOf(p)
    BY <1>6 DEF Call, StartOrStopBegin, DeleteBegin, ResetBegin, CreateBegin,
       DuplicateBegin, Begin
  <2> QED
    BY <2>1, <2>2, <2>3 DEF OriginalsThere, EnginesOf, Active
<1>7. ASSUME NEW c \in Calls, NEW p \in Profiles, InsertProfile(c, p)
      PROVE  OriginalsThere'
  BY <1>1, <1>7 DEF InsertProfile, Active
<1>8. ASSUME NEW c \in Calls, ReadUsedPorts(c)
      PROVE  OriginalsThere'
  BY <1>1, <1>8 DEF ReadUsedPorts, Goto, rowVars, argVars, Active
<1>9. ASSUME NEW c \in Calls, NEW e \in Engines, InsertService(c, e)
      PROVE  OriginalsThere'
  BY <1>1, <1>9 DEF InsertService, argVars, Active
<1> QED
  BY <1>2, <1>3, <1>4, <1>5, <1>6, <1>7, <1>8, <1>9
     DEF Next, Moves, Terminated, Step, HandlingStep

\* What the insert of a service adds is a port no other service has, or the port
\* of the service it copies.
LEMMA InsertServicePorts ==
  ASSUME EnvInv, Exclusive, PortsKnown, OriginalsThere, CreatedPortsDistinct, patient,
         [Next]_vars, NEW c \in Calls, NEW e \in Engines, InsertService(c, e),
         UNCHANGED patient
  PROVE  PortsKnown' /\ CreatedPortsDistinct'
<1> USE DEF EnvInv, TypeOK
<1> DEFINE new == <<prof[c], e>>
<1> DEFINE old == <<src[c], e>>
<1> DEFINE port == PortFor(c, e)
<1> DEFINE from == IF op[c] = "create" THEN new ELSE origin[old]
<1>1. /\ pc[c] = "next" /\ op[c] \in {"create", "duplicate"}
      /\ services' = services \cup {new}
      /\ hostPort' = [hostPort EXCEPT ![new] = port]
      /\ origin' = [origin EXCEPT ![new] = from]
      /\ taken' = [taken EXCEPT ![c] = IF todo[c] = {e} THEN {} ELSE @ \cup {port}]
      /\ pc' = [pc EXCEPT ![c] = IF todo[c] = {e} THEN "done" ELSE "next"]
      /\ UNCHANGED <<op, prof>>
  BY DEF InsertService, argVars
<1>2. new \in Svc /\ services \subseteq Svc
  BY DEF Svc, InsertService
<1>3. op[c] = "create" => port \notin taken[c]
  BY FirstFreeIsFree, EnvPortsAssumption DEF PortFor, Holds
<1>4. op[c] = "duplicate" => old \in services /\ port = hostPort[old] /\ from = origin[old]
  BY <1>1 DEF InsertService, OriginalsThere, Active, PortFor
<1> HIDE DEF new, port, old, from
<1>5. /\ hostPort'[new] = port /\ origin'[new] = from
      /\ \A s \in Svc \ {new} : hostPort'[s] = hostPort[s] /\ origin'[s] = origin[s]
  BY <1>1, <1>2
<1>6. PortsKnown'
  <2> SUFFICES ASSUME NEW d \in Calls, op'[d] = "create", pc'[d] = "next",
                      NEW s \in services'
               PROVE  hostPort'[s] \in taken'[d]
    BY DEF PortsKnown
  <2>1. op[d] = "create" /\ pc[d] = "next" /\ Active(d) /\ Active(c)
    BY <1>1 DEF Active
  <2>2. \A t \in services : hostPort[t] \in taken[d]
    BY <2>1 DEF PortsKnown
  <2>3. CASE op[c] = "create"
    <3>1. d = c
      BY <2>1, <2>3 DEF Exclusive
    <3>2. taken'[c] = taken[c] \cup {port}
      BY <1>1, <3>1
    <3> QED
      BY <1>1, <1>2, <1>5, <2>2, <3>1, <3>2
  <2>4. CASE op[c] = "duplicate"
    <3>1. d # c /\ taken'[d] = taken[d]
      BY <1>1, <2>1, <2>4
    <3> QED
      BY <1>1, <1>2, <1>4, <1>5, <2>2, <2>4, <3>1
  <2> QED
    BY <1>1, <2>3, <2>4
<1>7. CreatedPortsDistinct'
  <2>1. \A s \in services : hostPort[s] = port => origin[s] = from
    <3>1. CASE op[c] = "create"
      BY <1>1, <1>3, <3>1 DEF PortsKnown
    <3>2. CASE op[c] = "duplicate"
      BY <1>4, <3>2 DEF CreatedPortsDistinct
    <3> QED
      BY <1>1, <3>1, <3>2
  <2>2. \A s \in services : s # new => hostPort'[s] = hostPort[s] /\ origin'[s] = origin[s]
    BY <1>2, <1>5
  <2> QED
    BY <1>1, <1>5, <2>1, <2>2 DEF CreatedPortsDistinct
<1> QED
  BY <1>6, <1>7

LEMMA PortsStep ==
  ASSUME EnvInv, Exclusive, PortsKnown, OriginalsThere, CreatedPortsDistinct, patient,
         [Next]_vars, UNCHANGED patient
  PROVE  PortsKnown' /\ CreatedPortsDistinct'
<1> USE EnvNoneAssumption DEF AllOps
<1>2. ASSUME services' \subseteq services, UNCHANGED <<hostPort, origin>>
      PROVE  CreatedPortsDistinct'
  BY <1>2 DEF CreatedPortsDistinct
<1>3. ASSUME services' \subseteq services, hostPort' = hostPort,
             \A d \in Calls : op'[d] = "create" /\ pc'[d] = "next" =>
                op[d] = "create" /\ pc[d] = "next" /\ taken'[d] = taken[d]
      PROVE  PortsKnown'
  BY <1>3 DEF PortsKnown
<1>4. CASE UNCHANGED vars
  BY <1>2, <1>3, <1>4 DEF vars, rowVars, argVars
<1>5. CASE \E q \in ForeignPorts : ForeignBinds(q) \/ ForeignReleases(q)
  BY <1>2, <1>3, <1>5 DEF ForeignBinds, ForeignReleases, rowVars, argVars
<1>6. ASSUME NEW c \in Calls, HandlingStep(c)
      PROVE  PortsKnown' /\ CreatedPortsDistinct'
  <2>1. HandlingFrame(c)
    BY <1>6, HandlingFrames
  <2>2. op[c] = "create" => pc'[c] = "failed"
    BY <1>6 DEF HandlingStep, PickService, CheckPort, CheckOwner, EnsureVolume,
       InspectContainer, CreateContainer, StartContainer, InspectToStop, StopContainer,
       InspectToRemove, RemoveContainer, RemoveVolume, CheckStatus, DeleteRows, Abort,
       Goto, EnvInv, TypeOK, Placed
  <2>3. \A d \in Calls : op'[d] = "create" /\ pc'[d] = "next" =>
           op[d] = "create" /\ pc[d] = "next" /\ taken'[d] = taken[d]
    BY <2>1, <2>2 DEF HandlingFrame, EnvInv, TypeOK
  <2> QED
    BY <1>2, <1>3, <2>1, <2>3 DEF HandlingFrame
<1>7. ASSUME NEW c \in Calls, Call(c)
      PROVE  PortsKnown' /\ CreatedPortsDistinct'
  <2>1. UNCHANGED <<services, hostPort, origin, taken>>
    BY <1>7 DEF Call, StartOrStopBegin, DeleteBegin, ResetBegin, CreateBegin,
       DuplicateBegin, Begin, rowVars
  <2>2. op'[c] = "create" => pc'[c] # "next"
    BY <1>7 DEF Call, StartOrStopBegin, DeleteBegin, ResetBegin, CreateBegin,
       DuplicateBegin, Begin, EnvInv, TypeOK
  <2>3. \A d \in Calls \ {c} : UNCHANGED <<op[d], pc[d]>>
    BY <1>7, BeginAlone
  <2> QED
    BY <1>2, <1>3, <2>1, <2>2, <2>3
<1>8. ASSUME NEW c \in Calls, NEW p \in Profiles, InsertProfile(c, p)
      PROVE  PortsKnown' /\ CreatedPortsDistinct'
  <2>1. \A d \in Calls : op'[d] = "create" /\ pc'[d] = "next" =>
           op[d] = "create" /\ pc[d] = "next" /\ taken'[d] = taken[d]
    BY <1>8 DEF InsertProfile, EnvInv, TypeOK
  <2> QED
    BY <1>2, <1>3, <1>8, <2>1 DEF InsertProfile
<1>9. ASSUME NEW c \in Calls, ReadUsedPorts(c)
      PROVE  PortsKnown' /\ CreatedPortsDistinct'
  <2>1. CreatedPortsDistinct'
    BY <1>2, <1>9 DEF ReadUsedPorts, rowVars
  <2>2. PortsKnown'
    BY <1>9 DEF ReadUsedPorts, Goto, rowVars, argVars, PortsKnown, EnvInv, TypeOK
  <2> QED
    BY <2>1, <2>2
<1> QED
  BY <1>4, <1>5, <1>6, <1>7, <1>8, <1>9, InsertServicePorts
     DEF Next, Moves, Terminated, Step, HandlingStep

-----------------------------------------------------------------------------
(***************************************************************************)
(* Starts, stops and deletes.                                              *)
(***************************************************************************)
\* A step of a call leaves the services of other profiles alone.
LEMMA OthersServices ==
  ASSUME EnvInv, NEW c \in Calls, HandlingStep(c) \/ InsertStep(c),
         NEW s \in Svc, s[1] # prof[c]
  PROVE  container'[s] = container[s] /\ (s \in services' <=> s \in services)
<1> USE DEF EnvInv, TypeOK, rowVars, dockerVars
<1>1. s # This(c) /\ \A e \in Engines : s # <<prof[c], e>>
  BY DEF This
<1>2. CASE InsertStep(c)
  BY <1>1, <1>2 DEF InsertStep, ReadUsedPorts, InsertService
<1>3. CASE DeleteRows(c)
  BY <1>3 DEF DeleteRows
<1>4. CASE UNCHANGED <<container, services>>
  BY <1>4
<1>5. CASE \/ \E e \in Engines : PickService(c, e)
           \/ CheckPort(c) \/ CheckOwner(c) \/ EnsureVolume(c) \/ InspectContainer(c)
           \/ InspectToStop(c) \/ InspectToRemove(c) \/ RemoveVolume(c) \/ CheckStatus(c)
           \/ Abort(c)
  BY <1>4, <1>5 DEF PickService, CheckPort, CheckOwner, EnsureVolume, InspectContainer,
     InspectToStop, InspectToRemove, RemoveVolume, CheckStatus, Abort
<1>6. CASE CreateContainer(c) \/ StartContainer(c) \/ StopContainer(c) \/ RemoveContainer(c)
  BY <1>1, <1>6 DEF CreateContainer, StartContainer, StopContainer, RemoveContainer
<1> QED
  BY <1>2, <1>3, <1>5, <1>6 DEF HandlingStep

\* What a call has handled is as it left it: a service leaves its list when its
\* container was seen, or made, to be in the wanted state.
LEMMA OwnServices ==
  ASSUME EnvInv, NEW c \in Calls, HandlingStep(c), op[c] \in Handlers, Handled(c),
         pc'[c] # "failed"
  PROVE  /\ todo'[c] \subseteq todo[c]
         /\ \A e \in EnginesOf(prof[c]) \ todo'[c] :
               /\ op[c] = "start" => container'[<<prof[c], e>>] = "running"
               /\ op[c] \in {"stop", "delete"} => container'[<<prof[c], e>>] # "running"
         /\ pc'[c] = "done" /\ op[c] \in {"start", "stop"} => todo'[c] = {}
<1> USE DEF EnvInv, TypeOK, Handlers
<1>1. Placed(c) /\ Holds(c)
  OBVIOUS
<1>2. \A e \in EnginesOf(prof[c]) : <<prof[c], e>> \in Svc
  BY DEF EnginesOf
<1>3. \A e \in EnginesOf(prof[c]) : e # cur[c] => <<prof[c], e>> # This(c)
  BY DEF This
<1>4. CASE \E e \in Engines : PickService(c, e)
  BY <1>4 DEF PickService, Goto, dockerVars, Handled
<1>5. CASE CheckPort(c) \/ CheckOwner(c)
  BY <1>5 DEF CheckPort, CheckOwner, Goto, dockerVars, Handled
<1>6. CASE EnsureVolume(c)
  BY <1>6 DEF EnsureVolume, Goto, Handled
<1>7. CASE InspectContainer(c)
  BY <1>1, <1>7 DEF InspectContainer, ServiceDone, dockerVars, Handled, This, Placed
<1>8. CASE CreateContainer(c)
  BY <1>1, <1>2, <1>3, <1>8 DEF CreateContainer, Handled, Placed, Holds, AtService
<1>9. CASE StartContainer(c)
  <2>1. op[c] \in {"start", "reset"} /\ <<prof[c], cur[c]>> = This(c)
    BY <1>1, <1>9 DEF StartContainer, Placed, This
  <2>2. ServiceDone(c, "done")
    BY <1>9 DEF StartContainer
  <2>3. /\ cur[c] \in Engines => container'[This(c)] = "running"
        /\ \A e \in EnginesOf(prof[c]) : e # cur[c] =>
              container'[<<prof[c], e>>] = container[<<prof[c], e>>]
    <3>1. This(c) \in Svc
      BY <1>1, <1>9 DEF StartContainer, Holds, Placed, Active, AtService, This, Svc
    <3> QED
      BY <1>2, <1>3, <1>9, <3>1 DEF StartContainer
  <2> HIDE DEF TypeOK, EnvInv
  <2>4. todo'[c] = todo[c] \ {cur[c]} /\ (pc'[c] = "done" => todo'[c] = {})
    BY <2>2 DEF ServiceDone, EnvInv, TypeOK
  <2> QED
    BY <2>1, <2>3, <2>4 DEF Handled, EnginesOf
<1>10. CASE InspectToStop(c)
  BY <1>1, <1>10 DEF InspectToStop, ServiceDone, dockerVars, Handled, This, Placed
<1>11. CASE StopContainer(c)
  BY <1>1, <1>2, <1>3, <1>11 DEF StopContainer, ServiceDone, Handled, This, Placed
<1>12. CASE InspectToRemove(c) \/ RemoveContainer(c) \/ RemoveVolume(c)
  BY <1>1, <1>12 DEF InspectToRemove, RemoveContainer, RemoveVolume, Goto, dockerVars,
     Handled, Placed
<1>13. CASE CheckStatus(c)
  BY <1>1, <1>13 DEF CheckStatus, ServiceDone, dockerVars, Handled, This, Placed
<1>14. CASE DeleteRows(c)
  BY <1>1, <1>14 DEF DeleteRows, Goto, dockerVars, Handled, Placed
<1>15. CASE Abort(c)
  BY <1>15 DEF Abort
<1> QED
  BY <1>4, <1>5, <1>6, <1>7, <1>8, <1>9, <1>10, <1>11, <1>12, <1>13, <1>14, <1>15
     DEF HandlingStep

LEMMA HandledStep ==
  ASSUME EnvInv, Exclusive, HandledInv, patient, [Next]_vars
  PROVE  HandledInv'
<1> USE EnvNoneAssumption DEF AllOps
<1> SUFFICES ASSUME NEW d \in Calls, Active(d)', op'[d] \in Handlers
             PROVE  Handled(d)'
  BY DEF HandledInv
<1>1. ASSUME UNCHANGED <<op[d], prof[d], todo[d], container, services>>, Active(d)
      PROVE  Handled(d)'
  BY <1>1 DEF HandledInv, Handled, EnginesOf
<1>2. CASE UNCHANGED vars
  BY <1>1, <1>2 DEF vars, rowVars, dockerVars, argVars, Active
<1>3. CASE \E q \in ForeignPorts : ForeignBinds(q) \/ ForeignReleases(q)
  BY <1>1, <1>3 DEF ForeignBinds, ForeignReleases, rowVars, dockerVars, argVars, Active
<1>4. ASSUME NEW c \in Calls, HandlingStep(c) \/ InsertStep(c), c # d
      PROVE  Handled(d)'
  <2>1. Active(c) /\ Active(d) /\ UNCHANGED <<op, prof>>
    BY <1>4, ArgumentsKept
  <2>2. todo'[d] = todo[d]
    <3>1. CASE HandlingStep(c)
      BY <1>4, <3>1, HandlingFrames DEF HandlingFrame
    <3>2. CASE InsertStep(c)
      BY <1>4, <3>2 DEF InsertStep, ReadUsedPorts, InsertService, EnvInv, TypeOK
    <3> QED
      BY <1>4, <3>1, <3>2
  <2>3. prof[d] \in Profiles /\ prof[d] # prof[c]
    BY <1>4, <2>1 DEF Exclusive, Touches, EnvInv, TypeOK, Holds, Placed, Handlers
  <2>4. \A e \in Engines : <<prof[d], e>> \in Svc /\ <<prof[d], e>>[1] # prof[c]
    BY <2>3 DEF Svc
  <2>5. \A e \in Engines :
           /\ container'[<<prof[d], e>>] = container[<<prof[d], e>>]
           /\ <<prof[d], e>> \in services' <=> <<prof[d], e>> \in services
    BY <1>4, <2>4, OthersServices
  <2>6. Handled(d)
    BY <2>1 DEF HandledInv
  <2> QED
    BY <2>1, <2>2, <2>5, <2>6 DEF Handled, EnginesOf
<1>5. ASSUME HandlingStep(d)
      PROVE  Handled(d)'
  <2>1. Active(d) /\ UNCHANGED <<op, prof>>
    BY <1>5, ArgumentsKept
  <2>2. Handled(d) /\ pc'[d] # "failed"
    BY <2>1 DEF HandledInv, Active
  <2>3. services' = services
    BY <1>5, <2>2 DEF HandlingStep, PickService, CheckPort, CheckOwner, EnsureVolume,
       InspectContainer, CreateContainer, StartContainer, InspectToStop, StopContainer,
       InspectToRemove, RemoveContainer, RemoveVolume, CheckStatus, DeleteRows, Abort,
       Goto, rowVars, Active, EnvInv, TypeOK
  <2> QED
    BY <1>5, <2>1, <2>2, <2>3, OwnServices DEF Handled, EnginesOf
<1>6. ~InsertStep(d)
  BY ArgumentsKept DEF InsertStep, ReadUsedPorts, InsertService, Goto, Handlers, EnvInv, Placed
<1>7. ASSUME NEW c \in Calls, Call(c)
      PROVE  Handled(d)'
  <2>1. UNCHANGED <<container, services>>
    BY <1>7 DEF Call, StartOrStopBegin, DeleteBegin, ResetBegin, CreateBegin,
       DuplicateBegin, Begin, rowVars
  <2>2. CASE c # d
    <3>1. PICK o, p, from, engines : Begin(c, o, p, from, engines) /\ \E x : pc' = [pc EXCEPT ![c] = x]
      BY <1>7 DEF Call, StartOrStopBegin, DeleteBegin, ResetBegin, CreateBegin, DuplicateBegin
    <3>2. UNCHANGED <<op[d], prof[d], todo[d], pc[d]>>
      BY <2>2, <3>1 DEF Begin, EnvInv, TypeOK
    <3> QED
      BY <1>1, <2>1, <3>2 DEF Active
  <2>3. CASE c = d
    <3>1. \/ todo'[c] = EnginesOf(prof'[c])
          \/ op'[c] = "reset" /\ todo'[c] \subseteq EnginesOf(prof'[c])
      <4> USE <1>7, <2>3 DEF EnvInv, TypeOK, Handlers, Begin
      <4>1. CASE \E o \in Ops, p \in Profiles : StartOrStopBegin(c, o, p)
        BY <4>1 DEF StartOrStopBegin
      <4>2. CASE \E p \in Profiles : DeleteBegin(c, p)
        BY <4>2 DEF DeleteBegin
      <4>3. CASE \E p \in Profiles, e \in Engines : ResetBegin(c, p, e)
        BY <4>3 DEF ResetBegin
      <4>4. CASE \E engines \in SUBSET Engines : CreateBegin(c, engines)
        BY <4>4 DEF CreateBegin
      <4>5. CASE \E p \in Profiles : DuplicateBegin(c, p)
        BY <4>5 DEF DuplicateBegin
      <4> QED
        BY <4>1, <4>2, <4>3, <4>4, <4>5 DEF Call
    <3>2. \A p : EnginesOf(p)' = EnginesOf(p)
      BY <2>1 DEF EnginesOf
    <3> QED
      BY <2>3, <3>1, <3>2 DEF Handled
  <2> QED
    BY <2>2, <2>3
<1>8. ASSUME NEW c \in Calls, NEW p \in Profiles, InsertProfile(c, p)
      PROVE  Handled(d)'
  <2>1. c # d
    BY <1>8 DEF InsertProfile, EnvInv, Placed, Handlers
  <2> QED
    BY <1>1, <1>8, <2>1 DEF InsertProfile, dockerVars, EnvInv, TypeOK, Active
<1> QED
  BY <1>2, <1>3, <1>4, <1>5, <1>6, <1>7, <1>8
     DEF Next, Moves, Terminated, Step, HandlingStep, InsertStep

\* A container is started only for a row in the call's list, and rows go only
\* when none of their containers runs.
LEMMA OrphanStep ==
  ASSUME EnvInv, Exclusive, HandledInv, NoOrphanedContainer, patient, [Next]_vars
  PROVE  NoOrphanedContainer'
<1> USE EnvNoneAssumption DEF AllOps
<1>1. ASSUME container' = container, services \subseteq services'
      PROVE  NoOrphanedContainer'
  BY <1>1 DEF NoOrphanedContainer
<1>2. CASE UNCHANGED vars
  BY <1>1, <1>2 DEF vars, rowVars, dockerVars
<1>3. CASE \E q \in ForeignPorts : ForeignBinds(q) \/ ForeignReleases(q)
  BY <1>1, <1>3 DEF ForeignBinds, ForeignReleases, rowVars, dockerVars
<1>4. ASSUME NEW c \in Calls,
             \/ Call(c)
             \/ \E p \in Profiles : InsertProfile(c, p)
             \/ InsertStep(c)
      PROVE  NoOrphanedContainer'
  BY <1>1, <1>4 DEF Call, StartOrStopBegin, DeleteBegin, ResetBegin, CreateBegin,
     DuplicateBegin, Begin, InsertProfile, InsertStep, ReadUsedPorts, InsertService,
     rowVars, dockerVars
<1>5. ASSUME NEW c \in Calls, HandlingStep(c)
      PROVE  NoOrphanedContainer'
  <2>1. Placed(c) /\ Holds(c) /\ Active(c)
    BY <1>5, ArgumentsKept DEF EnvInv
  <2>2. CASE StartContainer(c)
    <3>1. Handled(c) /\ cur[c] \in todo[c]
      BY <2>1, <2>2 DEF StartContainer, HandledInv, Handlers, Placed, Holds, AtService
    <3>2. This(c) \in services
      BY <3>1 DEF Handled, EnginesOf, This
    <3> QED
      BY <2>2, <3>2 DEF StartContainer, ServiceDone, rowVars, NoOrphanedContainer,
         EnvInv, TypeOK
  <2>3. CASE DeleteRows(c)
    <3>1. Handled(c) /\ todo[c] = {} /\ op[c] = "delete"
      BY <2>1, <2>3 DEF DeleteRows, Goto, HandledInv, Handlers, Placed, Holds
    <3>2. \A s \in services : s[1] = prof[c] => container[s] # "running"
      <4>1. \A s \in services : s[1] = prof[c] =>
               s[2] \in EnginesOf(prof[c]) /\ s = <<prof[c], s[2]>>
        BY DEF EnginesOf, EnvInv, TypeOK, Svc
      <4> QED
        BY <3>1, <4>1 DEF Handled
    <3> QED
      BY <2>3, <3>2 DEF DeleteRows, dockerVars, NoOrphanedContainer
  <2>4. CASE \/ \E e \in Engines : PickService(c, e)
             \/ CheckPort(c) \/ CheckOwner(c) \/ EnsureVolume(c) \/ InspectContainer(c)
             \/ InspectToStop(c) \/ InspectToRemove(c) \/ RemoveVolume(c) \/ CheckStatus(c)
             \/ Abort(c)
    BY <1>1, <2>4 DEF PickService, CheckPort, CheckOwner, EnsureVolume, InspectContainer,
       InspectToStop, InspectToRemove, RemoveVolume, CheckStatus, Abort, rowVars, dockerVars
  <2>5. CASE CreateContainer(c) \/ StopContainer(c) \/ RemoveContainer(c)
    <3>1. services' = services /\ \A s \in Svc : container'[s] = "running"
                                                 => container[s] = "running"
      BY <2>5 DEF CreateContainer, StopContainer, RemoveContainer, rowVars, EnvInv, TypeOK
    <3> QED
      BY <3>1 DEF NoOrphanedContainer
  <2> QED
    BY <1>5, <2>2, <2>3, <2>4, <2>5 DEF HandlingStep
<1> QED
  BY <1>2, <1>3, <1>4, <1>5
     DEF Next, Moves, Terminated, Step, HandlingStep, InsertStep

-----------------------------------------------------------------------------
(* The results. *)

LEMMA PatientInit == Init => PatientInv
  BY EnvNoneAssumption
     DEF Init, PatientInv, Exclusive, PortsKnown, OriginalsThere, HandledInv,
         NoOrphanedContainer, CreatedPortsDistinct, Active, AllOps

LEMMA PatientStep == EnvInv /\ PatientInv /\ [Next]_vars => PatientInv'
<1> SUFFICES ASSUME EnvInv, PatientInv, [Next]_vars, patient'
             PROVE  PatientInv'
  BY DEF PatientInv
<1>1. UNCHANGED patient
  BY DEF Next, Terminated, vars
<1> QED
  BY <1>1, ExclusiveStep, PortsStep, OriginalsStep, HandledStep, OrphanStep DEF PatientInv

\* For a user who waits for the calls on a profile, however each of them fails:
\* no container runs whose rows are gone, since DeleteProfile's guard looked at
\* every one of them and nothing started one in between.
THEOREM PatientDelete == Spec => []PatientDeleteLeavesNothing
<1>1. EnvInv /\ PatientInv => PatientDeleteLeavesNothing
  BY DEF EnvInv, PatientInv, PatientDeleteLeavesNothing
<1> QED
  BY <1>1, EnvInit, EnvStep, PatientInit, PatientStep, PTL DEF Spec

\* For that user, CreateProfile assigns no port that is recorded for any other
\* service, created or copied, whatever number of them is taken: services share a
\* port only by having copied it from one service.
THEOREM CreatedPorts == Spec => []CreatedPortsDistinct
<1>1. PatientInv => CreatedPortsDistinct
  BY DEF PatientInv, CreatedPortsDistinct
<1> QED
  BY <1>1, EnvInit, EnvStep, PatientInit, PatientStep, PTL DEF Spec

\* For that user, a StartProfile that returns without an error leaves every
\* service of the profile running, and a StopProfile none.
THEOREM StartsAndStops == Spec => StartStopEffective
<1> DEFINE Effective ==
      patient => \A c \in Calls : pc[c] # "done" /\ pc'[c] = "done" =>
          \A e \in EnginesOf(prof[c]) :
              LET s == <<prof[c], e>> IN
              /\ op[c] = "start" => container'[s] = "running"
              /\ op[c] = "stop" => container'[s] # "running"
<1>1. EnvInv /\ PatientInv /\ [Next]_vars => Effective
  <2> USE EnvNoneAssumption DEF AllOps
  <2> SUFFICES ASSUME EnvInv, PatientInv, [Next]_vars, patient,
                      NEW c \in Calls, pc[c] # "done", pc'[c] = "done",
                      op[c] \in {"start", "stop"}, NEW e \in EnginesOf(prof[c])
               PROVE  /\ op[c] = "start" => container'[<<prof[c], e>>] = "running"
                      /\ op[c] = "stop" => container'[<<prof[c], e>>] # "running"
    OBVIOUS
  <2>1. HandlingStep(c)
    <3>1. CASE UNCHANGED pc
      BY <3>1
    <3>2. ASSUME NEW d \in Calls, HandlingStep(d), d # c
          PROVE  FALSE
      BY <3>2, HandlingFrames DEF HandlingFrame
    <3>3. ASSUME NEW d \in Calls,
                 \/ Call(d)
                 \/ \E p \in Profiles : InsertProfile(d, p)
                 \/ InsertStep(d)
          PROVE  FALSE
      <4>1. Placed(c)
        BY DEF EnvInv
      <4> QED
        BY <3>3, <4>1 DEF Call, StartOrStopBegin, DeleteBegin, ResetBegin, CreateBegin,
           DuplicateBegin, Begin, InsertProfile, InsertStep, ReadUsedPorts, InsertService,
           Goto, EnvInv, TypeOK, Placed
    <3> QED
      BY <3>1, <3>2, <3>3 DEF Next, Moves, Terminated, vars, ForeignBinds, ForeignReleases,
         Step, HandlingStep, InsertStep
  <2>2. Active(c)
    BY <2>1, ArgumentsKept
  <2>3. Handled(c)
    BY <2>2 DEF PatientInv, HandledInv, Handlers
  <2> QED
    BY <2>1, <2>3, OwnServices DEF Handlers
<1>2. EnvInv /\ PatientInv /\ [Next]_vars => [Effective]_vars
  BY <1>1
<1> QED
  BY <1>2, EnvInit, EnvStep, PatientInit, PatientStep, PTL
     DEF Spec, StartStopEffective

=============================================================================
