---------------------------- MODULE Application ----------------------------
(***************************************************************************)
(* The parts of the Go application that serve the app itself: the status   *)
(* watcher and local storage.  They share no field of App that changes     *)
(* between startup and shutdown, so one part is followed at a time.        *)
(***************************************************************************)
EXTENDS StatusWatcher, LocalStorage

VARIABLE part  \* the part that is followed

appVars == <<part, vars, storageVars>>

AppInit == part \in {"watcher", "storage"} /\ Init /\ StorageInit

AppNext ==
    \/ part = "watcher" /\ Next /\ UNCHANGED <<part, storageVars>>
    \/ part = "storage" /\ StorageNext /\ UNCHANGED <<part, vars>>

\* The watcher's fairness.
AppSpec == AppInit /\ [][AppNext]_appVars /\ Fairness
=============================================================================
