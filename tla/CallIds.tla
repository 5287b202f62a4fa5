------------------------------ MODULE CallIds ------------------------------
(***************************************************************************)
(* The calls of bound methods that the frontend makes and the backend runs *)
(* concurrently, each in a goroutine of its own.                           *)
(***************************************************************************)
CONSTANTS Calls,  \* ids of the bound-method calls of one app run
          None    \* no value
=============================================================================
