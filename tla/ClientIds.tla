----------------------------- MODULE ClientIds -----------------------------
(***************************************************************************)
(* The names that the parts of the database client share.                  *)
(***************************************************************************)
CONSTANTS Calls,  \* ids of the handler invocations of a view
          Tables, \* tables of the connection's one schema
          None    \* undefined, null

ASSUME NoneAssumption == None \notin Calls \cup Tables
=============================================================================
