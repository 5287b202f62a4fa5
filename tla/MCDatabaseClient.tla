-------------------------- MODULE MCDatabaseClient --------------------------
(***************************************************************************)
(* TLC instance of DatabaseClient.                                         *)
(***************************************************************************)
EXTENDS DatabaseClient, TLC

Symmetry == {f @@ g : f \in Permutations(Calls), g \in Permutations(Tables)}

\* Each race in a tab is one of two handlers, or of a handler and a load of
\* the schema: no more of either are in flight at a time.
MaxInFlight == 2
InFlightBound ==
    /\ Cardinality({c \in Calls : pc[c] \in {"connecting", "asked"}}) <= MaxInFlight
    /\ Cardinality(loads) <= MaxInFlight

\* The grid is followed until two of its handlers have crossed.
Bounds == InFlightBound /\ ~crossed
=============================================================================
