--------------------------- MODULE MCEnvironments ---------------------------
(***************************************************************************)
(* TLC instances of Environments: the engines' standard ports are adjacent *)
(* so that the ports of two engines can run into each other.               *)
(***************************************************************************)
EXTENDS Environments, TLC

CONSTANTS Postgres, MySQL

MCDefaultPort == [e \in Engines |-> IF e = Postgres THEN 1 ELSE 2]

\* A patient user has two profiles, two engines and every port; one whose calls
\* overlap has one profile of one engine, and other programs that take its port.
Bound ==
    IF patient THEN foreign = {}
    ELSE /\ Cardinality(issued) <= 1
         /\ \A c \in Calls : todo[c] \subseteq {Postgres} /\ op[c] # "duplicate"

\* SQLite counts the ids up, which the module leaves open: they are alike.
IdSymmetry == Permutations(Calls) \cup Permutations(Profiles)
=============================================================================
