-------------------------- MODULE MCQuerySessions --------------------------
(***************************************************************************)
(* TLC instances of QuerySessions: a handful of calls on one or two        *)
(* sessions, the calls being interchangeable.                              *)
(***************************************************************************)
EXTENDS QuerySessions, TLC

CallSymmetry == Permutations(Calls)
=============================================================================
