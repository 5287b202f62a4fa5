-------------------------- MODULE SessionLifecycle --------------------------
(***************************************************************************)
(* What the backend promises its frontend about query sessions, without    *)
(* locks, cancel functions, engines or partial steps: a session id is      *)
(* issued once, is live from then until it is closed, is closed by at most *)
(* one CloseConnectionSession call (or by application shutdown), and a     *)
(* call is served only by a session that is live when it asks for it.      *)
(*                                                                         *)
(* QuerySessions implements this specification (see its refinement).       *)
(***************************************************************************)

CONSTANTS Calls,      \* bound-method calls
          Sessions,   \* session ids uuid.NewString() may return
          None        \* "no session"

VARIABLES life,       \* life[s]: "unused", "live" or "gone"
          servedBy,   \* servedBy[c]: the session that serves call c, or None
          closedBy    \* closedBy[c]: the session that call c closed, or None

vars == <<life, servedBy, closedBy>>

Init ==
    /\ life = [s \in Sessions |-> "unused"]
    /\ servedBy = [c \in Calls |-> None]
    /\ closedBy = [c \in Calls |-> None]

\* A new session becomes usable; its id was never issued before.
Issue(s) ==
    /\ life[s] = "unused"
    /\ life' = [life EXCEPT ![s] = "live"]
    /\ UNCHANGED <<servedBy, closedBy>>

\* A call starts to work on a live session, and stays with it.
Serve(c, s) ==
    /\ life[s] = "live"
    /\ servedBy[c] = None
    /\ servedBy' = [servedBy EXCEPT ![c] = s]
    /\ UNCHANGED <<life, closedBy>>

\* One call retires a live session.
Retire(c, s) ==
    /\ life[s] = "live"
    /\ closedBy[c] = None
    /\ life' = [life EXCEPT ![s] = "gone"]
    /\ closedBy' = [closedBy EXCEPT ![c] = s]
    /\ UNCHANGED servedBy

\* Shutdown retires every live session at once.
RetireAll ==
    /\ life' = [s \in Sessions |->
                    IF life[s] = "live" THEN "gone" ELSE life[s]]
    /\ UNCHANGED <<servedBy, closedBy>>

Next ==
    \/ \E s \in Sessions : Issue(s)
    \/ \E c \in Calls, s \in Sessions : Serve(c, s) \/ Retire(c, s)
    \/ RetireAll

Spec == Init /\ [][Next]_vars

=============================================================================
