---------------------------- MODULE ViewRequests ----------------------------
(***************************************************************************)
(* The requests a document view has out: bound methods of app.go called    *)
(* from an async handler.  The Go side carries a request out at one moment *)
(* and the handler goes on at a later one; requests overtake each other.   *)
(* A slot is free again once its handler has gone on.                      *)
(***************************************************************************)
EXTENDS Naturals, FiniteSets

CONSTANTS Calls,    \* slots: how many requests may be out at a time
          None

VARIABLES
    op,     \* op[c]: which handler call c belongs to
    pc,     \* pc[c]: "idle", "sent", "checked" or "served"
    arg,    \* arg[c]: what the handler captured when it sent the request
    ans,    \* ans[c]: the answer of the Go side
    vague   \* history: two requests were out at once, or an answer was lost

requestVars == <<op, pc, arg, ans>>

RequestInit ==
    /\ op = [c \in Calls |-> None]
    /\ pc = [c \in Calls |-> "idle"]
    /\ arg = [c \in Calls |-> None]
    /\ ans = [c \in Calls |-> None]
    /\ vague = FALSE

Out == {c \in Calls : pc[c] # "idle"}
Pending(o) == {c \in Out : op[c] = o}

\* A handler runs up to its await.  `beside`: something else is under way.
Send(c, o, a, beside) ==
    /\ pc[c] = "idle"
    /\ op' = [op EXCEPT ![c] = o]
    /\ pc' = [pc EXCEPT ![c] = "sent"]
    /\ arg' = [arg EXCEPT ![c] = a]
    /\ vague' = (vague \/ Out # {} \/ beside)
    /\ UNCHANGED ans

\* The Go side carries out request c and answers r.
Serve(c, o, from, r) ==
    /\ op[c] = o
    /\ pc[c] = from
    /\ pc' = [pc EXCEPT ![c] = "served"]
    /\ ans' = [ans EXCEPT ![c] = r]
    /\ UNCHANGED <<op, arg, vague>>

\* The handler of c is done: after its answer, or in its catch block.
Return(c) ==
    /\ op' = [op EXCEPT ![c] = None]
    /\ pc' = [pc EXCEPT ![c] = "idle"]
    /\ arg' = [arg EXCEPT ![c] = None]
    /\ ans' = [ans EXCEPT ![c] = None]

Answered(c, o) ==
    /\ op[c] = o
    /\ pc[c] = "served"
    /\ Return(c)
    /\ UNCHANGED vague

\* An error or a timeout, perhaps after the Go side has done its work.
Failed(c, o) ==
    /\ op[c] = o
    /\ pc[c] # "idle"
    /\ Return(c)
    /\ vague' = (vague \/ pc[c] = "served")
=============================================================================
