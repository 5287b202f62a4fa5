--------------------------- MODULE SchemaDiagram ---------------------------
(***************************************************************************)
(* The schema diagram's view (SchemaDiagramView.tsx).  It holds one        *)
(* session, whose schemas or databases are listed, and shows the diagram   *)
(* of the selected one.  A session is named for the handler invocation     *)
(* that opened it.                                                         *)
(***************************************************************************)
EXTENDS ClientIds, Naturals, FiniteSets

CONSTANT Namespaces  \* 1, 2, ...: the schemas, or databases, of a server

ASSUME NamespacesAssumption ==
    Namespaces \subseteq Nat \ {0} /\ \A n \in Namespaces : 1..n \subseteq Namespaces

VARIABLES
    inView,    \* the view is mounted
    held,      \* sessionIdRef
    live,      \* the sessions open on the Go side
    link,      \* connectState: "idle", "connecting", "connected" or "error"
    found,     \* how many namespaces the server has listed
    selected,  \* selectedNamespace, or 0
    drawing,   \* diagramState: "idle", "generating", "ready" or "error"
    picture,   \* mermaidText: the session and namespace it is a diagram of
    work,      \* work[c]: "new", "opening", "listing", "drawing" or "over"
    topic,     \* topic[c]: the session and namespace call c draws
    tangled    \* history: a diagram was asked for, or a connection, while
               \* another was drawn, or the view left while connecting

viewVars == <<inView, held, live, link, found, selected, drawing, picture, work, topic, tangled>>

Nothing == <<None, 0>>
Busy(stages) == {c \in Calls : work[c] \in stages}

DiagramTypeOK ==
    /\ inView \in BOOLEAN
    /\ held \in Calls \cup {None}
    /\ live \subseteq Calls
    /\ link \in {"idle", "connecting", "connected", "error"}
    /\ found \in {0} \cup Namespaces
    /\ selected \in {0} \cup Namespaces
    /\ drawing \in {"idle", "generating", "ready", "error"}
    /\ picture \in (Calls \X Namespaces) \cup {Nothing}
    /\ work \in [Calls -> {"new", "opening", "listing", "drawing", "over"}]
    /\ topic \in [Calls -> (Calls \X Namespaces) \cup {Nothing}]
    /\ tangled \in BOOLEAN

DiagramInit ==
    /\ inView = TRUE
    /\ held = None
    /\ live = {}
    /\ link = "idle"
    /\ found = 0
    /\ selected = 0
    /\ drawing = "idle"
    /\ picture = Nothing
    /\ work = [c \in Calls |-> "new"]
    /\ topic = [c \in Calls |-> Nothing]
    /\ tangled = FALSE

-----------------------------------------------------------------------------
\* Mutant of Connect: the old session stays open.
ConnectAgain(c) ==
    /\ inView
    /\ link # "connecting"
    /\ work[c] = "new"
    /\ work' = [work EXCEPT ![c] = "opening"]
    /\ link' = "connecting"
    /\ found' = 0
    /\ picture' = Nothing
    /\ drawing' = "idle"
    /\ held' = None
    /\ tangled' = (tangled \/ Busy({"drawing"}) # {})
    /\ UNCHANGED <<inView, live, selected, topic>>

\* handleConnect: what was there is cleared and its session closed.
Connect(c) ==
    /\ inView
    /\ link # "connecting"
    /\ work[c] = "new"
    /\ work' = [work EXCEPT ![c] = "opening"]
    /\ link' = "connecting"
    /\ found' = 0
    /\ picture' = Nothing
    /\ drawing' = "idle"
    /\ live' = live \ {held}
    /\ held' = None
    /\ tangled' = (tangled \/ Busy({"drawing"}) # {})
    /\ UNCHANGED <<inView, selected, topic>>

\* OpenConnection or OpenMongoConnection answers, whether or not the view is
\* still there.
Opened(c) ==
    /\ work[c] = "opening"
    /\ work' = [work EXCEPT ![c] = "listing"]
    /\ live' = live \cup {c}
    /\ held' = c
    /\ UNCHANGED <<inView, link, found, selected, drawing, picture, topic, tangled>>

\* Mutant of ConnectFails: the state is left as it is.
ConnectFailsSilently(c) ==
    /\ work[c] \in {"opening", "listing"}
    /\ work' = [work EXCEPT ![c] = "over"]
    /\ UNCHANGED <<inView, held, live, link, found, selected, drawing, picture, topic, tangled>>

\* Opening the session, or listing its namespaces, fails.
ConnectFails(c) ==
    /\ work[c] \in {"opening", "listing"}
    /\ work' = [work EXCEPT ![c] = "over"]
    /\ link' = "error"
    /\ UNCHANGED <<inView, held, live, found, selected, drawing, picture, topic, tangled>>

\* The namespaces arrive; the first is selected and drawn by the same handler.
NamespacesListed(c) ==
    /\ work[c] = "listing"
    /\ link' = "connected"
    /\ found' \in {0} \cup Namespaces
    /\ selected' = IF found' = 0 THEN 0 ELSE 1
    /\ IF found' = 0
       THEN work' = [work EXCEPT ![c] = "over"] /\ UNCHANGED <<drawing, topic>>
       ELSE /\ work' = [work EXCEPT ![c] = "drawing"]
            /\ drawing' = "generating"
            /\ topic' = [topic EXCEPT ![c] = <<c, 1>>]
    /\ UNCHANGED <<inView, held, live, picture, tangled>>

\* generateDiagram, of namespace n.
Generate(c, n) ==
    /\ inView
    /\ link = "connected"
    /\ work[c] = "new"
    /\ work' = [work EXCEPT ![c] = "drawing"]
    /\ topic' = [topic EXCEPT ![c] = <<held, n>>]
    /\ drawing' = "generating"
    /\ tangled' = (tangled \/ Busy({"drawing"}) # {})
    /\ UNCHANGED <<inView, held, live, link, found, picture>>

\* handleNamespaceChange, which nothing disables.
SelectNamespace(c, n) ==
    /\ n <= found
    /\ Generate(c, n)
    /\ selected' = n

\* "Regenerate"
Regenerate(c) ==
    /\ drawing # "generating"
    /\ selected # 0
    /\ Generate(c, selected)
    /\ UNCHANGED selected

\* Mutant of Drawn: the old picture stays.
DrawnOver(c) ==
    /\ work[c] = "drawing"
    /\ work' = [work EXCEPT ![c] = "over"]
    /\ picture' = IF picture = Nothing THEN topic[c] ELSE picture
    /\ drawing' = "ready"
    /\ UNCHANGED <<inView, held, live, link, found, selected, topic, tangled>>

\* BuildSchemaDiagram or BuildMongoStructureDiagram answers.
Drawn(c) ==
    /\ work[c] = "drawing"
    /\ work' = [work EXCEPT ![c] = "over"]
    /\ picture' = topic[c]
    /\ drawing' = "ready"
    /\ UNCHANGED <<inView, held, live, link, found, selected, topic, tangled>>

\* An error is shown instead of the picture.
DrawFails(c) ==
    /\ work[c] = "drawing"
    /\ work' = [work EXCEPT ![c] = "over"]
    /\ drawing' = "error"
    /\ UNCHANGED <<inView, held, live, link, found, selected, picture, topic, tangled>>

\* The effect's cleanup.
LeaveView ==
    /\ inView
    /\ inView' = FALSE
    /\ live' = live \ {held}
    /\ tangled' = (tangled \/ link = "connecting")
    /\ UNCHANGED <<held, link, found, selected, drawing, picture, work, topic>>

\* The view has been left and its handlers have ended.
ViewLeft ==
    /\ ~inView
    /\ Busy({"opening", "listing", "drawing"}) = {}
    /\ UNCHANGED viewVars

DiagramNext ==
    \/ \E c \in Calls :
          \/ Connect(c) \/ Opened(c) \/ ConnectFails(c) \/ NamespacesListed(c)
          \/ Regenerate(c) \/ Drawn(c) \/ DrawFails(c)
          \/ \E n \in Namespaces : SelectNamespace(c, n)
    \/ LeaveView
    \/ ViewLeft

DiagramSpec == DiagramInit /\ [][DiagramNext]_viewVars

-----------------------------------------------------------------------------
\* The diagram on screen is the one of the selected namespace of the server
\* the view is connected to, the view has no other session than that and none
\* after it is left, and no button stays disabled - if a diagram is not asked
\* for while another is drawn, whose late answer would take its place, and the
\* view is not left while it connects.  The state keeps its types.
DiagramIsOfSelection ==
    /\ DiagramTypeOK
    /\ link = "connecting" => Busy({"opening", "listing"}) # {}
    /\ drawing = "generating" => Busy({"drawing"}) # {}
    /\ ~tangled =>
          /\ live = IF inView THEN {held} \ {None} ELSE {}
          /\ drawing = "ready" => picture = <<held, selected>>
=============================================================================
