--------------------------- MODULE DatabaseClient ---------------------------
(***************************************************************************)
(* The parts of the database client's window that work on SQL tables: the  *)
(* SQL tab, the editable grid in it and the view that draws a schema.      *)
(* They share nothing but the Go side's sessions, each of which a part has *)
(* for itself, so one part is followed at a time.                          *)
(***************************************************************************)
EXTENDS EditorTab, EditableGrid, SchemaDiagram

VARIABLE part  \* the part that is followed

vars == <<part, tabVars, tableVars, viewVars>>

\* The other parts have as little as they can have at the start.
Init ==
    /\ part \in {"tab", "grid", "diagram"}
    /\ TabInit
    /\ part # "tab" => tables = {}
    /\ GridInit
    /\ part # "grid" => rows = <<>> /\ table = [t \in Tables |-> [k \in Keys |-> None]]
    /\ DiagramInit

Next ==
    \/ part = "tab" /\ TabNext /\ UNCHANGED <<part, tableVars, viewVars>>
    \/ part = "grid" /\ GridNext /\ UNCHANGED <<part, tabVars, viewVars>>
    \/ part = "diagram" /\ DiagramNext /\ UNCHANGED <<part, tabVars, tableVars>>

Spec == Init /\ [][Next]_vars
=============================================================================
