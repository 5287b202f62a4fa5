---------------------------- MODULE EditableGrid ----------------------------
(***************************************************************************)
(* The editable data grid (ResultsGrid.tsx) over grid.go.  The grid finds  *)
(* rows, ticks, the cell being edited, the context menu and the errors it  *)
(* shows by their index in the list of rows; the server, by primary key.   *)
(* A table is a function from keys to the value of one other column.       *)
(***************************************************************************)
EXTENDS ClientIds, Naturals, FiniteSets, Sequences

CONSTANTS Keys,     \* primary keys: 1, 2, ...
          Vals,
          Early,    \* the values the tables hold at the start; others are entered
          MaxTasks  \* the calls sent to the Go side

ASSUME GridKeysAssumption == Keys \subseteq Nat /\ IsFiniteSet(Keys)
ASSUME GridValsAssumption == Early \subseteq Vals /\ None \notin Vals

VARIABLES
    table,    \* table[t][k]: the value of row k in the database, or None
    bound,    \* the table of the grid's `editable` context
    rows,     \* the rows shown; each remembers the table it was read from
    edit,     \* editingCell, or None
    menu,     \* contextMenu, or None
    ticked,   \* selectedRows
    rowErrs,  \* rowErrors
    task, stage,   \* task[c], and stage[c]: "idle", "asked", "inserted", "served" or "done"
    tab,      \* tab[c]: the table call c is about
    from,     \* from[c]: the rows its closure has captured, or those it answers
    picks,    \* picks[c]: the indices it is about
    val,      \* val[c]: the value it writes
    ok,       \* ok[c]: the indices, or the new key, whose write succeeded
    meant,    \* history: the rows the user had chosen for call c
    missed,   \* history: the keys inserted by calls that reported an error
    crashed,  \* a state update has thrown: React unmounts the application
    crossed   \* history: two handlers that disturb each other overlapped

gridVars == <<bound, rows, edit, menu, ticked, rowErrs>>
taskVars == <<task, tab, picks, val, meant>>
tableVars == <<table, gridVars, taskVars, stage, from, ok, missed, crashed, crossed>>

\* `known`: the row as it is on the grid has its key.  No value is a blank.
Row == [of : Tables, key : Keys, value : Vals \cup {None}, known : BOOLEAN]
Id(row) == <<row.of, row.key>>
Ids == Tables \X Keys
\* A place in the list, and (history) the row that was there when it was noted.
Mark == [at : Nat, id : Ids]
At(i) == [at |-> i, id |-> Id(rows[i])]
Places(marks) == {m.at : m \in marks}

\* The numbers of S, in ascending order.
Ascending(S) ==
    [i \in 1..Cardinality(S) |->
        CHOOSE k \in S : Cardinality({j \in S : j < k}) = i - 1]

Present(t) == {k \in Keys : table[t][k] # None}
RowOf(t, k) == [of |-> t, key |-> k, value |-> table[t][k], known |-> TRUE]

\* BrowseTableRows: the rows of table t, by key.
Listing(t) ==
    LET keys == Ascending(Present(t))
    IN  [i \in DOMAIN keys |-> RowOf(t, keys[i])]

GridTypeOK ==
    /\ table \in [Tables -> [Keys -> Vals \cup {None}]]
    /\ bound \in Tables
    /\ rows \in Seq(Row)
    /\ edit \in Mark \cup {None}
    /\ menu \in Mark \cup {None}
    /\ ticked \cup rowErrs \subseteq Mark
    /\ task \in [Calls -> {"update", "insert", "delete", "reload", None}]
    /\ stage \in [Calls -> {"idle", "asked", "inserted", "served", "done"}]
    /\ tab \in [Calls -> Tables \cup {None}]
    /\ from \in [Calls -> Seq(Row)]
    /\ picks \in [Calls -> SUBSET Nat]
    /\ val \in [Calls -> Vals \cup {None}]
    /\ ok \in [Calls -> SUBSET Nat]
    /\ meant \in [Calls -> SUBSET Ids]
    /\ missed \subseteq Keys
    /\ {crashed, crossed} \subseteq BOOLEAN

\* A table that has just been browsed.
GridInit ==
    /\ table \in [Tables -> [Keys -> Early \cup {None}]]
    /\ bound \in Tables
    /\ rows = Listing(bound)
    /\ edit = None
    /\ menu = None
    /\ ticked = {}
    /\ rowErrs = {}
    /\ task = [c \in Calls |-> None]
    /\ stage = [c \in Calls |-> "idle"]
    /\ tab = [c \in Calls |-> None]
    /\ from = [c \in Calls |-> <<>>]
    /\ picks = [c \in Calls |-> {}]
    /\ val = [c \in Calls |-> None]
    /\ ok = [c \in Calls |-> {}]
    /\ meant = [c \in Calls |-> {}]
    /\ missed = {}
    /\ crashed = FALSE
    /\ crossed = FALSE

-----------------------------------------------------------------------------
Outstanding == {c \in Calls : stage[c] \in {"asked", "inserted", "served"}}
Deleting == \E c \in Outstanding : task[c] = "delete"

\* Only one cell edit or menu is open: a click elsewhere first commits or
\* closes it.  The edit of a row that is gone is not shown.
RowClickable ==
    /\ ~crashed
    /\ menu = None
    /\ edit # None => edit.at \notin DOMAIN rows

\* Handlers that disturb each other: a deletion and anything else, a reload
\* and a write, two updates of one cell.
Disturbs(o, at, d) ==
    \/ "delete" \in {o, task[d]}
    \/ o # task[d] /\ "reload" \in {o, task[d]}
    \/ o = "update" /\ task[d] = "update" /\ picks[d] = at

\* Call c is sent for the places `at` of the rows of this moment.
SendTask(c, o, t, at, v, chosen) ==
    /\ stage[c] = "idle"
    /\ Cardinality({d \in Calls : stage[d] # "idle"}) < MaxTasks
    /\ stage' = [stage EXCEPT ![c] = "asked"]
    /\ task' = [task EXCEPT ![c] = o]
    /\ tab' = [tab EXCEPT ![c] = t]
    /\ from' = [from EXCEPT ![c] = rows]
    /\ picks' = [picks EXCEPT ![c] = at]
    /\ val' = [val EXCEPT ![c] = v]
    /\ meant' = [meant EXCEPT ![c] = chosen]
    /\ crossed' = (crossed \/ \E d \in Outstanding : Disturbs(o, at, d))
    /\ UNCHANGED <<table, bound, rows, rowErrs, ok, missed, crashed>>

\* startEditingCell, on a double click: a row without its key cannot be edited.
StartEdit(i) ==
    /\ RowClickable
    /\ rows[i].known
    /\ edit' = At(i)
    /\ crossed' = (crossed \/ Deleting)
    /\ UNCHANGED <<table, bound, rows, menu, ticked, rowErrs, taskVars,
                   stage, from, ok, missed, crashed>>

OpenMenu(i) ==
    /\ RowClickable
    /\ menu' = At(i)
    /\ crossed' = (crossed \/ Deleting)
    /\ UNCHANGED <<table, bound, rows, edit, ticked, rowErrs, taskVars,
                   stage, from, ok, missed, crashed>>

ToggleRow(i) ==
    /\ RowClickable
    /\ ticked' = IF i \in Places(ticked) THEN {m \in ticked : m.at # i}
                 ELSE ticked \cup {At(i)}
    /\ UNCHANGED <<table, bound, rows, edit, menu, rowErrs, taskVars,
                   stage, from, ok, missed, crashed, crossed>>

\* Escape, or a click beside the menu.
Dismiss ==
    /\ ~crashed
    /\ edit # None \/ menu # None
    /\ edit' = None
    /\ menu' = None
    /\ UNCHANGED <<table, bound, rows, ticked, rowErrs, taskVars,
                   stage, from, ok, missed, crashed, crossed>>

\* commitCellEdit: the key is that of the row which is now at the index; if
\* there is none, the event handler throws.
CommitEdit(c, v) ==
    /\ ~crashed
    /\ edit # None
    /\ edit.at \in DOMAIN rows
    /\ rows[edit.at].known
    /\ SendTask(c, "update", bound, {edit.at}, v, {edit.id})
    /\ edit' = None
    /\ UNCHANGED <<menu, ticked>>

\* Without a v the column is left to its default.
SaveNewRow(c, v) ==
    /\ RowClickable
    /\ SendTask(c, "insert", bound, {}, v, {})
    /\ UNCHANGED <<edit, menu, ticked>>

\* Of the rows ticked, those without a key are passed over.
Deletable == {m \in ticked : m.at \in DOMAIN rows /\ rows[m.at].known}

DeleteSelected(c) ==
    /\ RowClickable
    /\ ~Deleting
    /\ Deletable # {}
    /\ SendTask(c, "delete", bound, Places(Deletable), None, {m.id : m \in Deletable})
    /\ UNCHANGED <<edit, menu, ticked>>

\* The menu's "Delete row", after a confirmation.
DeleteMenuRow(c) ==
    /\ ~crashed
    /\ ~Deleting
    /\ menu # None
    /\ menu.at \in DOMAIN rows
    /\ rows[menu.at].known
    /\ SendTask(c, "delete", bound, {menu.at}, None, {menu.id})
    /\ menu' = None
    /\ UNCHANGED <<edit, ticked>>

\* Another page, or another table, is asked for.
Reload(c, t) ==
    /\ RowClickable
    /\ SendTask(c, "reload", t, {}, None, {})
    /\ UNCHANGED <<edit, menu, ticked>>

-----------------------------------------------------------------------------
KeyAt(c, i) == from[c][i].key

\* The Go side.  A write may be refused by a constraint.
Served(c, o) ==
    /\ task[c] = o
    /\ stage[c] = "asked"
    /\ stage' = [stage EXCEPT ![c] = "served"]
    /\ UNCHANGED <<gridVars, taskVars, missed, crashed, crossed>>

Refused(c) ==
    /\ task[c] \in {"update", "insert"}
    /\ Served(c, task[c])
    /\ UNCHANGED <<table, from, ok>>

\* UpdateTableRow: no row with that key is an error.
UpdateTableRow(c) ==
    \E i \in picks[c] :
        /\ table[tab[c]][KeyAt(c, i)] # None
        /\ Served(c, "update")
        /\ table' = [table EXCEPT ![tab[c]][KeyAt(c, i)] = val[c]]
        /\ ok' = [ok EXCEPT ![c] = picks[c]]
        /\ UNCHANGED from

\* InsertTableRow: first the INSERT ...
InsertTableRow(c) ==
    \E k \in Keys, v \in Vals :
        /\ task[c] = "insert"
        /\ stage[c] = "asked"
        /\ table[tab[c]][k] = None
        /\ val[c] \in {v, None}
        /\ stage' = [stage EXCEPT ![c] = "inserted"]
        /\ table' = [table EXCEPT ![tab[c]][k] = v]
        /\ ok' = [ok EXCEPT ![c] = {k}]
        /\ UNCHANGED <<gridVars, taskVars, from, missed, crashed, crossed>>

\* ... then resolveInsertedRow, whose answer is the rows `answer`.
Resolved(c, answer) ==
    /\ stage[c] = "inserted"
    /\ stage' = [stage EXCEPT ![c] = "served"]
    /\ from' = [from EXCEPT ![c] = answer]
    /\ UNCHANGED <<table, gridVars, taskVars, crashed, crossed>>

\* The row that RETURNING gave, or that is there for MySQL's second SELECT.
RowReadBack(c) ==
    \E k \in ok[c] :
        /\ table[tab[c]][k] # None
        /\ Resolved(c, <<RowOf(tab[c], k)>>)
        /\ UNCHANGED <<ok, missed>>

\* MySQL does not tell the key: the submitted values are all there is.
RowSubmitted(c) ==
    \E k \in ok[c] :
        /\ Resolved(c, <<[of |-> tab[c], key |-> k, value |-> val[c], known |-> FALSE]>>)
        /\ UNCHANGED <<ok, missed>>

\* The second SELECT fails, or finds nothing: an error, although the row is there.
RowUnread(c) ==
    /\ Resolved(c, <<>>)
    /\ ok' = [ok EXCEPT ![c] = {}]
    /\ missed' = missed \cup ok[c]

\* DeleteTableRows: one statement per row, and each may fail; a row that is
\* not there is no failure.
DeleteTableRows(c) ==
    \E done \in SUBSET picks[c] :
        /\ Served(c, "delete")
        /\ table' = [table EXCEPT ![tab[c]] =
              [k \in Keys |-> IF \E i \in done : KeyAt(c, i) = k THEN None ELSE @[k]]]
        /\ ok' = [ok EXCEPT ![c] = done]
        /\ UNCHANGED from

BrowseTableRows(c) ==
    /\ Served(c, "reload")
    /\ from' = [from EXCEPT ![c] = Listing(tab[c])]
    /\ UNCHANGED <<table, ok>>

-----------------------------------------------------------------------------
\* The handler goes on after its await, and ends.
TaskAnswered(c, o) ==
    /\ ~crashed
    /\ task[c] = o
    /\ stage[c] = "served"
    /\ stage' = [stage EXCEPT ![c] = "done"]
    /\ task' = [task EXCEPT ![c] = None]
    /\ tab' = [tab EXCEPT ![c] = None]
    /\ from' = [from EXCEPT ![c] = <<>>]
    /\ picks' = [picks EXCEPT ![c] = {}]
    /\ val' = [val EXCEPT ![c] = None]
    /\ ok' = [ok EXCEPT ![c] = {}]
    /\ meant' = [meant EXCEPT ![c] = {}]
    /\ UNCHANGED <<table, crossed>>

\* The new value is written to the row that is at the index by now.
CellSaved(c) ==
    \E i \in ok[c] :
        /\ TaskAnswered(c, "update")
        /\ IF i \in DOMAIN rows
           THEN rows' = [rows EXCEPT ![i].value = val[c]] /\ UNCHANGED crashed
           ELSE crashed' = TRUE /\ UNCHANGED rows
        /\ UNCHANGED <<bound, edit, menu, ticked, rowErrs, missed>>

\* The error is shown at the place of the edit, whichever row is there later:
\* the marks on cells are left out.
CellFailed(c) ==
    /\ TaskAnswered(c, "update")
    /\ ok[c] = {}
    /\ UNCHANGED <<bound, rows, edit, menu, ticked, rowErrs, missed, crashed>>

\* An error leaves the new row in its form.
RowInserted(c) ==
    /\ TaskAnswered(c, "insert")
    /\ rows' = IF ok[c] = {} THEN rows ELSE rows \o from[c]
    /\ UNCHANGED <<bound, edit, menu, ticked, rowErrs, missed, crashed>>

\* The rows of s but those at the indices `gone`, and where the others end up.
Without(s, gone) ==
    LET left == Ascending(DOMAIN s \ gone)
    IN  [i \in DOMAIN left |-> s[left[i]]]
NewIndex(i, gone) == i - Cardinality({j \in gone : j < i})

\* Mutant of RowsDeleted: the errors stay at the old indices.
RowsDeletedUnmoved(c) ==
    /\ TaskAnswered(c, "delete")
    /\ rows' = Without(from[c], ok[c])
    /\ rowErrs' = {[at |-> i, id |-> Id(from[c][i])] : i \in picks[c] \ ok[c]}
    /\ ticked' = {}
    /\ UNCHANGED <<bound, edit, menu, missed, crashed>>

\* Mutant of RowsDeleted: a row that was not deleted goes, too.
RowsDeletedAll(c) ==
    /\ TaskAnswered(c, "delete")
    /\ rows' = Without(from[c], picks[c])
    /\ rowErrs' = {}
    /\ ticked' = {}
    /\ UNCHANGED <<bound, edit, menu, missed, crashed>>

\* Mutant of RowsDeleted: the ticks stay.
RowsDeletedTicked(c) ==
    /\ TaskAnswered(c, "delete")
    /\ rows' = Without(from[c], ok[c])
    /\ rowErrs' = {[at |-> NewIndex(i, ok[c]), id |-> Id(from[c][i])] :
                      i \in picks[c] \ ok[c]}
    /\ UNCHANGED <<bound, edit, menu, ticked, missed, crashed>>

\* performDeleteRows: what is left of the rows of its closure, with an error
\* at each that was not deleted.
RowsDeleted(c) ==
    /\ TaskAnswered(c, "delete")
    /\ rows' = Without(from[c], ok[c])
    /\ rowErrs' = {[at |-> NewIndex(i, ok[c]), id |-> Id(from[c][i])] :
                      i \in picks[c] \ ok[c]}
    /\ ticked' = {}
    /\ UNCHANGED <<bound, edit, menu, missed, crashed>>

\* The call as a whole has failed: nothing was deleted, the ticks stay.
DeletionFailed(c) ==
    /\ TaskAnswered(c, "delete")
    /\ ok[c] = {}
    /\ UNCHANGED <<bound, rows, edit, menu, ticked, rowErrs, missed, crashed>>

\* The effect on a new result resets everything the grid knows.
Reloaded(c) ==
    /\ TaskAnswered(c, "reload")
    /\ bound' = tab[c]
    /\ rows' = from[c]
    /\ edit' = None
    /\ menu' = None
    /\ ticked' = {}
    /\ rowErrs' = {}
    /\ missed' = {}
    /\ UNCHANGED crashed

GridClicks ==
    \/ \E i \in DOMAIN rows : StartEdit(i) \/ OpenMenu(i) \/ ToggleRow(i)
    \/ Dismiss
    \/ \E c \in Calls :
          \/ DeleteSelected(c) \/ DeleteMenuRow(c)
          \/ \E v \in Vals \ Early : CommitEdit(c, v)
          \/ \E v \in (Vals \ Early) \cup {None} : SaveNewRow(c, v)
          \/ \E t \in Tables : Reload(c, t)

GridServer ==
    \E c \in Calls :
        \/ Refused(c) \/ UpdateTableRow(c) \/ InsertTableRow(c)
        \/ RowReadBack(c) \/ RowSubmitted(c) \/ RowUnread(c)
        \/ DeleteTableRows(c) \/ BrowseTableRows(c)

GridAnswers ==
    \E c \in Calls :
        \/ CellSaved(c) \/ CellFailed(c) \/ RowInserted(c)
        \/ RowsDeleted(c) \/ DeletionFailed(c) \/ Reloaded(c)

GridIdle ==
    /\ crashed \/ Outstanding = {}
    /\ UNCHANGED tableVars

GridNext == GridClicks \/ GridServer \/ GridAnswers \/ GridIdle

GridSpec == GridInit /\ [][GridNext]_tableVars

-----------------------------------------------------------------------------
\* The statements a call sends are about the rows, of the table, that the user
\* chose, unless a deletion or a reload was in flight beside something else:
\* then indices into one list are used on another, and a cell edit or the
\* menu's deletion hits the wrong row.
WritesHitChosenRows ==
    \A c \in Outstanding :
        ~crossed /\ task[c] \in {"update", "delete"} =>
            /\ picks[c] \subseteq DOMAIN from[c]
            /\ {<<tab[c], KeyAt(c, i)>> : i \in picks[c]} = meant[c]

OnTheirRows(marks) ==
    \A m \in marks : m.at \in DOMAIN rows /\ Id(rows[m.at]) = m.id

\* A row on screen has the value of the table; one of which MySQL did not tell
\* the key may have a blank where the database put the default.
Shows(row) ==
    \/ row.value = table[bound][row.key]
    \/ ~row.known /\ row.value = None

\* The grid edits its copy of the rows itself; at rest it shows each row of
\* the table once, with its value, and the error of a row that could not be
\* deleted beside that row, under the same condition and if nobody else
\* writes to the table.  What it does not show are the rows whose INSERT was
\* committed and whose second SELECT failed, of which the user was told that
\* they were not inserted; and of a row whose key MySQL did not tell it shows
\* what was submitted.  The state keeps its types.
GridShowsTable ==
    /\ GridTypeOK
    /\ ~crossed =>
          /\ ~crashed
          /\ OnTheirRows(rowErrs)
          /\ Outstanding = {} =>
                LET expected == Present(bound) \ missed
                IN  /\ {Id(rows[i]) : i \in DOMAIN rows} = {bound} \X expected
                    /\ Len(rows) = Cardinality(expected)
                    /\ \A i \in DOMAIN rows : Shows(rows[i])
=============================================================================
