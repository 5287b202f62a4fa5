----------------------------- MODULE EditorTab -----------------------------
(***************************************************************************)
(* One SQL tab of the database client (QueryEditor.tsx).  Every click      *)
(* starts an async handler; handlers share one lazily opened session, the  *)
(* schema tree and the two result panes, and go on as their answers come   *)
(* in, in any order, even after the tab is closed.  A session is named     *)
(* for the handler that opened it.                                         *)
(***************************************************************************)
EXTENDS ClientIds, Naturals, FiniteSets

VARIABLES
    mounted,    \* the tab is open
    ref,        \* sessionIdRef
    open,       \* sessions open on the Go side
    op,         \* op[c]: which handler call c is
    pc,         \* pc[c]: "idle", "connecting", "asked" or "done"
    arg,        \* arg[c]: the table call c is about
    runState,   \* "idle", "connecting", "running" or "finished"
    browsing,   \* the Data pane says it is loading
    bref,       \* browseTableRef
    ctx,        \* the table of browseContext: where the grid's edits go
    shown,      \* the table whose rows browseResult holds
    creating,   \* createTableSessionId: the New table dialog is open
    importing,  \* the call that has opened the Import dialog (importTarget)
    blank,      \* a render has thrown: React has unmounted the application
    tables,     \* the tables in the database
    schema,     \* schemaState
    entries,    \* the tables of schemaEntries
    loads,      \* the loadSchema calls in flight
    raced,      \* history: a connection was being opened when another one
                \* was begun, or when the tab was closed
    mingled,    \* history: a query, browse or page was begun during another
    overtaken   \* history: a table was created during a loadSchema

sessionVars == <<ref, open>>
callVars == <<op, pc, arg>>
dataVars == <<runState, browsing, bref, ctx, shown>>
dialogVars == <<creating, importing, blank>>
schemaVars == <<schema, entries, loads>>
historyVars == <<raced, mingled, overtaken>>
tabVars == <<mounted, sessionVars, callVars, dataVars, dialogVars, tables,
          schemaVars, historyVars>>

\* A loadSchema call: who made it, on which session, what the server answered.
\* ensureSession starts one unawaited, and the handler may start its own.
LoadSet == [by : Calls, why : {"opened", "own"}, on : Calls,
            read : BOOLEAN, saw : SUBSET Tables]
Load(c, why, s) == [by |-> c, why |-> why, on |-> s, read |-> FALSE, saw |-> {}]

Handlers == {"run", "browse", "page", "refresh", "create", "submit",
             "import", "validate"}

TabTypeOK ==
    /\ mounted \in BOOLEAN
    /\ ref \in Calls \cup {None}
    /\ open \subseteq Calls
    /\ op \in [Calls -> Handlers \cup {None}]
    /\ pc \in [Calls -> {"idle", "connecting", "asked", "done"}]
    /\ arg \in [Calls -> Tables \cup Calls \cup {None}]
    /\ runState \in {"idle", "connecting", "running", "finished"}
    /\ browsing \in BOOLEAN
    /\ {bref, ctx, shown} \subseteq Tables \cup {None}
    /\ {creating, importing} \subseteq Calls \cup {None}
    /\ blank \in BOOLEAN
    /\ tables \subseteq Tables
    /\ schema \in {"idle", "loading", "loaded", "error"}
    /\ entries \subseteq Tables
    /\ loads \subseteq LoadSet
    /\ {raced, mingled, overtaken} \subseteq BOOLEAN

TabInit ==
    /\ mounted = TRUE
    /\ ref = None
    /\ open = {}
    /\ op = [c \in Calls |-> None]
    /\ pc = [c \in Calls |-> "idle"]
    /\ arg = [c \in Calls |-> None]
    /\ runState = "idle"
    /\ browsing = FALSE
    /\ bref = None
    /\ ctx = None
    /\ shown = None
    /\ creating = None
    /\ importing = None
    /\ blank = FALSE
    /\ tables \in SUBSET Tables
    /\ schema = "idle"
    /\ entries = {}
    /\ loads = {}
    /\ raced = FALSE
    /\ mingled = FALSE
    /\ overtaken = FALSE

-----------------------------------------------------------------------------
Connecting == {c \in Calls : pc[c] = "connecting"}
Pending(o) == {c \in Calls : op[c] = o /\ pc[c] \in {"connecting", "asked"}}
Fetching == Pending("run") \cup Pending("browse") \cup Pending("page")

\* The tab is closed: the effect's cleanup closes the session of the moment.
Unmount ==
    /\ mounted' = FALSE
    /\ open' = open \ {ref}
    /\ loads' = {}
    /\ raced' = (raced \/ Connecting # {})

\* A dialog covers the window; only a mounted tab can be clicked in.
Clickable == mounted /\ creating = None /\ importing = None

Started(c, o, t) ==
    /\ pc[c] = "idle"
    /\ op' = [op EXCEPT ![c] = o]
    /\ arg' = [arg EXCEPT ![c] = t]
    /\ mingled' = (mingled \/ (o \in {"run", "browse", "page"} /\ Fetching # {}))
    /\ UNCHANGED overtaken

\* What handler o, about table t, does once it holds session s.  `fresh` are
\* the loads ensureSession has started.
Proceed(c, o, t, s, fresh) ==
    LET new == fresh \cup (IF o = "refresh" THEN {Load(c, "own", s)} ELSE {})
    IN  /\ pc' = [pc EXCEPT ![c] = IF o \in {"run", "browse"} THEN "asked" ELSE "done"]
        /\ creating' = IF o = "create" THEN s ELSE creating
        /\ importing' = IF o = "import" THEN c ELSE importing
        /\ UNCHANGED blank
        /\ loads' = loads \cup new
        /\ schema' = IF new = {} THEN schema ELSE "loading"
        /\ UNCHANGED entries

\* ensureSession: the tab's session, or a new one.
EnsureSession(c, o, t) ==
    /\ UNCHANGED sessionVars
    /\ IF ref # None
       THEN Proceed(c, o, t, ref, {}) /\ UNCHANGED raced
       ELSE /\ pc' = [pc EXCEPT ![c] = "connecting"]
            /\ raced' = (raced \/ Connecting # {})
            /\ UNCHANGED <<dialogVars, schemaVars>>

Click(c, o, t) ==
    /\ Clickable
    /\ Started(c, o, t)
    /\ EnsureSession(c, o, t)
    /\ UNCHANGED <<mounted, bref, ctx, shown, tables>>

\* Mutant of RunQuery: only connecting is announced.
RunQueryUnannounced(c) ==
    /\ runState \notin {"connecting", "running"}
    /\ Click(c, "run", None)
    /\ runState' = IF ref = None THEN "connecting" ELSE runState
    /\ UNCHANGED browsing

\* "Run query", which is disabled while runState says that a query runs.
RunQuery(c) ==
    /\ runState \notin {"connecting", "running"}
    /\ Click(c, "run", None)
    /\ runState' = IF ref = None THEN "connecting" ELSE "running"
    /\ UNCHANGED browsing

BrowseTable(c, t) ==
    /\ t \in entries
    /\ Click(c, "browse", t)
    /\ browsing' = TRUE
    /\ UNCHANGED runState

RefreshSchema(c) ==
    /\ schema # "loading"
    /\ Click(c, "refresh", None)
    /\ UNCHANGED <<runState, browsing>>

OpenCreateTable(c) ==
    /\ Click(c, "create", None)
    /\ UNCHANGED <<runState, browsing>>

OpenImport(c, t) ==
    /\ t \in entries
    /\ Click(c, "import", t)
    /\ UNCHANGED <<runState, browsing>>

-----------------------------------------------------------------------------
\* Mutant of Connected: the session is not remembered.
ConnectedForgetful(c) ==
    /\ pc[c] = "connecting"
    /\ open' = open \cup {c}
    /\ IF mounted
       THEN /\ Proceed(c, op[c], arg[c], c, {Load(c, "opened", c)})
            /\ runState' = IF op[c] = "run" THEN "running" ELSE runState
       ELSE /\ pc' = [pc EXCEPT ![c] = "done"]
            /\ UNCHANGED <<dialogVars, schemaVars, runState>>
    /\ UNCHANGED <<mounted, ref, op, arg, browsing, bref, ctx, shown, tables, historyVars>>

\* OpenConnection answers.  In a closed tab the handler goes on all the same,
\* but nothing of it is seen but the session.
Connected(c) ==
    /\ pc[c] = "connecting"
    /\ open' = open \cup {c}
    /\ ref' = c
    /\ IF mounted
       THEN /\ Proceed(c, op[c], arg[c], c, {Load(c, "opened", c)})
            /\ runState' = IF op[c] = "run" THEN "running" ELSE runState
       ELSE /\ pc' = [pc EXCEPT ![c] = "done"]
            /\ UNCHANGED <<dialogVars, schemaVars, runState>>
    /\ UNCHANGED <<mounted, op, arg, browsing, bref, ctx, shown, tables, historyVars>>

\* Mutant of Fails: the flag of the Data pane is not reset by a failure.
FailsSilently(c) ==
    /\ mounted
    /\ pc[c] \in {"connecting", "asked"}
    /\ pc' = [pc EXCEPT ![c] = "done"]
    /\ runState' = IF op[c] = "run" THEN "finished" ELSE runState
    /\ schema' = IF op[c] = "refresh" THEN "error" ELSE schema
    /\ UNCHANGED <<mounted, browsing, sessionVars, op, arg, bref, ctx, shown, dialogVars,
                   tables, entries, loads, historyVars>>

\* The catch and finally blocks: connecting, or the call itself, failed.  A
\* file that does not match is shown as such, which changes as much.
Fails(c) ==
    /\ mounted
    /\ pc[c] \in {"connecting", "asked"}
    /\ pc' = [pc EXCEPT ![c] = "done"]
    /\ runState' = IF op[c] = "run" THEN "finished" ELSE runState
    /\ browsing' = (browsing /\ op[c] \notin {"browse", "page"})
    /\ schema' = IF op[c] = "refresh" THEN "error" ELSE schema
    /\ UNCHANGED <<mounted, sessionVars, op, arg, bref, ctx, shown, dialogVars,
                   tables, entries, loads, historyVars>>

Answered(c, o) ==
    /\ mounted
    /\ op[c] = o
    /\ pc[c] = "asked"

\* The query's result replaces a browse.
RunAnswered(c) ==
    /\ Answered(c, "run")
    /\ pc' = [pc EXCEPT ![c] = "done"]
    /\ shown' = None
    /\ ctx' = None
    /\ runState' = "finished"
    /\ UNCHANGED <<mounted, sessionVars, op, arg, browsing, bref, dialogVars,
                   tables, schemaVars, historyVars>>

\* Mutant of BrowseAnswered: the grid's context is not replaced.
BrowseAnsweredOutOfContext(c) ==
    /\ Answered(c, "browse")
    /\ pc' = [pc EXCEPT ![c] = "done"]
    /\ bref' = arg[c]
    /\ shown' = arg[c]
    /\ ctx' = IF ctx = None THEN arg[c] ELSE ctx
    /\ runState' = "idle"
    /\ browsing' = FALSE
    /\ UNCHANGED <<mounted, sessionVars, op, arg, dialogVars, tables, schemaVars,
                   historyVars>>

\* The browsed table replaces whatever was shown; the Query pane is reset.
BrowseAnswered(c) ==
    /\ Answered(c, "browse")
    /\ pc' = [pc EXCEPT ![c] = "done"]
    /\ bref' = arg[c]
    /\ shown' = arg[c]
    /\ ctx' = arg[c]
    /\ runState' = "idle"
    /\ browsing' = FALSE
    /\ UNCHANGED <<mounted, sessionVars, op, arg, dialogVars, tables, schemaVars,
                   historyVars>>

\* Prev or Next in the grid, disabled while browsing: the session and the
\* table are the ones of this moment.
RequestPage(c) ==
    /\ Clickable
    /\ shown # None
    /\ ctx # None
    /\ ~browsing
    /\ Started(c, "page", bref)
    /\ pc' = [pc EXCEPT ![c] = "asked"]
    /\ browsing' = TRUE
    /\ UNCHANGED <<mounted, sessionVars, runState, bref, ctx, shown, dialogVars,
                   tables, schemaVars, raced>>

PageAnswered(c) ==
    /\ Answered(c, "page")
    /\ pc' = [pc EXCEPT ![c] = "done"]
    /\ shown' = arg[c]
    /\ browsing' = FALSE
    /\ UNCHANGED <<mounted, sessionVars, op, arg, runState, bref, ctx, dialogVars,
                   tables, schemaVars, historyVars>>

-----------------------------------------------------------------------------
\* The dialogs, which a user can also just close, whatever they wait for.
SubmitTable(c, t) ==
    /\ mounted
    /\ creating # None
    /\ t \notin tables
    /\ Pending("submit") = {}
    /\ Started(c, "submit", t)
    /\ pc' = [pc EXCEPT ![c] = "asked"]
    /\ UNCHANGED <<mounted, sessionVars, dataVars, dialogVars, tables, schemaVars, raced>>

\* Mutant of TableCreated: the schema tree is not reloaded.
TableCreatedOnly(c) ==
    /\ Answered(c, "submit")
    /\ pc' = [pc EXCEPT ![c] = "done"]
    /\ tables' = tables \cup {arg[c]}
    /\ creating' = None
    /\ overtaken' = (overtaken \/ loads # {})
    /\ UNCHANGED <<mounted, sessionVars, op, arg, dataVars, importing, blank, schemaVars,
                   raced, mingled>>

\* CREATE TABLE has succeeded: handleTableCreated, and the dialog closes.
TableCreated(c) ==
    /\ Answered(c, "submit")
    /\ pc' = [pc EXCEPT ![c] = "done"]
    /\ tables' = tables \cup {arg[c]}
    /\ loads' = loads \cup {Load(c, "own", ref)}
    /\ schema' = "loading"
    /\ creating' = None
    /\ overtaken' = (overtaken \/ loads # {})
    /\ UNCHANGED <<mounted, sessionVars, op, arg, dataVars, importing, blank, entries,
                   raced, mingled>>

\* handlePickFile: the file is validated against the table (ValidateImportFile).
ValidateFile(c) ==
    /\ mounted
    /\ importing # None
    /\ \A d \in Pending("validate") : arg[d] # importing
    /\ Started(c, "validate", importing)
    /\ pc' = [pc EXCEPT ![c] = "asked"]
    /\ UNCHANGED <<mounted, sessionVars, dataVars, dialogVars, tables, schemaVars, raced>>

\* The file matches the table: the list of mismatches is Go's nil slice, null
\* here, and the dialog that asked, if it is still open, throws as it renders
\* the report.  React unmounts the application, and closes the tab with it.
\* (A file that does not match, or an error, is shown and changes nothing: see
\* Fails.  "Confirm import" would come after a clean report, so nobody gets
\* there.)
FileValidated(c) ==
    /\ Answered(c, "validate")
    /\ pc' = [pc EXCEPT ![c] = "done"]
    /\ IF importing = arg[c]
       THEN /\ blank' = TRUE
            /\ Unmount
       ELSE UNCHANGED <<blank, mounted, open, loads, raced>>
    /\ UNCHANGED <<ref, op, arg, dataVars, creating, importing, tables, schema, entries,
                   mingled, overtaken>>

CloseDialog ==
    /\ mounted
    /\ creating # None \/ importing # None
    /\ \/ creating' = None /\ UNCHANGED importing
       \/ importing' = None /\ UNCHANGED creating
    /\ UNCHANGED <<blank, mounted, sessionVars, callVars, dataVars, tables,
                   schemaVars, historyVars>>

-----------------------------------------------------------------------------
\* loadSchema: the server lists the tables; the answer arrives later.
ReadSchema(l) ==
    /\ ~l.read
    /\ loads' = (loads \ {l}) \cup {[l EXCEPT !.read = TRUE, !.saw = tables]}
    /\ UNCHANGED <<mounted, sessionVars, callVars, dataVars, dialogVars, tables,
                   schema, entries, historyVars>>

SchemaLoaded(l) ==
    /\ l.read
    /\ loads' = loads \ {l}
    /\ entries' = l.saw
    /\ schema' = "loaded"
    /\ UNCHANGED <<mounted, sessionVars, callVars, dataVars, dialogVars, tables, historyVars>>

SchemaFails(l) ==
    /\ loads' = loads \ {l}
    /\ schema' = "error"
    /\ UNCHANGED <<mounted, sessionVars, callVars, dataVars, dialogVars, tables,
                   entries, historyVars>>

CloseTab ==
    /\ mounted
    /\ Unmount
    /\ UNCHANGED <<ref, callVars, dataVars, dialogVars, tables, schema, entries,
                   mingled, overtaken>>

\* The closed tab's other handlers end unseen.
Dropped(c) ==
    /\ ~mounted
    /\ pc[c] \in {"connecting", "asked"}
    /\ pc' = [pc EXCEPT ![c] = "done"]
    /\ UNCHANGED <<mounted, sessionVars, op, arg, dataVars, dialogVars, tables,
                   schemaVars, historyVars>>

TabClicks ==
    \/ \E c \in Calls :
          \/ RunQuery(c) \/ RefreshSchema(c) \/ OpenCreateTable(c)
          \/ RequestPage(c) \/ ValidateFile(c)
          \/ \E t \in Tables : BrowseTable(c, t) \/ OpenImport(c, t) \/ SubmitTable(c, t)
    \/ CloseDialog
    \/ CloseTab

TabAnswers ==
    \/ \E c \in Calls :
          \/ Connected(c) \/ Fails(c) \/ Dropped(c)
          \/ RunAnswered(c) \/ BrowseAnswered(c) \/ PageAnswered(c)
          \/ TableCreated(c) \/ FileValidated(c)
    \/ \E l \in loads : ReadSchema(l) \/ SchemaLoaded(l) \/ SchemaFails(l)

\* The tab is closed and its handlers have ended.
TabIdle ==
    /\ ~mounted
    /\ \A c \in Calls : pc[c] \in {"idle", "done"}
    /\ UNCHANGED tabVars

TabNext == TabClicks \/ TabAnswers \/ TabIdle

TabSpec == TabInit /\ [][TabNext]_tabVars

-----------------------------------------------------------------------------
\* A tab has at most one session, and a closed tab none ("no session leak"),
\* if the user waits for a connection: ensureSession does not, and a second
\* click, or closing the tab, while it connects leaves a session that nobody
\* will close.
NoSessionLeaks ==
    ~raced => open = IF mounted /\ ref # None THEN {ref} ELSE {}

\* Whatever the order of the answers, when nothing is in flight no pane of
\* the tab still says that it is connecting, running or loading, which would
\* disable its buttons for good; and a query in flight can be cancelled, if
\* no browse, whose answer resets runState, was begun under it: the Cancel
\* button is there as long as runState says so.  The state keeps its types.
NothingSpins ==
    /\ TabTypeOK
    /\ mounted =>
          /\ Pending("run") = {} => runState \notin {"connecting", "running"}
          /\ ~mingled /\ Pending("run") # {} => runState \in {"connecting", "running"}
          /\ Pending("browse") \cup Pending("page") = {} => ~browsing
          /\ loads = {} => schema # "loading"

\* The grid's edits go to the table whose rows it shows ("so the grid knows
\* unambiguously which table/schema/session to target"), if one table is
\* fetched at a time; the late page of one table lands in the other's grid.
GridBoundToItsTable ==
    ~mingled /\ shown # None /\ ctx # None => shown = ctx

\* The tree lists a table created here ("so the new table shows up
\* immediately"), unless a listing that was taken before arrives last.
TreeShowsCreatedTables ==
    ~overtaken /\ schema = "loaded" => tables \subseteq entries

\* "See a validation report (mismatches, or an all-clear row count), then
\* confirm the actual import" (ImportDialog.tsx): the all-clear report of a
\* file is shown, and the window is not blank instead.
AllClearIsShown == ~blank
=============================================================================
