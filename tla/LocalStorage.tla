---------------------------- MODULE LocalStorage ----------------------------
(***************************************************************************)
(* Stackyard's own SQLite file (internal/storage): the versions of its     *)
(* schema, applied at each launch, and the saved connections with the      *)
(* snippets and the query history that hang on them.  The app may be       *)
(* killed at any time, and launched twice.  What the window shows of the   *)
(* file, and the sessions it opened from it, outlive the rows.             *)
(***************************************************************************)
EXTENDS Naturals, FiniteSets, Sequences

CONSTANTS Instances,  \* processes of the app that may run at a time
          MaxSaved,   \* how many connections are ever saved
          MaxSnippets \* how many snippets are ever created

VARIABLES
    version,   \* PRAGMA user_version
    altered,   \* the versions whose statements have been committed
    app,       \* app[p]: "off", "opening", "up" or, without storage, "down"
    todo,      \* todo[p]: the versions that are left to apply
    sequence,  \* sqlite_sequence: the last id given out in two of the tables
    saved,     \* connections: [id, born]; born (history) tells reused ids apart
    births,    \* history: how many connections have been saved
    snippets,  \* [id, scope, chosen]: chosen (history) is born of the scope
    kept,      \* history: the snippets created and not deleted by the user
    history,   \* query_history: [scope, ran], ran being born of its session
    shown,     \* shown[p]: the connections a list or a form still names
    opened     \* opened[p]: query sessions, [id, born, chosen, busy]

storeVars == <<saved, births, snippets, kept, history, sequence>>
storageVars == <<version, altered, app, todo, storeVars, shown, opened>>

Global == 0   \* connection_id is NULL
Versions == <<1, 2>>
Ids == 0..MaxSaved

StorageInit ==
    /\ version = 0
    /\ altered = {}
    /\ app = [p \in Instances |-> "off"]
    /\ todo = [p \in Instances |-> <<>>]
    /\ sequence = [connections |-> 0, snippets |-> 0]
    /\ saved = {}
    /\ births = 0
    /\ snippets = {}
    /\ kept = {}
    /\ history = {}
    /\ shown = [p \in Instances |-> {}]
    /\ opened = [p \in Instances |-> {}]

-----------------------------------------------------------------------------
(* Launches. *)

\* migrate reads the version once, outside the transactions that follow.
Launch(p) ==
    /\ app[p] = "off"
    /\ todo' = [todo EXCEPT ![p] = SubSeq(Versions, version + 1, Len(Versions))]
    /\ app' = [app EXCEPT ![p] = IF version < Len(Versions) THEN "opening" ELSE "up"]
    /\ UNCHANGED <<version, altered, storeVars, shown, opened>>

\* Mutant of Committed: the version is set after the commit.
CommittedUnversioned(p, v) ==
    /\ altered' = altered \cup {v}
    /\ todo' = [todo EXCEPT ![p] = Tail(@)]
    /\ \/ /\ version' = v
          /\ app' = [app EXCEPT ![p] = IF Len(todo[p]) = 1 THEN "up" ELSE @]
       \/ /\ version' = version
          /\ app' = [app EXCEPT ![p] = "off"]

\* The statements and the version they lead to are one transaction.
Committed(p, v) ==
    /\ altered' = altered \cup {v}
    /\ todo' = [todo EXCEPT ![p] = Tail(@)]
    /\ version' = v
    /\ app' = [app EXCEPT ![p] = IF Len(todo[p]) = 1 THEN "up" ELSE @]

\* applyMigration.  Version 1 creates what is not there; version 2 adds a
\* column and fails if the table has it: the transaction is rolled back and the
\* app runs without local storage.
ApplyMigration(p) ==
    /\ app[p] = "opening"
    /\ LET v == Head(todo[p])
       IN  IF v = 1 \/ v \notin altered
           THEN Committed(p, v)
           ELSE /\ app' = [app EXCEPT ![p] = "down"]
                /\ UNCHANGED <<version, altered, todo>>
    /\ UNCHANGED <<storeVars, shown, opened>>

\* The window is closed, or the process killed: a transaction that is not
\* committed has left nothing.
Exit(p) ==
    /\ app[p] # "off"
    /\ app' = [app EXCEPT ![p] = "off"]
    /\ todo' = [todo EXCEPT ![p] = <<>>]
    /\ shown' = [shown EXCEPT ![p] = {}]
    /\ opened' = [opened EXCEPT ![p] = {}]
    /\ UNCHANGED <<version, altered, storeVars>>

-----------------------------------------------------------------------------
(* Saved connections.  Every bound method first asks for the database. *)

Bound(p) == app[p] = "up" /\ UNCHANGED <<version, altered, app, todo>>

ListConnections(p) ==
    /\ Bound(p)
    /\ shown' = [shown EXCEPT ![p] = @ \cup saved]
    /\ UNCHANGED <<storeVars, opened>>

\* Mutant of NextConnection: INTEGER PRIMARY KEY without AUTOINCREMENT.
NextConnectionReused ==
    CHOOSE id \in 1..MaxSaved :
        (\A c \in saved : c.id < id) /\ (id > 1 => \E c \in saved : c.id = id - 1)

NextConnection == sequence.connections + 1

SaveConnection(p) ==
    /\ Bound(p)
    /\ births < MaxSaved
    /\ births' = births + 1
    /\ sequence' = [sequence EXCEPT !.connections = NextConnection]
    /\ saved' = saved \cup {[id |-> NextConnection, born |-> births + 1]}
    /\ UNCHANGED <<snippets, kept, history, shown, opened>>

\* Mutant of Unlinked: ON DELETE CASCADE, as the history has it.
UnlinkedCascading(id) == {s \in snippets : s.scope # id}

\* ON DELETE SET NULL: the snippets of the connection become global ones.
Unlinked(id) ==
    {IF s.scope = id THEN [s EXCEPT !.scope = Global, !.chosen = Global] ELSE s : s \in snippets}

\* DeleteConnection; the history goes with the connection, and the list is read
\* again.  The sessions that were opened from it stay.
DeleteConnection(p) ==
    \E x \in shown[p] :
        /\ Bound(p)
        /\ \E c \in saved : c.id = x.id
        /\ saved' = {c \in saved : c.id # x.id}
        /\ history' = {e \in history : e.scope # x.id}
        /\ snippets' = Unlinked(x.id)
        /\ UNCHANGED <<sequence, births, kept, shown, opened>>

\* ConnectUsingSavedConnection for a row, an entry of the history or a snippet
\* on the screen, and OpenConnection with what it returns.
Connect(p) ==
    \E x \in shown[p], c \in saved :
        /\ Bound(p)
        /\ c.id = x.id
        /\ opened' = [opened EXCEPT ![p] = @ \cup
              {[id |-> c.id, born |-> c.born, chosen |-> x.born, busy |-> FALSE]}]
        /\ UNCHANGED <<storeVars, shown>>

-----------------------------------------------------------------------------
(* Query history. *)

\* RunQuery: the query is sent, and its session looked up, ...
RunQuery(p) ==
    \E s \in opened[p] :
        /\ ~s.busy
        /\ Bound(p)
        /\ opened' = [opened EXCEPT ![p] = (@ \ {s}) \cup {[s EXCEPT !.busy = TRUE]}]
        /\ UNCHANGED <<storeVars, shown>>

\* Mutant of Recorded: foreign keys are not enforced.
RecordedUnchecked(s) == {[scope |-> s.id, ran |-> s.born]}

\* What an INSERT into query_history adds: the connection must exist.
Recorded(s) ==
    {[scope |-> c.id, ran |-> s.born] : c \in {d \in saved : d.id = s.id}}

\* ... and recordQueryHistory, when it has answered: a failure to write the
\* entry is ignored.
RecordQueryHistory(p) ==
    \E s \in opened[p] :
        /\ s.busy
        /\ Bound(p)
        /\ history' = history \cup Recorded(s)
        /\ opened' = [opened EXCEPT ![p] = (@ \ {s}) \cup {[s EXCEPT !.busy = FALSE]}]
        /\ UNCHANGED <<sequence, saved, births, snippets, kept, shown>>

CloseSession(p) ==
    \E s \in opened[p] :
        /\ Bound(p)
        /\ opened' = [opened EXCEPT ![p] = @ \ {s}]
        /\ UNCHANGED <<storeVars, shown>>

DeleteQueryHistoryEntry(p) ==
    \E e \in history :
        /\ Bound(p)
        /\ history' = history \ {e}
        /\ UNCHANGED <<sequence, saved, births, snippets, kept, shown, opened>>

-----------------------------------------------------------------------------
(* Snippets, global or for one connection that the form offers. *)

Scopes(p) == shown[p] \cup {[id |-> Global, born |-> Global]}
Exists(scope) == scope.id = Global \/ \E c \in saved : c.id = scope.id

CreateSnippet(p) ==
    \E x \in Scopes(p) :
        /\ Bound(p)
        /\ Exists(x)
        /\ sequence.snippets < MaxSnippets
        /\ sequence' = [sequence EXCEPT !.snippets = @ + 1]
        /\ snippets' = snippets \cup
              {[id |-> sequence'.snippets, scope |-> x.id, chosen |-> x.born]}
        /\ kept' = kept \cup {sequence'.snippets}
        /\ UNCHANGED <<saved, births, history, shown, opened>>

\* A scope that is gone is an error, and the row stays as it was.
UpdateSnippet(p) ==
    \E x \in Scopes(p), s \in snippets :
        /\ Bound(p)
        /\ Exists(x)
        /\ snippets' = (snippets \ {s}) \cup {[s EXCEPT !.scope = x.id, !.chosen = x.born]}
        /\ UNCHANGED <<sequence, saved, births, kept, history, shown, opened>>

DeleteSnippet(p) ==
    \E s \in snippets :
        /\ Bound(p)
        /\ snippets' = snippets \ {s}
        /\ kept' = kept \ {s.id}
        /\ UNCHANGED <<sequence, saved, births, history, shown, opened>>

StorageNext ==
    \E p \in Instances :
        \/ Launch(p) \/ ApplyMigration(p) \/ Exit(p)
        \/ ListConnections(p) \/ SaveConnection(p) \/ DeleteConnection(p) \/ Connect(p)
        \/ RunQuery(p) \/ RecordQueryHistory(p) \/ CloseSession(p) \/ DeleteQueryHistoryEntry(p)
        \/ CreateSnippet(p) \/ UpdateSnippet(p) \/ DeleteSnippet(p)

StorageSpec == StorageInit /\ [][StorageNext]_storageVars

-----------------------------------------------------------------------------
\* No launch fails to apply the versions it has left.
LaunchesSucceed == \A p \in Instances : app[p] # "down"

\* "It is safe to call on every app launch: schema creation is idempotent"
\* (Open): once both versions have been committed the file says so, and no
\* launch has version 2 left, whose second ALTER TABLE would fail.
CurrentSchemaStays == altered = {1, 2} => version = 2

IsOf(id, born) == \E c \in saved : c.id = id /\ c.born = born

\* A session belongs to the connection that was chosen on the screen, however
\* old the screen is; each entry of the history and each scoped snippet to a
\* connection that is there, the one whose session ran the query or that was
\* chosen; and deleting a connection deletes no snippet.
LinksHold ==
    /\ \A p \in Instances : \A s \in opened[p] : s.born = s.chosen
    /\ \A e \in history : IsOf(e.scope, e.ran)
    /\ \A s \in snippets : s.scope # Global => IsOf(s.scope, s.chosen)
    /\ {s.id : s \in snippets} = kept

StorageTypeOK ==
    /\ version \in {0, 1, 2}
    /\ altered \subseteq {1, 2}
    /\ app \in [Instances -> {"off", "opening", "up", "down"}]
    /\ \A p \in Instances : app[p] = "opening" <=> todo[p] # <<>>

\* Local storage survives kills between any two steps, and stale lists.  A
\* process that is up has the whole schema.
StorageSurvives ==
    /\ StorageTypeOK
    /\ LaunchesSucceed
    /\ \A p \in Instances : app[p] = "up" => version = 2 /\ altered = {1, 2}
    /\ LinksHold
=============================================================================
