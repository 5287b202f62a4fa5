# Stackyard: TLA+ models, checks and proofs

Stackyard is a desktop application (Go behind, React in front, joined by Wails) that starts
databases in Docker containers and works with the data in them. This directory holds TLA+
models of its concurrent core, the TLC configurations that check them and TLAPS proofs about
them. `PROJECT.json` maps every definition to the source lines it stands for and lists the
runs, the mutants each property was tried against, the theorems and the hazards.

    tlc -workers 2 -config QuerySessions_live.cfg MCQuerySessions.tla   # one run
    tlapm QuerySessionsProofs.tla                                       # its proofs (section 4)

Nothing in the code ties some of the parts together, so their modules are also combined into
modules that follow one part at a time (`Application`, `DatabaseClient`, `TargetDatabase`, and
`DocumentTabs` for its three kinds of tab); each component's module has an initial predicate, a
next-state relation and, where it is also used alone, a specification of its own as well. `CallIds`
declares what `QuerySessions` and `Migrations` share, the ids of calls: `MCTargetDatabase` follows
either the query sessions or what is done to a database (`followed`), in one run.

## 1. The system

Every bound method of `App` is called from the web view and runs in a goroutine of its own; the
view awaits some answers and ignores others. Nothing serialises the calls except a few mutexes,
SQLite's single connection, the Docker engine and the target databases.

| Component | State | Operations | What makes it correct |
|---|---|---|---|
| SQL query sessions (`app.go`, `multiquery.go`, `dbengine/batch.go`, `postgres`, `mysql`) | session map, cancel registry, one connection pool per session | open, run (one statement or a script), browse, introspect, cancel, close, shutdown | no engine leaked or closed twice; a cancel hits a query of its session and only that; closing and exiting terminate; history rows belong to a saved connection |
| MongoDB and Redis sessions (`mongo_session.go`, `redis_session.go`) | two more session maps, without a registry | open, document and key operations, close | every session belongs to one tab and is closed with it; an operation does one thing to the store |
| Environments (`app.go`, `internal/docker`, `internal/storage`) | SQLite rows, containers, volumes, ports | create, duplicate, rename, delete, start, stop, restart, reset volume | no container without its rows; a reported success is a fact; ports do not collide |
| Status watcher (`app.go`, `StatusDashboard.tsx`) | one poller goroutine, a mutex, a wait group | start, stop, poll, shutdown | one poller at most; it runs while the dashboard is mounted; stop and shutdown return |
| Migrations (`migrations.go`, `internal/migrations`) | file pairs in a folder, the `schema_migrations` table, the schema | scaffold, list, apply, rollback | schema and table agree; order; half-written pairs are never run |
| SQL editor tab (`QueryEditor.tsx`) | one lazily opened session, the result, the browsed table, the schema tree | run, cancel, browse, page, refresh, create table, import, export, close | one session per tab; what is on screen belongs together; late answers do no harm |
| Editable grid (`grid.go`, `gridsql.go`, `ResultsGrid.tsx`) | the rows on screen, the cell being edited, selection, per-cell errors | edit, insert, delete, next page | an edit or a deletion hits the row the user chose |
| Import and export (`import.go`, `export.go`, `internal/importdata`, `internal/export`) | a file, a table | validate, import, export in pages | a file is the table; validation and the database agree |
| Table creation (`createtable.go`, `CreateTableDialog.tsx`) | none | one CREATE TABLE from a form | columns keep the types they were made with |
| Schema diagrams, schema export (`internal/diagram`, `internal/schemaexport`) | none | text from two introspection queries or a sample of documents | unique identifiers, complete references, true shapes |
| Diagram view (`SchemaDiagramView.tsx`) | one session, namespaces, the diagram | connect, select, regenerate, leave | the diagram is of the selection; no session leaks |
| MongoDB document view (`MongoDocumentView.tsx`) | collection, filter, page of documents, two editors | select, filter, page, edit, insert, delete | what is on screen is of the selected collection; writes go where their document came from; pages fit together |
| Redis key browser (`RedisKeyBrowser.tsx`, `RedisKeyDetail.tsx`, `RedisValueViews.tsx`) | scan state, ticked keys, the open key, its editor and TTL | scan, load more, tick, delete, open, save, rename, change elements and TTL | a finished scan is exact; a save hits the key or element it was loaded from; nothing is overwritten |
| Tabs, snippets, history (`DbClientView.tsx`, `SnippetsPanel.tsx`) | lists on screen, which outlive the rows | open, close, save, delete, connect | what is named by an id is what was chosen |
| Local storage (`internal/storage`) | SQLite file, `user_version` | schema migration at launch, CRUD | versions applied once and in order, foreign keys |

Interactions: the editor tab and the grid call the session methods; the migrations view opens an
SQL session of its own; the environment view and the dashboard call the profile methods and the
watcher; the watcher emits an event the dashboard subscribes to; the shutdown callback stops the
watcher, drains the sessions and closes local storage while calls may still be running.

What is hard: overlapping calls of one session (cancel and close against run), partial failure of
multi-step Docker and SQLite work that has no transaction, a read that is stale when it is used
(container status before a delete, ports before an insert, applied versions before an apply),
implicit commits, calls that overtake each other because the view does not wait, and waiting
while a mutex is held. `PROJECT.json` lists each hazard at its line, with the properties that
would catch it or the reason why none does.

## 2. The modules

### SessionLifecycle, QuerySessions, QuerySessionsProofs

`SessionLifecycle` is the contract the frontend relies on: an id is issued once, is live until
one call or the shutdown retires it, and serves only calls that ask while it is live.

`QuerySessions` is the code. `sessions` are the keys of `App.querySessions`, `cancels` is
`App.queryCancels`, `engine` the pool of each session's engine, `pc`, `op`, `sid`, `left`, `held`
are the goroutines. A step is the code between two points another goroutine can observe: a
critical section of one of the two mutexes (`Lookup`, `PutCancel`, `PopCancel`, `TakeCancel`,
`CloseRemove`, `OpenPut`), the two reads of the pool field (`CheckPool`, `UsePool`), a driver
call and its answer. The race between `Close`, which sets the pool to nil, and a call that has
checked it is a nondeterministic choice in `UsePool`: an error, or a nil dereference that leaves
only the deferred functions to run. A script is a number of statements; a failed one does not
stop the next. Every call that neither registers a cancel function nor changes a session is one
of two kinds, `browse` (logs to `query_history`) and `introspect` (does not).
Postgres' `Close` waits for the connections in use, MySQL's does not (`Drained`). Shutdown is
five steps, the middle three with `querySessionsMu` held. Once it has dropped the map, the map
owns nothing (`OwnedByMap`): an OpenConnection that is late puts its engine into a new map that
nobody will close (`Stranded`), which `EngineOwnedOnce` excepts and run `sessions_exit` shows.

### Environments, EnvironmentsProofs

A service is a pair of a profile and an engine. `services` and `hostPort` are SQLite rows,
`container` and `volumes` what Docker holds under the names derived from the ids. Each request
to Docker and each SQL statement is one action; `Abort` ends a handler anywhere (an error, a
timeout, the end of the application) and undoes nothing, as the code does. `patient` is the one
assumption about the user, chosen in the initial state: a patient user lets the calls on one
profile return before the next, which is what the view's busy flags ask of them; the view forgets
those flags when it is left, and "Reset volume" does not use them, so both kinds of user exist.
`origin` (history) is the service a port was first assigned to: services share a port only by having
copied it (`CreatedPortsDistinct`; two creations at once, which a patient user avoids, may collide).
Left out: image pulls, readiness, the bridge network (created, never removed), renaming, and
explicit host ports (the view always sends 0).

### Migrations, MigrationsProofs

A migration is a version (the second it was scaffolded in) and a slug; `ups` and `downs` are the
files, `tracked` the rows of `schema_migrations`, `inForce` what the schema holds, `history` the
order of application (a history variable). `DDLCommits` distinguishes MySQL, which commits at
every DDL statement, from Postgres. Pairs also arrive from version control, and applies and
rollbacks may run at the same time (two sessions, or a view left and entered again); `crossed`
records, as a history variable, that calls have overlapped or that a pair has arrived which is
older than one already there. `Distinct` assumes that no two pairs have the same version; the code does not ensure it,
since only a file of the same slug stops a second scaffold within one second.
A rollback that is overtaken by another rollback runs the down file again: what a file does when
run twice is the user's, so nothing is stated about it.

### StatusWatcher

`poller[c]` is the goroutine that call `c` started, `mu` the mutex while it is held across a
wait, `running`, `watch` and `stopped` the fields of `App`. `hasty` records (as a history
variable) that the user left or entered the dashboard before earlier calls had returned; then
the start of a visit can overtake the stop of the one before, and the dashboard goes unfed.
`DashboardIsFed` therefore excludes it.

### DatabaseClient: EditorTab, EditableGrid, SchemaDiagram, with EditableGridProofs and DatabaseClientProofs

`DatabaseClient` is the part of the client's window that works on SQL tables: a tab, the grid in
it, and the view of a schema's diagram. `ClientIds` holds what they share.

`EditorTab`: `ref` is `sessionIdRef`, `open` the sessions on the Go side, `bref`, `ctx`, `shown`
are `browseTableRef`, the table of `browseContext` and the table whose rows `browseResult` holds;
a call is one invocation of a handler, `connecting` in `ensureSession` or `asked` at its own
await. `loads` are the `loadSchema` calls in flight, of which one handler may have two; the server
lists the tables at one moment and the answer is applied at another. A dialog covers the window,
so nothing behind it is clicked, but answers still arrive, and a dialog or the tab can be closed
over a pending call. After the tab is closed state updates are ignored and only
`ensureSession`'s effect, the session, remains. Validation of a file that matches its table
unmounts the whole window (`FileValidated`, run `import_dialog`), so the import's second button
is never reached and is not an action.
The history variables name the disciplines that the code does not enforce: `raced` (two
connects at once, or the tab closed during one), `mingled` (two of query, browse, page at once),
`overtaken` (a table created during a schema load).

`EditableGrid`: `rows` is the list on screen, each row remembering the table it was read from;
`edit`, `menu`, `ticked`, `rowErrs` address rows by index, as the code does, and carry (as
history) the row that was there when they were noted, which is what the properties compare. A
call captures the rows of its closure (`from`), is served by the database (`table`), and its
answer is applied later. `crossed` records that a deletion overlapped with anything else, a reload
with a write, or two updates of one cell with each other; the grid only disables a second
deletion. Other pages and other tables are alike `Reload`. Nobody else writes to the table. An insertion
is two steps on the Go side: the INSERT (`"inserted"`), then what `resolveInsertedRow` makes of it, the row
read back (`RowReadBack`; Postgres' RETURNING, or MySQL's second SELECT), the submitted values without a
key or defaults (`RowSubmitted`, whence `known` and the blanks of `Shows`), or an error although the row
is there (`RowUnread`; `missed` has its key until the next reload). The errors of cells are left out:
they stay at their index when a deletion shifts the rows.

`SchemaDiagram`: `held` is `sessionIdRef`, `live` the sessions on the Go side, `picture` what the
drawn diagram is of. `tangled` records that a diagram or a connection was asked for while a
diagram was drawn, or the view left while connecting, which nothing in the view prevents.

### DocumentTabs: ViewRequests, MongoDocuments, RedisBrowser, RedisValues, with DocumentTabsProofs

`ViewRequests` is what the two views on document stores have in common: a slot `c` holds a call
of a bound method from the handler's start (`Send`, with what its closure captured in `arg`)
over the moment the Go side carries it out (`Serve`) to the handler's last part (`Answered`, or
`Failed`, perhaps after the work was done). `MongoDocuments`, `RedisBrowser` and `RedisValues` are
the views, with the store (`store`, `db`, `stored`) they work on; `DocumentTabs` composes them with the life of the
tab's session, whose effect React's StrictMode runs twice. Nothing is cancelled when the user
moves on, except the loads of a Redis value, which are a field of their own (`reading`).

`MongoDocuments`: a document is its _id and, as history, the collection it was read from; `walk`
is what a walk through the pages has shown. `RedisBrowser`: `listed`, `cursor`, `scanned` are
`scanState`; data is named for the key it was first stored under, so that a lost value can be
told. `RenameKey` is two commands with a state between them (`"checked"`). `orphans` are
calls whose component has been unmounted, so that they no longer reset a flag.
`RedisValues`: the panel stays on one key, of any of the five types, with a TTL. Each command is
an operator on a value, a function from positions, fields or members; the editors show a window
of a list or a sorted set, or pages of a set (`rows`, `start`); the pager is there while rows are,
and Next only after a window that came full (`filled`). A save of an element goes by index, and the row
under edit can be cancelled or exchanged for another until it is out.
SET drops a TTL (`dropped`, history, says that a write did and that the TTL has not been read since),
which `ScreenShowsStore` knows and `SavedStringKeepsTTL` holds against the comment of `SetString`
(section 5); a TTL below a second is truncated to 0, which deletes the key.
The history variable `vague` says that two requests were out at once or that an answer got lost.
Properties about what the screen shows exclude it; those about flags, sessions, and the key and
element of a Redis save do not. That a MongoDB write goes to the collection its document came from
(`WritesHitShownDocument`) needs more: no crossing, and a page loaded without an error (`calm`).
`EditsAreInPlace` is the same without conditions, which the code violates (section 5).

### TargetDatabase: Migrations, TableFiles, SchemaFiles, CollectionShapes, with FilesProofs

`TargetDatabase` is what the app does to, and tells of, a target database in several steps.

`TableFiles`: `cols` and `lines` are the table, `disk` the file, `job` the one bound method that
runs; each of its round trips is a step, between which other sessions insert, delete, and add or
drop a column. A cell is one of a few literals that tell the types apart, NULL and the empty
string; a file is its records, and the two packages' conversions are operators on them
(`EncodeCSVField`, `ParseCSV`, `Validate`). What validation takes for a value of a column
(`Plausible`), what the column can have (`Literals`) and what the database makes of a text
(`Reads`) are three things: a number may be too large, a time lack its date, and `1e+06` is a
number to a numeric column only. A refused INSERT leaves the table as it was. A dump has names,
types and NOT NULL, no defaults; primary keys are left out. `steady` (history) says that the
others have at most added rows at the end since the job began; `ExportIsExact` claims nothing of
other exports. Two kinds of CSV file are excepted from it, which `CSVKeepsTheRows` and `CSVIsAccepted`
are about (section 5).

`SchemaFiles`: `catalog` and `keys` are the schema, which the New table form and other sessions
extend; `describe` is the export or diagram that runs. A name is the sequence of its words, so
that suffixes and camel case can be told from the name; `Words` is what names are made of. Postgres'
keys are joined by constraint name, MySQL's are paired by position (`KeyColumns`). `calm` (history)
says that the schema has not changed since the first of the two queries. Of Prisma's own rules the
model has those on names, references and pairs of relation fields (`PrismaRefers`, `PrismaResolves`);
that each model needs a unique key and each reference a unique target is left to Prisma.

`CollectionShapes`: a random sample of a collection and the shape inferred from it.

### Application: StatusWatcher, LocalStorage, with ApplicationProofs

`LocalStorage`: `version` is `PRAGMA user_version`, `altered` the versions whose statements are
committed, `app[p]` and `todo[p]` a process and what it has left to apply. Transactions of two
processes are serial, as SQLite's are. `saved`, `snippets`, `history` are rows; `shown[p]` is
every connection that something on a screen still names, also after it was deleted, since the
panel of snippets and the list of the history are not read again then. `born` and `chosen`
(history) tell which connection an id meant to the user. Only the AUTOINCREMENT ids make stale
lists harmless.

## 3. The runs

| Run | Module | Properties | Shows |
|---|---|---|---|
| `sessions_live` | `MCQuerySessions` (`QuerySessions_live.cfg`) | `TypeOK`, `HistoryRefersToConnection`, `RunningQueryCancellable`, `CancelledCallReturns`, `ClosingReturns` | Scripts of two statements, while the frontend keeps one query per session open: every running query can be cancelled, and history rows belong to a connection that is there; a cancelled call returns, and closing and shutdown return whenever statements do, although shutdown holds the session mutex while it waits. |
| `sessions_newest` (violation) | `MCQuerySessions` (`QuerySessions_v_newest.cfg`) | `RunningQueryCancellable` | With two overlapping queries of one session, the first one's deferred popQueryCancel leaves the second running with nothing that can cancel it. |
| `sessions_exit` (violation) | `MCQuerySessions` (`QuerySessions_v_exit.cfg`) | `NothingLeaksPastExit` | OpenConnection is still dialling when the shutdown has closed the sessions and dropped the map; putQuerySession makes a new map, and nobody closes the engine it holds. |
| `env_safety` | `MCEnvironments` (`Environments_safety.cfg`) | `PatientDeleteLeavesNothing`, `CreatedPortsDistinct`, `StartStopEffective`, `ResetErasesData` | Profiles created, copied, started, stopped, reset and deleted by interleaved calls. While the calls on one profile do not overlap, no container outlives its rows and services have a port in common only by having copied it, whatever fails halfway, and a start or stop that reports success has reached every service; a reset that reports success has erased the data even if they do overlap and other programs take the port. |
| `env_orphan` (violation) | `MCEnvironments` (`Environments_v_orphan.cfg`) | `NoOrphanedContainer` | A StartProfile or ResetServiceVolume that overlaps a DeleteProfile starts a container after its rows are gone. |
| `target` | `MCTargetDatabase` (`TargetDatabase_parts.cfg`) | `TrackedIffInForce`, `AppliedIsPrefix`, `NothingHalfFormed`, `RollbackRevertsLast`, `ExportIsExact`, `ImportIsWhole`, `SchemaFileResolves`, `ShapesFitTheSample`, `EngineOwnedOnce`, `MapHoldsOpenEngines`, `RegisteredCancelIsLive`, `CancelHitsOwnSession`, `NoTeardownUnderStatement`, `ImplementsLifecycle` | The way to a target database: four concurrent calls on a Postgres and a MySQL session, two queries of one session allowed to overlap: ownership of engines and the cancel registry stay consistent in every interleaving, shutdown included, and the maps implement the session life cycle the frontend relies on. And what is done to its schema and rows: scaffolding, pulled files, and overlapping applies and rollbacks that may fail anywhere keep schema and tracking table in step on an engine with transactional DDL, run no half-written pair, and, while versions only grow and calls do not overlap, apply in order and take back the last one. An exported file is the table, or the error is shown, unless rows are written between two pages; an import adds the whole file or nothing, also when the database refuses what validation let through. Tables made with the form and read back while others change them give consistent schema files, and a sample of documents a shape that every one of them fits. |
| `mig_ddl` (violation) | `Migrations` (`Migrations_v_ddl.cfg`) | `NeverEndsHalfApplied` | Where DDL commits implicitly (MySQL), a failure before the tracking row is written leaves a schema change that is not recorded. |
| `application` | `Application` (`Application_parts.cfg`) | `OnePoller`, `DashboardIsFed`, `StorageSurvives`, `StopReturns` | What the application keeps to itself. The status watcher under starts, stops and the shutdown in any order: one poller at most, gone when a stop returns; it runs exactly while the dashboard is on screen if the visits are slow; and every stop returns although it waits with the mutex held. Its SQLite file over launches that may be killed between any two statements, with connections, snippets and history edited from lists that may be stale: the schema is complete once open, no row refers to a row that is gone or to another than it was made for. |
| `client` | `MCDatabaseClient` (`DatabaseClient_parts.cfg`) | `NoSessionLeaks`, `NothingSpins`, `GridBoundToItsTable`, `TreeShowsCreatedTables`, `WritesHitChosenRows`, `GridShowsTable`, `DiagramIsOfSelection` | Clicks in an SQL tab, in its editable grid and in the schema diagram's view, answered in any order, also after they are closed: no button is disabled for good, and under which discipline of the user no session leaks, a grid, a tree and a diagram show what was asked for, and every statement is about the rows the user chose. |
| `import_dialog` (violation) | `EditorTab` (`EditorTab_v_import.cfg`) | `AllClearIsShown` | A file that matches its table is picked in the import dialog: the empty report arrives as null and the application disappears. |
| `document_tabs` | `MCDocumentTabs` (`DocumentTabs_tabs.cfg`) | `SessionsAccountedFor`, `NothingSpins`, `EditsHitTheirSource`, `WalkSeesEveryMatch`, `ScreenShowsStore`, `NothingLost` | A MongoDB or Redis tab whose requests answer in any order, fail or lose their answer, over values of all five Redis types with a TTL: its session is never forgotten nor closed under it, buttons come back, and edits reach the key or list element they were made from. Without crossing requests a page, a walk through the pages, a finished scan and the panel of a key show what the store holds and nothing is lost; edits and deletions of documents reach their collection if its page had been loaded; and the panel's TTL is the server's unless a write has dropped it. |
| `two_launches` (violation) | `LocalStorage` (`LocalStorage_v_launches.cfg`) | `CurrentSchemaStays` | Two processes of the application are launched for the first time at once: both read version 0; one applies versions 1 and 2, then the other applies version 1 again, which sets the version of the finished file back to 1. |

Bounds. Calls are one-shot: with four of them a session is opened, used by two overlapping
calls and closed or cancelled, which is every pairwise race of the session code; its two sessions
in run `target` are one Postgres and one MySQL engine. The scripts of `sessions_live` have two
statements (`MaxStatements`), between which a deletion or a close can come. Three profiles of two engines
are the least in which a profile is created when the original of a copy is gone, and one service of a
profile fails while the other is running; an impatient user's calls overlap on one profile with one engine (`Bound`),
as they could not race on two. Four migration calls over two seconds and two slugs are two applies beside a
rollback and a scaffold, with pairs that arrive by themselves. Four clicks in a tab open its
session, browse two tables and turn a page; no more than two handlers and two schema loads are in
flight at a time (`InFlightBound`), since each race is one of two. Three calls of a grid
(`MaxTasks`) over two tables with the same two keys are an edit, a deletion that succeeds for one
row and fails for the other, and a reload; what follows a step that sets `crossed` is not explored
in the grid, as nothing is claimed of it. The tables start with the values `Early` and others are
entered, which only restricts the initial state. Two requests of a document view are every pair
that can cross; what follows a crossing, or a lost answer, is explored until all requests have ended
(`Drain`). Three documents in pages of two, two collections with common ids, one of which starts
with one document, two keys on two scan pages, values of up to two parts in windows of one. The
view and its session's life share only `ref`, so their product is not explored (`Apart`), and
neither is the initial state of the view a tab does not show (`Unused`). The pattern of a Redis
scan is edited while no key is open or ticked (`SettledPattern`): a new scan closes the panel anyway.
A table of up to two rows in pages of one (`Page`, `MaxLines`) is an export of three pages, with
one write of another session during it (`MaxWrites`); the layouts have a column of every type and
one is a single column, and the foreign files have each way a record can fall short or a value
only look right. Two changes of a schema (`MaxDDL`) around a
description make a key and a table after it was read; the catalogs have two keys between the same
tables, names that meet relation names, and columns that differ by a capital. Six documents in
samples of three have every kind of nesting the inference distinguishes. Two connections ever
saved (`MaxSaved`) are the least in which an id could be used twice, and two snippets
(`MaxSnippets`) are one of each.
Calls, and tables or collections, are interchangeable, so symmetry over them is sound; it is not
used where liveness is checked.

`CHECK_DEADLOCK` stays on: where a system can come to rest its specification has an explicit
stutter, enabled only when all calls have returned.

Fairness. `QuerySessions` assumes that goroutines are scheduled (weak fairness of each call's
step) and that a driver answers a cancelled context or a call with a timeout; a query that is not
cancelled may run for ever, so `ClosingReturns` assumes that statements end. `StatusWatcher`
(and with it `Application`) adds strong fairness for two steps: taking the mutex, since Go's `sync.Mutex` hands over to a
waiter after a millisecond, and leaving the poller's loop, since `select` chooses at random
among ready branches and cannot take the ticker for ever. Nothing makes the user act.

## 4. What is proved

Eight modules hold the proofs, each of which checks by itself:

    for m in QuerySessions Environments Migrations Application \
             EditableGrid DatabaseClient DocumentTabs Files; do tlapm ${m}Proofs.tla; done

Every theorem is about a `Spec` as the runs check it, for any values of the CONSTANTS: any number
of calls, sessions, profiles, keys, documents, rows or tables, and pages of any length. All safety
properties of the passing runs are proved but `ShapesFitTheSample`.

- `QuerySessionsProofs!TypeCorrect` (`TypeOK`): The maps, engines and goroutines keep their types for any number of calls, sessions and statements.
- `QuerySessionsProofs!NoLeakNoDoubleClose` (`EngineOwnedOnce`): Every connected engine has exactly one party that will close it, the map while it is still to be closed, its opener or its closer, except an engine that an OpenConnection put into the map after the shutdown had dropped it (the leak of run sessions_exit).
- `QuerySessionsProofs!MapIsOpen` (`MapHoldsOpenEngines`): Outside the shutdown's critical section every session in the map has a connected engine.
- `QuerySessionsProofs!RegistryIsLive` (`RegisteredCancelIsLive`): A registered CancelFunc belongs to a call that is still running on that session.
- `QuerySessionsProofs!CancelIsLocal` (`CancelHitsOwnSession`): A popped CancelFunc always belongs to a query of the session it was popped for.
- `QuerySessionsProofs!NoTeardown` (`NoTeardownUnderStatement`): A Postgres pool is never dropped while a statement executes on it.
- `QuerySessionsProofs!HistoryIsFaithful` (`HistoryRefersToConnection`): query_history rows refer to an existing saved connection and never exceed the script's statements.
- `QuerySessionsProofs!Refinement` (`ImplementsLifecycle`): QuerySessions implements SessionLifecycle: ids are issued once, serve calls only while live, and are closed by at most one call.
- `ApplicationProofs!WatcherTypeCorrect`: The watcher's fields, calls and goroutines keep their types for any number of calls.
- `ApplicationProofs!NoCompetingPoller` (`OnePoller`): However starts, stops and the shutdown interleave, at most one poller is alive and it is the one the next stop cancels and waits for.
- `ApplicationProofs!DashboardFed` (`DashboardIsFed`): Once the calls of the visits to the dashboard have returned, the watcher runs exactly while the dashboard is on screen, for a user who lets the calls of one visit return before the next.
- `EnvironmentsProofs!EnvironmentsTypeCorrect`: The rows, containers, volumes and calls keep their types for any profiles, ports and number of calls.
- `EnvironmentsProofs!ResetErases` (`ResetErasesData`): A ResetServiceVolume that returns without an error has erased the data it found, whatever other calls do meanwhile.
- `EnvironmentsProofs!PatientDelete` (`PatientDeleteLeavesNothing`): For a user who waits for the calls on a profile, DeleteProfile leaves no running container without its rows, however each call fails.
- `EnvironmentsProofs!CreatedPorts` (`CreatedPortsDistinct`): For that user CreateProfile assigns no port recorded for any other service, created or copied: services share a port only by having copied it from one service.
- `EnvironmentsProofs!StartsAndStops` (`StartStopEffective`): For that user a StartProfile without an error leaves every service of the profile running, a StopProfile none.
- `MigrationsProofs!NoHalfIsRun` (`NothingHalfFormed`): Apply and Rollback never run one half of a pair, whatever files come and go meanwhile.
- `MigrationsProofs!TrackedExactly` (`TrackedIffInForce`): With distinct versions and transactional DDL a change is in force exactly if it is tracked, however many applies and rollbacks overlap, fail or are cut off.
- `MigrationsProofs!AppliedInOrder` (`AppliedIsPrefix`): While versions only grow and calls do not overlap, no version is applied while a lower one is pending, failed applies and rollbacks included.
- `MigrationsProofs!RollsBackTheLast` (`RollbackRevertsLast`): Under the same conditions a rollback takes back the migration that was recorded last.
- `ApplicationProofs!LinksAlwaysHold`: LocalStorage for any connections, snippets and number of processes: sessions, history entries and scoped snippets refer to the connection they were made for, and deleting a connection deletes no snippet (LinksHold).
- `ApplicationProofs!StorageSafe`: A process that is alone survives kills between any two steps of its launches, with the whole schema and the links in place (StorageSurvives).
- `ApplicationProofs!ApplicationWatches` (`DashboardIsFed`): In the composed application the watcher is well typed, has one poller at most, and feeds an unhurried user's dashboard.
- `ApplicationProofs!ApplicationStores` (`StorageSurvives`): In the composed application the storage of a process that is alone survives kills at any step.
- `FilesProofs!ExportExact` (`ExportIsExact`): Unless others wrote before the end of the table or altered it meanwhile, an exported file read back is the table: for any columns, rows, length of a page and other writes, each row is in it once and in its order, the importer finds nothing wrong with it, and a dump has the columns but for their defaults. CSV files with a NULL in a table of one column, or with numbers of a query's result from a million on, are excepted (CSVKeepsTheRows, CSVIsAccepted).
- `FilesProofs!ImportsAreWhole` (`ImportIsWhole`): An import adds every row of the file on the disk, each value in the column it names and as that column reads it, or nothing, whatever the file, the columns, a hidden constraint and other sessions do; and where the columns are unchanged and no value only looks right, the database's columns take all that validation let through.
- `FilesProofs!SchemaFilesResolve` (`SchemaFileResolves`): For any tables, names, keys, forms and changes of the schema between the two queries: the Prisma schema, the Drizzle schema and the diagram of a calm schema with plain keys and names name things once, refer to nothing that is not in them and tell its keys, all and only; where no two keys are between the same tables, no relation of the Prisma schema can be taken for another; and a table made with the form keeps its types.
- `DocumentTabsProofs!TabSessions` (`SessionsAccountedFor`): No session is left in the Go side's map that the view has forgotten, and none is closed under the view, whichever run of the effect is answered when.
- `DocumentTabsProofs!TabNeverSpins` (`NothingSpins`): Every flag that disables a button of a MongoDB or Redis tab has a request out that resets it, for any number of requests that cross or fail; and the state keeps its types.
- `DocumentTabsProofs!TabEdits` (`EditsHitTheirSource`): A save or an LSET goes to the Redis key and element that its text was loaded from, whatever was opened or arrived in between; an update or a deletion goes to the MongoDB collection its document came from if the page on screen had been loaded without an error and no requests had crossed (EditsAreInPlace, without these conditions, is false).
- `DocumentTabsProofs!TabLosesNothing` (`NothingLost`): Nothing is lost but what the user confirmed: no rename overwrites a key, and no HSET, SADD, ZADD, RPUSH or LSET takes other parts with it.
- `DocumentTabsProofs!TabWalksEverything` (`WalkSeesEveryMatch`): Who turns the pages of a collection to the last one has seen every match, for any documents, filters and length of a page: the sort by _id makes pages that are cut by rank fit together.
- `DocumentTabsProofs!TabShowsTheStore` (`ScreenShowsStore`): With nothing under way a page shows documents of the selected collection, a finished scan lists exactly the keys of its pattern that exist, and the panel of a key shows the rows of its window and, unless a write has dropped it since it was read, the TTL the server has, for values of any size and any of the five types.
- `QuerySessionsProofs!AloneIsCancellable` (`RunningQueryCancellable`): Where a session has one query at a time (MaxInFlight = 1, finitely many calls), whoever holds the CancelFunc of a running query will call it or it is still registered: no run pops another's.
- `DatabaseClientProofs!EditorLeaksNothing` (`NoSessionLeaks`): An open SQL tab has at most the session it holds and a closed one none, unless a connect was begun, or the tab closed, during another connect.
- `DatabaseClientProofs!EditorNeverSpins` (`NothingSpins`): In whatever order queries, pages and schema loads are answered, each flag of the tab has a handler that lowers it, and a query in flight its Cancel button; and the state keeps its types.
- `DatabaseClientProofs!EditorGridBound` (`GridBoundToItsTable`): The rows on screen are of the table that edits go to, unless a query, a browse or a page was begun during another.
- `DatabaseClientProofs!EditorTreeIsComplete` (`TreeShowsCreatedTables`): A loaded schema tree has every table, unless one was created while a listing was on its way.
- `DatabaseClientProofs!ClientWritesHit` (`WritesHitChosenRows`): Every update and deletion the grid sends is of the rows, of the table, that the user chose, for any number of calls under way, unless a deletion or reload was in flight beside something else.
- `DatabaseClientProofs!ClientGridIsTrue` (`GridShowsTable`): Under the same condition the grid at rest has each row of the table once, with its value, no more and no less, and each error at the row it is about; excepted are the rows inserted under an error (the INSERT committed, the second SELECT failed), and the defaults of a row whose key MySQL did not tell.
- `DatabaseClientProofs!DiagramShowsSelection` (`DiagramIsOfSelection`): The diagram view shows the diagram of what is selected and has no session but its own while nothing has crossed, and never waits for a call that has ended.

**Assumptions.** The ASSUMEs of the modules, which TLC evaluates in each run, say that bounds are
positive, that `None` is no value, and what a set of numbers is. Four theorems assume more, in
their statements: `StorageSafe` and `ApplicationStores` that one process uses the file
(`OneProcess`; with two, run `two_launches` shows the version set back), `TrackedExactly` that versions
are distinct and DDL is transactional (`Distinct`, `~DDLCommits`; run `mig_ddl` shows what
MySQL does), and `AloneIsCancellable` that a session has one query at a time (`MaxInFlight = 1`,
which is the tab's Run button, and finitely many calls, since the guard counts them). A patient
user, and everything that has not crossed, is part of the properties themselves: the history
variables `patient`, `crossed`, `hasty`, `raced`, `mingled`, `overtaken`, `tangled` and `vague` are
in the state, so those theorems hold of all behaviours and say something of those in which the
code's own discipline is kept. The types, `TabSessions`, `TabNeverSpins`, the
Redis half of `TabEdits`, `EditorNeverSpins`, `ResetErases`, `NoHalfIsRun`, `LinksAlwaysHold` and all
of `QuerySessionsProofs` but `AloneIsCancellable` need no such discipline.

**Sessions** (`QuerySessionsProofs`). None of the properties is inductive alone; `SessionInv` is their
conjunction with four more. That a registered cancel function belongs to a live call needs
`CallShape` (which operation may be at which place); that an engine has one owner needs
`IdsOpenedOnce` (an opener's id is nobody else's, lemma `OpenerIsNew`) and `EngineMatchesOwner`
(what the owner's place says of the pool); the bound on history rows needs `LoggedWithinScript`.
Each conjunct has a lemma that goes through the actions one by one. `Refinement` maps the initial
states and each step to a step or a stutter of `SessionLifecycle`. With one query per session
(`OneRunPerSession`) the popped function is always the caller's own (`CancelWithinReach`).

**Watcher** (`ApplicationProofs`). `OnePoller` is inductive by itself, since it says that a live
poller is the one `running` and `watch` describe; the types need in addition that a running
watcher has a context to cancel (`WatcherInv`), and are proved without a run. The mutex is not needed for it: a start is let
through only while nothing runs, and `running` is reset only when every goroutine has gone. That
the dashboard is fed does need it, and that an unhurried user's calls do not overlap.

**Storage** (`ApplicationProofs`). `LinkInv`: AUTOINCREMENT never gives out an id twice, so an id
tells which connection is meant even after it is gone (`IdsTellConnections`), and rows refer to
what they were made for (`RowsRefer`). `SchemaInv`: the statements of a version and the number are
one transaction, so `version` counts what is committed, and a process that is alone has left to
apply exactly what is missing. `Application` follows one part at a time, and each keeps its
invariant under the other's steps.

**Environments** (`EnvironmentsProofs`). `EnvInv` says where a call of each kind can be and what it
holds there. A reset's data: `stale` loses every reset of a volume that is removed, and a reset
goes on only past the removal of its own (`WipedInv`). For the patient user, `PatientInv`: no two
calls touch a profile (`Exclusive`), a creation knows all ports (`PortsKnown`: a copy made since
has the port of a service that is still there, `OriginalsThere`), and what a start, stop or delete has handled is as it left it (`HandledInv`). That
a free port is found is a counting argument (there are more candidates than ports taken).

**Migrations** (`MigrationsProofs`). `FolderInv`: a file goes only while its counterpart is not there,
so a pair that was complete stays. `DistinctInv` makes a version tell its migration. While nothing
has crossed, `Calm`: the applied versions are a prefix (`Prefix`), what is neither applied nor
queued is newer than the queue (`QueueInv`), and the history is the order of the versions
(`Ascending`), which is why the highest version is the last.

**Grid and tab** (`EditableGridProofs`, `DatabaseClientProofs`). `GridInv` describes, while nothing has
crossed, what the user has marked (`Marked`), what each call is about in the rows of now (`Aimed`),
and how the rows differ from the table by exactly the writes that were served and not yet answered
(`Copied`) and the rows inserted under an error (`Unseen`). A page is the table's keys by rank, and each key is on it once, by a bijection of ranks
and positions (no induction over a list). The tab's `EditorInv` and the diagram's `DiagramInv` tie
each flag to a handler, each page to the table it was asked of, and the session to the one
connect; `ClientInv` is their conjunction for the composed window.

**Files** (`FilesProofs`). The table always holds what its columns accept, whoever writes to it
(`TableTyped`), and while the others are `steady` an export has read the beginning of it, under the
columns it has now (`ReadInOrder`, part of `FilesInv`). The rest is about operators: a record that is
no blank line is read as it was written, cell by cell (`CSVReadsBack`; that no record is lost is
counting, lemma `RecordsKept`), what is written of a value is read as that value (`WrittenRead`), and
rows by name are told apart by their values since the names of columns are distinct (`NamedEqual`).
For validation, the absence of a finding means that each value that does not only look right is one
its column accepts (`NothingFound`); an INSERT is of the file on the disk, which changes only
between jobs, so what it adds is compared with the file itself (`AddedWhole`). The proof needed two facts about the input that the model had
left to its instance: a column's default is one the column takes, and a column that another session
adds to a table with rows takes NULL or has a default (`FilesAssumption`); a database refuses
anything else.

`SchemaFilesResolve` is about schemas of any tables, names and keys, altered at any time. Its
invariant `SchemaInv` says that the schema is one a database has (`SchemaWhole`: tables with distinct
names, columns with distinct names, keys between columns that are there), that a table made with
the form still has the form's columns (`MadeAsFilledIn`), and that a calm description holds the tables
and key columns of the schema as it is (`ReadWhenCalm`). The rest follows from one state of it. That
computeRelationFieldNames ends with a name no one has is counting: there are more numbers of "Ref"
to append than names taken (`LeastNumber`). `SchemaFilesAssumption` says of the inputs what a database
or the form guarantees of them, and that "Ref" is a word. The proof refuted an earlier, weaker
`PlainNames`: the relation of a column `manager_teams_id` and the other end of `teams.manager_id` may
both become a field `manager_teams` of one model. That the relations can be told apart (`PrismaResolves`)
is proved of the schemas in which no two keys are between the same tables (`LoneKeys`); it is false
of the others (section 5).

**Document tabs** (`DocumentTabsProofs`). `TabInv` has the life of the session (`SessionInv`), the
invariant of the view in use, and the initial state of the others. Each view's invariant says what
a request of each kind was sent with and may be answered with, and which flag it carries. While
requests do not cross:

- MongoDB: the page shows the selected collection but for what a deletion under way has taken
  (`ShowsCollection`); a walk up to page p has shown every match of rank up to p pages, or is on its
  way there (`WalkInv`). A page with fewer rows than it has room for is the last, by cardinalities.
- Redis keys (`Faithful`): what is listed exists, unless the request that is out has just removed it;
  what exists is listed as far as the cursor has come, unless that request has just made it;
  and the text that was read is stored under the open key.
- One Redis value (`InStep`): one request works on the value and one on the TTL. The rows on screen,
  or what they will be once the request that is out has ended (`RowsAfter`), are the server's
  window (`InWindow`), unless a TTL of zero has deleted the key and the read of the TTL that follows is bound
  to fail (`Gone`). The label is the TTL unless a write has dropped it, and then there is none (`TTLKnown`). That LSET and the row rewritten by index agree is lemma `ElementInWindow`.

Writing this invariant found two places where the model of `RedisValues` had said more than the
code: Next is offered after a full window, not while rows remain (`filled`), and an open row can be
cancelled or replaced by another while its own save is not out.

**Only model-checked**, and why:

- `CancelledCallReturns`, `ClosingReturns` and `StopReturns`: liveness under fairness, which the proof
  system does not treat.
- `ShapesFitTheSample`: the shape of nested documents is computed by recursion (`CollectionShapes`
  declares RECURSIVE operators), and what it computes needs induction over data.
- What a violation shows is a counterexample, and nothing to prove.

## 5. Known limits of the code

Where a property has an exception, the code does something else there. Where a comment or a document
promises otherwise, a property says so and TLC finds it violated (the first list): by a run of
section 3 where a run is named, and else by a further configuration of the module of such a run,
which ends in a counterexample. No document speaks of the others (the second list).

- An engine opened during the shutdown is never closed (`sessions_exit`); the first of two queries
  of a session takes the second one's cancel function with it (`sessions_newest`).
- A start under way when DeleteProfile has looked boots a container without rows (`env_orphan`).
- MySQL commits the DDL of a migration whose tracking row then fails (`mig_ddl`).
- A file without mismatches takes the window down (`import_dialog`).
- Two launches at once may set the version of the local database back (`two_launches`).
- A NULL of a table of one column, and a number of a million in a query's result, do not survive CSV
  (`CSVKeepsTheRows`, `TargetDatabase_v_nulls.cfg`; `CSVIsAccepted`, `TargetDatabase_v_numbers.cfg`).
- Relations of the Prisma schema between the same two models have no names, which Prisma refuses
  (`PrismaSchemaIsValid`, `TargetDatabase_v_prisma.cfg`).
- Saving a string drops the TTL the panel goes on showing (`SavedStringKeepsTTL`,
  `DocumentTabs_redis_ttl.cfg`), as removing the last part of
  a value does until parts are added again.
- A document edited while another collection's page loads, or could not be loaded, replaces that
  collection's document of the same _id (`EditsAreInPlace`, `DocumentTabs_mongo_edits.cfg`); a deletion goes there in the same way.

The exceptions nobody promised anything about:

- An export beside writers may skip or repeat rows, since its pages have no order and no
  transaction, and a dump pairs columns it read earlier with rows by position (`steady`).
- A dump gives no column its default back (`ColumnDumpInfo`).
- Postgres' keys of composite or equally named constraints give spurious references, two keys of
  one column give one relation name (`PlainKeys`), camel case makes two names one, and the other end of
  a relation may meet a column, a relation or another other end (`PlainNames`).
- A late diagram replaces the selected one, and leaving the view while it connects leaks the
  session (`tangled`); so does closing an SQL tab, or a second click, while it connects (`raced`).
- A late page of another table lands in the grid (`mingled`), and indices into one list of rows
  are used on another when a deletion overlaps with anything (`crossed`). On MySQL a row whose second
  SELECT failed is in the table and reported as not inserted (`missed`), and a row without its whole
  key in the answer is on the grid as it was submitted, which `resolveInsertedRow` documents.
- The last answer of a document view wins, whatever was selected since; a key created between
  EXISTS and RENAME is overwritten (`vague`).
- A start of the watcher may overtake the stop before it, and the dashboard goes unfed (`hasty`).

`PROJECT.json` quotes, under `findings`, the line each run that ends in a violation contradicts.

A few facts of the world are simplified: a statement whose call times out is taken as not executed;
MySQL's reading of a time with a zone, and Postgres' types whose text depends on the locale (money)
or carries a zone (timetz), are not among the columns of `TableFiles`.

## 6. What is not modelled, and the plan

Network and Docker errors are "the call fails here". Row order, formatting and layout are left
out, and so are statement splitting, connection strings and quoting, which work character by
character. Generated Wails bindings, the documentation site, build files and styling have no state.
Docker's image pulls, readiness and statistics are requests whose answers are only shown.

Order of work, most important first:

1. `QuerySessions` with its contract and proofs; `Environments`; `Migrations`; `StatusWatcher` (done).
2. `EditorTab`, `EditableGrid`, `SchemaDiagram`: late answers in the SQL views (done).
3. `MongoDocuments`, `RedisBrowser`, `RedisValues` and `DocumentTabs` (done).
4. `TableFiles`, `SchemaFiles`, `CollectionShapes`: files and descriptions of a target database
   beside other sessions; `LocalStorage`: the app's own file over launches (done).
5. Proofs of every safety property above but `ShapesFitTheSample` (done).
6. `SuggestFreePort` and the port assignment over all engines; the pruning of the query history.
