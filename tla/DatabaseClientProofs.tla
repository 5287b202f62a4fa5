------------------------ MODULE DatabaseClientProofs ------------------------
(***************************************************************************)
(* The SQL tab, the grid and the schema diagram's view of the database     *)
(* client, for any tables, namespaces and number of handlers under way.    *)
(***************************************************************************)
EXTENDS DatabaseClient, EditableGridProofs

-----------------------------------------------------------------------------
(***************************************************************************)
(* The schema diagram's view.                                              *)
(***************************************************************************)
Linking == Busy({"opening", "listing"})
Drawing == Busy({"drawing"})

\* One connection is opened at a time, its session is held once it is there,
\* and a connected view holds one.
OneLink ==
    /\ link = "connecting" <=> Linking # {}
    /\ \A c, d \in Linking : c = d
    /\ \A c \in Calls : work[c] = "opening" => held = None
    /\ \A c \in Calls : work[c] = "listing" => held = c
    /\ link = "connected" => held # None

\* As long as nothing has crossed, one diagram at a time is drawn: that of
\* what is selected, in a view that is connected.
Untangled ==
    /\ live = IF inView THEN {held} \ {None} ELSE {}
    /\ link = "connecting" => inView /\ Drawing = {} /\ drawing # "ready"
    /\ \A c \in Drawing : Drawing = {c} /\ topic[c] = <<held, selected>>
    /\ drawing = "ready" => picture = <<held, selected>>

DiagramInv ==
    /\ DiagramTypeOK
    /\ OneLink
    /\ drawing = "generating" => Drawing # {}
    /\ ~tangled => Untangled

LEMMA DiagramStep == DiagramInv /\ [DiagramNext]_viewVars => DiagramInv'
<1> SUFFICES ASSUME DiagramInv, [DiagramNext]_viewVars
             PROVE  DiagramInv'
  OBVIOUS
<1> USE DEF DiagramInv, Linking, Drawing, Busy
<1>1. None \notin Calls
  BY NoneAssumption
<1>2. ASSUME NEW c \in Calls, Connect(c)
      PROVE  DiagramInv'
  <2>1. DiagramTypeOK'
    BY <1>2 DEF Connect, DiagramTypeOK
  <2>2. OneLink'
    BY <1>1, <1>2 DEF Connect, OneLink, DiagramTypeOK
  <2>3. ASSUME ~tangled'
        PROVE  Untangled'
    <3>1. ~tangled /\ Drawing = {} /\ inView
      BY <1>2, <2>3 DEF Connect
    <3>2. Drawing' = {}
      BY <1>2, <3>1 DEF Connect, DiagramTypeOK
    <3>3. live' = {}
      BY <1>2, <3>1 DEF Connect, Untangled
    <3> HIDE DEF Drawing
    <3> QED
      BY <1>2, <3>1, <3>2, <3>3 DEF Connect, Untangled
  <2> QED
    BY <1>2, <2>1, <2>2, <2>3 DEF Connect
<1>3. ASSUME NEW c \in Calls, Opened(c)
      PROVE  DiagramInv'
  <2>1. DiagramTypeOK'
    BY <1>3 DEF Opened, DiagramTypeOK
  <2>2. OneLink'
    BY <1>1, <1>3 DEF Opened, OneLink, DiagramTypeOK
  <2>3. ~tangled' => Untangled'
    BY <1>1, <1>3 DEF Opened, Untangled, OneLink, DiagramTypeOK
  <2>4. drawing' = "generating" => Drawing' # {}
    BY <1>3 DEF Opened, DiagramTypeOK
  <2> QED
    BY <2>1, <2>2, <2>3, <2>4
<1>4. ASSUME NEW c \in Calls, ConnectFails(c)
      PROVE  DiagramInv'
  <2>1. DiagramTypeOK'
    BY <1>4 DEF ConnectFails, DiagramTypeOK
  <2>2. OneLink'
    BY <1>1, <1>4 DEF ConnectFails, OneLink, DiagramTypeOK
  <2>3. ~tangled' => Untangled'
    BY <1>1, <1>4 DEF ConnectFails, Untangled, OneLink, DiagramTypeOK
  <2>4. drawing' = "generating" => Drawing' # {}
    BY <1>4 DEF ConnectFails, DiagramTypeOK
  <2> QED
    BY <2>1, <2>2, <2>3, <2>4
<1>5. ASSUME NEW c \in Calls, NamespacesListed(c)
      PROVE  DiagramInv'
  <2>1. found' # 0 => 1 \in Namespaces
    BY <1>5, NamespacesAssumption DEF NamespacesListed
  <2>2. held = c /\ link = "connecting"
    BY <1>5 DEF NamespacesListed, OneLink
  <2>3. DiagramTypeOK'
    BY <1>5, <2>1 DEF NamespacesListed, DiagramTypeOK
  <2>4. OneLink'
    BY <1>1, <1>5, <2>2 DEF NamespacesListed, OneLink, DiagramTypeOK
  <2>5. ~tangled' => Untangled'
    BY <1>1, <1>5, <2>2 DEF NamespacesListed, Untangled, DiagramTypeOK
  <2>6. drawing' = "generating" => Drawing' # {}
    BY <1>5 DEF NamespacesListed, DiagramTypeOK
  <2> QED
    BY <2>3, <2>4, <2>5, <2>6
<1>6. ASSUME NEW c \in Calls, NEW n \in Namespaces, Generate(c, n), selected' = n
      PROVE  DiagramInv'
  <2>1. held \in Calls
    BY <1>6 DEF Generate, OneLink, DiagramTypeOK
  <2>2. DiagramTypeOK'
    BY <1>6, <2>1 DEF Generate, DiagramTypeOK
  <2>3. OneLink'
    BY <1>1, <1>6 DEF Generate, OneLink, DiagramTypeOK
  <2>4. ~tangled' => Untangled'
    BY <1>1, <1>6 DEF Generate, Untangled, DiagramTypeOK
  <2>5. drawing' = "generating" => Drawing' # {}
    BY <1>6 DEF Generate, DiagramTypeOK
  <2> QED
    BY <2>2, <2>3, <2>4, <2>5
<1>7. ASSUME NEW c \in Calls, NEW n \in Namespaces, SelectNamespace(c, n)
      PROVE  DiagramInv'
  BY <1>6, <1>7 DEF SelectNamespace
<1>8. ASSUME NEW c \in Calls, Regenerate(c)
      PROVE  DiagramInv'
  <2>1. selected \in Namespaces /\ Generate(c, selected) /\ selected' = selected
    BY <1>8 DEF Regenerate, DiagramTypeOK
  <2> QED
    BY <1>6, <2>1
<1>9. ASSUME NEW c \in Calls, Drawn(c) \/ DrawFails(c)
      PROVE  DiagramInv'
  <2>1. DiagramTypeOK'
    BY <1>9 DEF Drawn, DrawFails, DiagramTypeOK
  <2>2. OneLink'
    BY <1>1, <1>9 DEF Drawn, DrawFails, OneLink, DiagramTypeOK
  <2>3. ~tangled' => Untangled'
    BY <1>1, <1>9 DEF Drawn, DrawFails, Untangled, DiagramTypeOK
  <2>4. drawing' # "generating"
    BY <1>9 DEF Drawn, DrawFails
  <2> QED
    BY <2>1, <2>2, <2>3, <2>4
<1>10. CASE LeaveView
  <2>1. DiagramTypeOK' /\ OneLink' /\ (drawing' = "generating" => Drawing' # {})
    BY <1>10 DEF LeaveView, DiagramTypeOK, OneLink
  <2>2. ~tangled' => ~tangled /\ link # "connecting" /\ live' = {}
    BY <1>10 DEF LeaveView, Untangled, DiagramTypeOK
  <2>3. ~tangled' => Untangled'
    BY <1>10, <2>2 DEF LeaveView, Untangled
  <2> QED
    BY <2>1, <2>3
<1>11. CASE ViewLeft \/ UNCHANGED viewVars
  BY <1>11 DEF ViewLeft, viewVars, DiagramTypeOK, OneLink, Untangled
<1> QED
  BY <1>2, <1>3, <1>4, <1>5, <1>7, <1>8, <1>9, <1>10, <1>11 DEF DiagramNext

-----------------------------------------------------------------------------
(***************************************************************************)
(* The SQL tab.                                                            *)
(***************************************************************************)
Clicked == {"run", "browse", "refresh", "create", "import"}

\* A click in the tab starts handler o about table t and raises its flag.
Starts(c, o, t) ==
    /\ o \in Clicked /\ t \in Tables \cup {None} /\ (o = "browse" => t \in Tables)
    /\ Click(c, o, t)
    /\ o = "run" => runState' \in {"connecting", "running"}
    /\ o # "run" => runState' = runState
    /\ browsing' = (browsing \/ o = "browse")

LEMMA ClickStarts ==
  ASSUME TabTypeOK, NEW c \in Calls,
         \/ RunQuery(c) \/ RefreshSchema(c) \/ OpenCreateTable(c)
         \/ \E t \in Tables : BrowseTable(c, t) \/ OpenImport(c, t)
  PROVE  \E o, t : Starts(c, o, t)
<1> USE DEF Starts, Clicked, TabTypeOK
<1>1. CASE RunQuery(c)
  <2>1. Starts(c, "run", None)
    BY <1>1 DEF RunQuery
  <2> QED
    BY <2>1
<1>2. CASE RefreshSchema(c)
  <2>1. Starts(c, "refresh", None)
    BY <1>2 DEF RefreshSchema
  <2> QED
    BY <2>1
<1>3. CASE OpenCreateTable(c)
  <2>1. Starts(c, "create", None)
    BY <1>3 DEF OpenCreateTable
  <2> QED
    BY <2>1
<1>4. ASSUME NEW t \in Tables, BrowseTable(c, t)
      PROVE  \E o, x : Starts(c, o, x)
  <2>1. Starts(c, "browse", t)
    BY <1>4 DEF BrowseTable
  <2> QED
    BY <2>1
<1>5. ASSUME NEW t \in Tables, OpenImport(c, t)
      PROVE  \E o, x : Starts(c, o, x)
  <2>1. Starts(c, "import", t)
    BY <1>5 DEF OpenImport
  <2> QED
    BY <2>1
<1> QED
  BY <1>1, <1>2, <1>3, <1>4, <1>5

\* What each request is about; the dialog of a new table, and what it sends,
\* has the tab's session.
Requests ==
    /\ creating # None => ref # None
    /\ \A c \in Calls :
          /\ pc[c] = "connecting" => op[c] \in Clicked
          /\ pc[c] \in {"connecting", "asked"} =>
                /\ op[c] = "browse" => arg[c] \in Tables
                /\ op[c] = "page" => arg[c] \in Tables \cup {None}
                /\ op[c] = "submit" => arg[c] \in Tables /\ ref # None

\* A connection is opened only while there is none, and while another one is
\* opened only at the price of a race; the tab has the session it holds.
OneSession ==
    ~raced =>
        /\ \A c \in Connecting : Connecting = {c} /\ ref = None /\ mounted
        /\ open = IF mounted /\ ref # None THEN {ref} ELSE {}

\* Each flag has its handler, and unless requests mingle each handler its flag.
Flags ==
    /\ ~mingled => \A c, d \in Fetching : c = d
    /\ mounted =>
          /\ runState \in {"connecting", "running"} => Pending("run") # {}
          /\ ~mingled /\ Pending("run") # {} => runState \in {"connecting", "running"}
          /\ browsing => Pending("browse") \cup Pending("page") # {}
          /\ schema = "loading" => loads # {}

\* A page is fetched of the table that the edits go to.
Bound ==
    /\ ctx # None => bref = ctx
    /\ ~mingled => \A c \in Pending("page") : arg[c] = ctx
    /\ ~mingled /\ shown # None /\ ctx # None => shown = ctx

\* What has been listed has every table.
Listed ==
    ~overtaken =>
        /\ \A l \in loads : l.read => tables \subseteq l.saw
        /\ schema = "loaded" => tables \subseteq entries

EditorInv == TabTypeOK /\ Requests /\ OneSession /\ Flags /\ Bound /\ Listed

-----------------------------------------------------------------------------
\* The tree.
LEMMA ListedStep ==
  ASSUME TabTypeOK, Listed, [TabNext]_tabVars
  PROVE  Listed'
<1> USE DEF Listed, schemaVars, historyVars, dialogVars
<1>1. ASSUME NEW c \in Calls, NEW o, NEW t, Starts(c, o, t)
      PROVE  Listed'
  <2>1. /\ UNCHANGED <<tables, entries, overtaken>>
        /\ \A l \in loads' \ loads : l.read = FALSE
        /\ schema' \in {schema, "loading"}
    BY <1>1 DEF Starts, Click, Started, EnsureSession, Proceed, Load
  <2> QED
    BY <2>1
<1>2. ASSUME NEW c \in Calls, Connected(c)
      PROVE  Listed'
  <2>1. /\ UNCHANGED <<tables, entries, overtaken>>
        /\ \A l \in loads' \ loads : l.read = FALSE
        /\ schema' \in {schema, "loading"}
    BY <1>2 DEF Connected, Proceed, Load
  <2> QED
    BY <2>1
<1>3. ASSUME NEW c \in Calls, TableCreated(c)
      PROVE  Listed'
  <2>1. /\ schema' = "loading" /\ overtaken' = (overtaken \/ loads # {})
        /\ \A l \in loads' : l \in loads \/ l.read = FALSE
    BY <1>3 DEF TableCreated, Load
  <2> QED
    BY <2>1
<1>4. ASSUME NEW c \in Calls, FileValidated(c)
      PROVE  Listed'
  BY <1>4 DEF FileValidated, Unmount
<1>5. ASSUME NEW c \in Calls,
             \/ RequestPage(c) \/ ValidateFile(c) \/ \E t \in Tables : SubmitTable(c, t)
             \/ Dropped(c) \/ RunAnswered(c) \/ BrowseAnswered(c) \/ PageAnswered(c)
      PROVE  Listed'
  BY <1>5 DEF RequestPage, ValidateFile, SubmitTable, Started, Dropped, RunAnswered, BrowseAnswered,
              PageAnswered
<1>6. ASSUME NEW c \in Calls, Fails(c)
      PROVE  Listed'
  BY <1>6 DEF Fails
<1>7. ASSUME NEW l \in loads, ReadSchema(l)
      PROVE  Listed'
  <2>1. UNCHANGED <<tables, schema, entries, overtaken>>
    BY <1>7 DEF ReadSchema
  <2>2. ASSUME NEW k \in loads'
        PROVE  k \in loads \/ k.saw = tables
    BY <1>7, <2>2 DEF ReadSchema, TabTypeOK, LoadSet
  <2> QED
    BY <2>1, <2>2
<1>8. ASSUME NEW l \in loads, SchemaLoaded(l) \/ SchemaFails(l)
      PROVE  Listed'
  BY <1>8 DEF SchemaLoaded, SchemaFails
<1>9. CASE CloseTab
  BY <1>9 DEF CloseTab, Unmount
<1>10. CASE CloseDialog \/ TabIdle \/ UNCHANGED tabVars
  BY <1>10 DEF CloseDialog, TabIdle, tabVars
<1>11. ASSUME NEW c \in Calls,
              \/ RunQuery(c) \/ RefreshSchema(c) \/ OpenCreateTable(c)
              \/ \E t \in Tables : BrowseTable(c, t) \/ OpenImport(c, t)
       PROVE  Listed'
  BY <1>1, <1>11, ClickStarts
<1> QED
  BY <1>2, <1>3, <1>4, <1>5, <1>6, <1>7, <1>8, <1>9, <1>10, <1>11 DEF TabNext, TabClicks, TabAnswers

-----------------------------------------------------------------------------
\* Types, and what requests are about.
LEMMA LoadFacts ==
  ASSUME NEW c \in Calls, NEW why \in {"opened", "own"}, NEW s \in Calls
  PROVE  Load(c, why, s) \in LoadSet
  BY DEF Load, LoadSet

LEMMA ProceedFacts ==
  ASSUME TabTypeOK, NEW c \in Calls, NEW o, NEW t, NEW s \in Calls,
         NEW fresh \in SUBSET LoadSet, Proceed(c, o, t, s, fresh)
  PROVE  /\ pc' = [pc EXCEPT ![c] = IF o \in {"run", "browse"} THEN "asked" ELSE "done"]
         /\ creating' \in {creating, s} /\ importing' \in {importing, c}
         /\ loads' \subseteq LoadSet /\ loads \subseteq loads' /\ fresh \subseteq loads'
         /\ schema' = schema \/ (schema' = "loading" /\ loads' # {})
         /\ UNCHANGED <<blank, entries>>
<1> DEFINE own == IF o = "refresh" THEN {Load(c, "own", s)} ELSE {}
           new == fresh \cup own
<1>1. own \subseteq LoadSet
  BY LoadFacts
<1>2. /\ pc' = [pc EXCEPT ![c] = IF o \in {"run", "browse"} THEN "asked" ELSE "done"]
      /\ creating' = IF o = "create" THEN s ELSE creating
      /\ importing' = IF o = "import" THEN c ELSE importing
      /\ UNCHANGED <<blank, entries>>
      /\ loads' = loads \cup new
      /\ schema' = IF new = {} THEN schema ELSE "loading"
  BY DEF Proceed
<1> HIDE DEF own
<1> QED
  BY <1>1, <1>2 DEF TabTypeOK

\* A click in short: the handler goes on with the session, or connects.
Begun(c, o, t) ==
    /\ pc[c] = "idle" /\ op' = [op EXCEPT ![c] = o] /\ arg' = [arg EXCEPT ![c] = t]
    /\ mingled' = (mingled \/ (o \in {"run", "browse", "page"} /\ Fetching # {}))
    /\ UNCHANGED <<mounted, ref, open, bref, ctx, shown, tables, overtaken, blank, entries>>
    /\ mounted
    /\ \/ /\ ref \in Calls
          /\ pc' = [pc EXCEPT ![c] = IF o \in {"run", "browse"} THEN "asked" ELSE "done"]
          /\ raced' = raced
       \/ /\ ref = None
          /\ pc' = [pc EXCEPT ![c] = "connecting"]
          /\ raced' = (raced \/ Connecting # {})
          /\ UNCHANGED creating
    /\ creating' \in {creating, ref} /\ importing' \in {importing, c}
    /\ loads' \subseteq LoadSet /\ loads \subseteq loads'
    /\ schema' = schema \/ (schema' = "loading" /\ loads' # {})

LEMMA Begins ==
  ASSUME TabTypeOK, NEW c \in Calls, NEW o, NEW t, Click(c, o, t)
  PROVE  Begun(c, o, t)
<1>1. /\ Clickable /\ Started(c, o, t) /\ EnsureSession(c, o, t)
      /\ UNCHANGED <<mounted, bref, ctx, shown, tables>>
  BY DEF Click
<1>2. CASE ref # None
  <2>1. Proceed(c, o, t, ref, {}) /\ UNCHANGED <<ref, open, raced>> /\ ref \in Calls
    BY <1>1, <1>2 DEF EnsureSession, sessionVars, TabTypeOK
  <2> DEFINE fresh == {}
  <2>3. fresh \in SUBSET LoadSet /\ Proceed(c, o, t, ref, fresh)
    BY <2>1
  <2> HIDE DEF fresh
  <2>2. /\ pc' = [pc EXCEPT ![c] = IF o \in {"run", "browse"} THEN "asked" ELSE "done"]
        /\ creating' \in {creating, ref} /\ importing' \in {importing, c}
        /\ loads' \subseteq LoadSet /\ loads \subseteq loads'
        /\ schema' = schema \/ (schema' = "loading" /\ loads' # {})
        /\ UNCHANGED <<blank, entries>>
    BY <2>1, <2>3, ProceedFacts
  <2> QED
    BY <1>1, <2>1, <2>2 DEF Begun, Started, Clickable
<1>3. CASE ref = None
  <2>1. /\ pc' = [pc EXCEPT ![c] = "connecting"] /\ raced' = (raced \/ Connecting # {})
        /\ UNCHANGED <<ref, open, creating, importing, blank, schema, entries, loads>>
    BY <1>1, <1>3 DEF EnsureSession, sessionVars, dialogVars, schemaVars
  <2> QED
    BY <1>1, <1>3, <2>1 DEF Begun, Started, Clickable, TabTypeOK
<1> QED
  BY <1>2, <1>3

\* A connection is there: the tab goes on with it, if it is still open.
Joined(c) ==
    /\ pc[c] = "connecting" /\ open' = open \cup {c} /\ ref' = c
    /\ UNCHANGED <<mounted, op, arg, browsing, bref, ctx, shown, tables, historyVars, blank, entries>>
    /\ \/ /\ mounted
          /\ pc' = [pc EXCEPT ![c] = IF op[c] \in {"run", "browse"} THEN "asked" ELSE "done"]
          /\ runState' = (IF op[c] = "run" THEN "running" ELSE runState)
          /\ loads' # {}
       \/ ~mounted /\ pc' = [pc EXCEPT ![c] = "done"] /\ UNCHANGED <<runState, loads>>
    /\ creating' \in {creating, c} /\ importing' \in {importing, c}
    /\ loads' \subseteq LoadSet
    /\ schema' \in {schema, "loading"}

LEMMA Joins ==
  ASSUME TabTypeOK, NEW c \in Calls, Connected(c)
  PROVE  Joined(c)
<1>1. /\ pc[c] = "connecting" /\ open' = open \cup {c} /\ ref' = c
      /\ UNCHANGED <<mounted, op, arg, browsing, bref, ctx, shown, tables, historyVars>>
  BY DEF Connected
<1>2. CASE mounted
  <2> DEFINE fresh == {Load(c, "opened", c)}
  <2>1. Proceed(c, op[c], arg[c], c, fresh)
        /\ runState' = (IF op[c] = "run" THEN "running" ELSE runState)
    BY <1>2 DEF Connected
  <2>2. fresh \in SUBSET LoadSet /\ fresh # {}
    BY LoadFacts
  <2> HIDE DEF fresh
  <2>3. /\ pc' = [pc EXCEPT ![c] = IF op[c] \in {"run", "browse"} THEN "asked" ELSE "done"]
        /\ creating' \in {creating, c} /\ importing' \in {importing, c}
        /\ loads' \subseteq LoadSet /\ fresh \subseteq loads'
        /\ schema' = schema \/ (schema' = "loading" /\ loads' # {})
        /\ UNCHANGED <<blank, entries>>
    BY <2>1, <2>2, ProceedFacts
  <2> QED
    BY <1>1, <1>2, <2>1, <2>2, <2>3 DEF Joined
<1>3. CASE ~mounted
  <2>1. pc' = [pc EXCEPT ![c] = "done"]
        /\ UNCHANGED <<runState, loads, creating, importing, blank, schema, entries>>
    BY <1>3 DEF Connected, dialogVars, schemaVars
  <2> QED
    BY <1>1, <1>3, <2>1 DEF Joined, TabTypeOK
<1> QED
  BY <1>2, <1>3

LEMMA TypesStep ==
  ASSUME TabTypeOK, Requests, [TabNext]_tabVars
  PROVE  TabTypeOK' /\ Requests'
<1> USE DEF Requests, Clicked
<1>1. None \notin Calls \cup Tables
  BY NoneAssumption
<1>2. ASSUME NEW c \in Calls, NEW o, NEW t, Starts(c, o, t)
      PROVE  TabTypeOK' /\ Requests'
  <2>1. Begun(c, o, t) /\ o \in Clicked /\ t \in Tables \cup {None} /\ (o = "browse" => t \in Tables)
        /\ runState' \in {runState, "connecting", "running"} /\ browsing' = (browsing \/ o = "browse")
    BY <1>2, Begins DEF Starts
  <2>2. TabTypeOK'
    <3>1. op' \in [Calls -> Handlers \cup {None}] /\ arg' \in [Calls -> Tables \cup Calls \cup {None}]
      BY <2>1 DEF Begun, TabTypeOK, Handlers
    <3>2. pc' \in [Calls -> {"idle", "connecting", "asked", "done"}]
      BY <2>1 DEF Begun, TabTypeOK
    <3>3. /\ UNCHANGED <<mounted, ref, open, bref, ctx, shown, tables, overtaken, blank, entries>>
          /\ creating' \in Calls \cup {None} /\ importing' \in Calls \cup {None}
          /\ mingled' \in BOOLEAN /\ raced' \in BOOLEAN /\ browsing' \in BOOLEAN
          /\ loads' \subseteq LoadSet /\ schema' \in {schema, "loading"}
      BY <2>1 DEF Begun, TabTypeOK
    <3> QED
      BY <2>1, <3>1, <3>2, <3>3 DEF TabTypeOK
  <2>3. Requests'
    BY <2>1 DEF Begun, TabTypeOK
  <2> QED
    BY <2>2, <2>3
<1>3. ASSUME NEW c \in Calls, Connected(c)
      PROVE  TabTypeOK' /\ Requests'
  <2>1. Joined(c)
    BY <1>3, Joins
  <2>2. TabTypeOK'
    BY <2>1 DEF Joined, TabTypeOK, historyVars
  <2>3. Requests'
    BY <1>1, <2>1 DEF Joined, TabTypeOK
  <2> QED
    BY <2>2, <2>3
<1>4. ASSUME NEW c \in Calls, Fails(c) \/ Dropped(c)
      PROVE  TabTypeOK' /\ Requests'
  <2>1. TabTypeOK'
    <3>1. CASE Fails(c)
      BY <3>1 DEF Fails, TabTypeOK, sessionVars, dialogVars, historyVars
    <3>2. CASE Dropped(c)
      BY <3>2 DEF Dropped, TabTypeOK, sessionVars, dataVars, dialogVars, schemaVars, historyVars
    <3> QED
      BY <1>4, <3>1, <3>2
  <2>2. Requests'
    BY <1>4 DEF Fails, Dropped, TabTypeOK, sessionVars, dialogVars
  <2> QED
    BY <2>1, <2>2
<1>5. ASSUME NEW c \in Calls, RunAnswered(c) \/ BrowseAnswered(c) \/ PageAnswered(c)
      PROVE  TabTypeOK' /\ Requests'
  <2>1. op[c] \in {"browse", "page"} => arg[c] \in Tables \cup {None}
    BY <1>5 DEF RunAnswered, BrowseAnswered, PageAnswered, Answered
  <2>2. TabTypeOK'
    <3>1. CASE RunAnswered(c)
      BY <3>1 DEF RunAnswered, TabTypeOK, sessionVars, dialogVars, schemaVars, historyVars
    <3>2. CASE BrowseAnswered(c)
      BY <2>1, <3>2 DEF BrowseAnswered, Answered, TabTypeOK, sessionVars, dialogVars, schemaVars,
                        historyVars
    <3>3. CASE PageAnswered(c)
      BY <2>1, <3>3 DEF PageAnswered, Answered, TabTypeOK, sessionVars, dialogVars, schemaVars,
                        historyVars
    <3> QED
      BY <1>5, <3>1, <3>2, <3>3
  <2>3. Requests'
    BY <1>5 DEF RunAnswered, BrowseAnswered, PageAnswered, TabTypeOK, sessionVars, dialogVars
  <2> QED
    BY <2>2, <2>3
<1>6. ASSUME NEW c \in Calls, RequestPage(c)
      PROVE  TabTypeOK' /\ Requests'
  <2>1. TabTypeOK'
    BY <1>6 DEF RequestPage, Started, TabTypeOK, Handlers, sessionVars, dialogVars, schemaVars
  <2>2. Requests'
    BY <1>6 DEF RequestPage, Started, TabTypeOK, sessionVars, dialogVars
  <2> QED
    BY <2>1, <2>2
<1>7. ASSUME NEW c \in Calls, NEW t \in Tables, SubmitTable(c, t)
      PROVE  TabTypeOK' /\ Requests'
  <2>1. TabTypeOK'
    BY <1>7 DEF SubmitTable, Started, TabTypeOK, Handlers, sessionVars, dataVars, dialogVars, schemaVars
  <2>2. Requests'
    BY <1>7 DEF SubmitTable, Started, TabTypeOK, sessionVars, dialogVars
  <2> QED
    BY <2>1, <2>2
<1>8. ASSUME NEW c \in Calls, ValidateFile(c)
      PROVE  TabTypeOK' /\ Requests'
  <2>1. TabTypeOK'
    BY <1>8 DEF ValidateFile, Started, TabTypeOK, Handlers, sessionVars, dataVars, dialogVars, schemaVars
  <2>2. Requests'
    BY <1>8 DEF ValidateFile, Started, TabTypeOK, sessionVars, dialogVars
  <2> QED
    BY <2>1, <2>2
<1>9. ASSUME NEW c \in Calls, TableCreated(c)
      PROVE  TabTypeOK' /\ Requests'
  <2>1. arg[c] \in Tables /\ ref \in Calls
    BY <1>9 DEF TableCreated, Answered, TabTypeOK
  <2>2. Load(c, "own", ref) \in LoadSet
    BY <2>1, LoadFacts
  <2>3. TabTypeOK'
    BY <1>9, <2>1, <2>2 DEF TableCreated, TabTypeOK, sessionVars, dataVars
  <2>4. Requests'
    BY <1>9 DEF TableCreated, TabTypeOK, sessionVars
  <2> QED
    BY <2>3, <2>4
<1>10. ASSUME NEW c \in Calls, FileValidated(c)
       PROVE  TabTypeOK' /\ Requests'
  <2>1. TabTypeOK'
    BY <1>10 DEF FileValidated, Unmount, TabTypeOK, dataVars
  <2>2. Requests'
    BY <1>10 DEF FileValidated, TabTypeOK
  <2> QED
    BY <2>1, <2>2
<1>11. ASSUME NEW l \in loads, ReadSchema(l) \/ SchemaLoaded(l) \/ SchemaFails(l)
       PROVE  TabTypeOK' /\ Requests'
  <2>1. l \in LoadSet /\ [l EXCEPT !.read = TRUE, !.saw = tables] \in LoadSet /\ l.saw \subseteq Tables
    BY DEF TabTypeOK, LoadSet
  <2>2. UNCHANGED <<op, pc, arg, creating, ref>>
    BY <1>11 DEF ReadSchema, SchemaLoaded, SchemaFails, callVars, dialogVars, sessionVars
  <2>3. TabTypeOK'
    BY <1>11, <2>1 DEF ReadSchema, SchemaLoaded, SchemaFails, TabTypeOK, sessionVars, callVars,
                       dataVars, dialogVars, historyVars
  <2> QED
    BY <2>2, <2>3
<1>12. CASE CloseTab \/ CloseDialog
  <2>1. UNCHANGED <<op, pc, arg, ref>> /\ creating' \in {creating, None}
    BY <1>12 DEF CloseTab, CloseDialog, callVars, dialogVars, sessionVars
  <2>2. TabTypeOK'
    BY <1>12 DEF CloseTab, CloseDialog, Unmount, TabTypeOK, sessionVars, callVars, dataVars, dialogVars,
                 schemaVars, historyVars
  <2> QED
    BY <2>1, <2>2
<1>13. CASE TabIdle \/ UNCHANGED tabVars
  BY <1>13 DEF TabIdle, tabVars, TabTypeOK, sessionVars, callVars, dataVars, dialogVars, schemaVars,
               historyVars
<1>14. ASSUME NEW c \in Calls,
              \/ RunQuery(c) \/ RefreshSchema(c) \/ OpenCreateTable(c)
              \/ \E t \in Tables : BrowseTable(c, t) \/ OpenImport(c, t)
       PROVE  TabTypeOK' /\ Requests'
  BY <1>2, <1>14, ClickStarts
<1> QED
  BY <1>3, <1>4, <1>5, <1>6, <1>7, <1>8, <1>9, <1>10, <1>11, <1>12, <1>13, <1>14
     DEF TabNext, TabClicks, TabAnswers

-----------------------------------------------------------------------------
\* The session.
LEMMA SessionStep ==
  ASSUME TabTypeOK, OneSession, [TabNext]_tabVars
  PROVE  OneSession'
<1> USE DEF OneSession, Connecting
<1>1. None \notin Calls
  BY NoneAssumption
<1>2. ASSUME NEW c \in Calls, NEW o, NEW t, Starts(c, o, t)
      PROVE  OneSession'
  <2>1. Begun(c, o, t)
    BY <1>2, Begins DEF Starts
  <2>2. CASE ref \in Calls
    <3>1. /\ pc' = [pc EXCEPT ![c] = IF o \in {"run", "browse"} THEN "asked" ELSE "done"]
          /\ UNCHANGED <<mounted, ref, open, raced>> /\ pc[c] = "idle"
      BY <1>1, <2>1, <2>2 DEF Begun
    <3>2. Connecting' = Connecting
      BY <3>1 DEF TabTypeOK
    <3> QED
      BY <3>1, <3>2
  <2>3. CASE ref = None
    <3>1. /\ pc' = [pc EXCEPT ![c] = "connecting"] /\ raced' = (raced \/ Connecting # {})
          /\ UNCHANGED <<mounted, ref, open>> /\ mounted
      BY <1>1, <2>1, <2>3 DEF Begun
    <3>2. Connecting' = Connecting \cup {c}
      BY <3>1 DEF TabTypeOK
    <3> QED
      BY <2>3, <3>1, <3>2
  <2> QED
    BY <2>1, <2>2, <2>3 DEF Begun
<1>3. ASSUME NEW c \in Calls, Connected(c)
      PROVE  OneSession'
  <2>1. Joined(c)
    BY <1>3, Joins
  <2>2. Connecting' = Connecting \ {c} /\ c \in Connecting
    BY <2>1 DEF Joined, TabTypeOK
  <2>3. open' = open \cup {c} /\ ref' = c /\ UNCHANGED <<mounted, raced>>
    BY <2>1 DEF Joined, historyVars
  <2> QED
    BY <1>1, <2>2, <2>3
<1>4. ASSUME UNCHANGED <<mounted, ref, open, raced>>, Connecting' \subseteq Connecting
      PROVE  OneSession'
  BY <1>4
<1>5. ASSUME NEW c \in Calls,
             \/ Fails(c) \/ Dropped(c) \/ RunAnswered(c) \/ BrowseAnswered(c) \/ PageAnswered(c)
             \/ TableCreated(c) \/ RequestPage(c) \/ ValidateFile(c)
             \/ \E t \in Tables : SubmitTable(c, t)
      PROVE  OneSession'
  <2>1. UNCHANGED <<mounted, ref, open, raced>>
    BY <1>5 DEF Fails, Dropped, RunAnswered, BrowseAnswered, PageAnswered, TableCreated, RequestPage,
                ValidateFile, SubmitTable, sessionVars, historyVars
  <2>2. pc' = [pc EXCEPT ![c] = "done"] \/ pc' = [pc EXCEPT ![c] = "asked"]
    BY <1>5 DEF Fails, Dropped, RunAnswered, BrowseAnswered, PageAnswered, TableCreated, RequestPage,
                ValidateFile, SubmitTable
  <2>3. Connecting' \subseteq Connecting
    BY <2>2 DEF TabTypeOK
  <2> QED
    BY <1>4, <2>1, <2>3
<1>6. ASSUME Unmount, UNCHANGED ref, Connecting' \subseteq Connecting
      PROVE  OneSession'
  <2>1. mounted' = FALSE /\ open' = open \ {ref} /\ (~raced' => ~raced /\ Connecting = {})
    BY <1>6 DEF Unmount
  <2>2. ~raced' => open' = {}
    BY <2>1
  <2> QED
    BY <1>6, <2>1, <2>2
<1>7. ASSUME NEW c \in Calls, FileValidated(c)
      PROVE  OneSession'
  <2>1. ref' = ref /\ pc' = [pc EXCEPT ![c] = "done"]
        /\ (Unmount \/ UNCHANGED <<mounted, open, raced>>)
    BY <1>7 DEF FileValidated
  <2>2. Connecting' \subseteq Connecting
    BY <2>1 DEF TabTypeOK
  <2> QED
    BY <1>4, <1>6, <2>1, <2>2
<1>8. CASE CloseTab
  <2>1. Unmount /\ UNCHANGED <<ref, pc>>
    BY <1>8 DEF CloseTab, callVars
  <2> QED
    BY <1>6, <2>1
<1>9. CASE (\E l \in loads : ReadSchema(l) \/ SchemaLoaded(l) \/ SchemaFails(l)) \/ CloseDialog
           \/ TabIdle \/ UNCHANGED tabVars
  <2>1. UNCHANGED <<mounted, ref, open, raced, pc>>
    BY <1>9 DEF ReadSchema, SchemaLoaded, SchemaFails, CloseDialog, TabIdle, tabVars, sessionVars,
                callVars, historyVars
  <2> QED
    BY <1>4, <2>1
<1>10. ASSUME NEW c \in Calls,
              \/ RunQuery(c) \/ RefreshSchema(c) \/ OpenCreateTable(c)
              \/ \E t \in Tables : BrowseTable(c, t) \/ OpenImport(c, t)
       PROVE  OneSession'
  BY <1>2, <1>10, ClickStarts
<1> QED
  BY <1>3, <1>5, <1>7, <1>8, <1>9, <1>10 DEF TabNext, TabClicks, TabAnswers

-----------------------------------------------------------------------------
\* The grid. A request that is begun while another fetches mingles with it;
\* one that ends leaves the others as they are.
LEMMA FetchBegins ==
  ASSUME TabTypeOK, NEW c \in Calls, NEW o, NEW t, NEW s \in {"connecting", "asked", "done"},
         pc[c] = "idle", op' = [op EXCEPT ![c] = o], arg' = [arg EXCEPT ![c] = t],
         pc' = [pc EXCEPT ![c] = s]
  PROVE  /\ \A x : x # o => Pending(x)' = Pending(x)
         /\ Pending(o)' = Pending(o) \cup (IF s = "done" THEN {} ELSE {c})
         /\ \A d \in Calls : d # c => arg'[d] = arg[d]
         /\ arg'[c] = t
         /\ c \notin Fetching
  BY DEF TabTypeOK, Pending, Fetching

LEMMA FetchEnds ==
  ASSUME TabTypeOK, NEW c \in Calls, UNCHANGED <<op, arg>>, pc' = [pc EXCEPT ![c] = "done"]
  PROVE  /\ \A x : x # op[c] => Pending(x)' = Pending(x)
         /\ \A x : Pending(x)' = Pending(x) \ {c}
         /\ Fetching' = Fetching \ {c}
  BY DEF TabTypeOK, Pending, Fetching

LEMMA BoundStep ==
  ASSUME TabTypeOK, Flags, Bound, [TabNext]_tabVars
  PROVE  Bound'
<1> USE DEF Bound, sessionVars, dialogVars, schemaVars, historyVars
<1>1. ASSUME NEW c \in Calls, NEW o, NEW t, Starts(c, o, t)
      PROVE  Bound'
  <2>1. Begun(c, o, t) /\ o # "page"
    BY <1>1, Begins DEF Starts, Clicked
  <2>2. PICK s \in {"connecting", "asked", "done"} : pc' = [pc EXCEPT ![c] = s]
    BY <2>1 DEF Begun
  <2>3. Pending("page")' = Pending("page") /\ (\A d \in Calls : d # c => arg'[d] = arg[d])
        /\ c \notin Fetching
    BY <2>1, <2>2, FetchBegins DEF Begun
  <2>4. (~mingled' => ~mingled) /\ UNCHANGED <<bref, ctx, shown>>
    BY <2>1 DEF Begun
  <2>5. \A d \in Pending("page") : d # c /\ d \in Calls
    BY <2>3 DEF Fetching, Pending
  <2>6. \A d \in Pending("page")' : d \in Pending("page") /\ arg'[d] = arg[d]
    BY <2>3, <2>5
  <2> QED
    BY <2>4, <2>6
<1>2. ASSUME NEW c \in Calls, RequestPage(c)
      PROVE  Bound'
  <2>1. /\ pc[c] = "idle" /\ op' = [op EXCEPT ![c] = "page"] /\ arg' = [arg EXCEPT ![c] = bref]
        /\ pc' = [pc EXCEPT ![c] = "asked"] /\ ctx # None
        /\ UNCHANGED <<bref, ctx, shown>> /\ (~mingled' => ~mingled)
    BY <1>2 DEF RequestPage, Started
  <2>2. Pending("page")' = Pending("page") \cup {c} /\ arg'[c] = bref
        /\ (\A d \in Calls : d # c => arg'[d] = arg[d])
    BY <2>1, FetchBegins
  <2> QED
    BY <2>1, <2>2 DEF Pending
<1>3. ASSUME NEW c \in Calls, Connected(c)
      PROVE  Bound'
  <2>1. Joined(c)
    BY <1>3, Joins
  <2>2. UNCHANGED <<op, arg, bref, ctx, shown, mingled>>
    BY <2>1 DEF Joined
  <2>3. pc[c] = "connecting" /\ \A d \in Calls : d # c => pc'[d] = pc[d]
    BY <2>1 DEF Joined, TabTypeOK
  <2>4. Pending("page")' \subseteq Pending("page")
    BY <2>2, <2>3 DEF Pending
  <2> QED
    BY <2>2, <2>4
<1>4. ASSUME NEW c \in Calls, Fails(c) \/ Dropped(c) \/ TableCreated(c) \/ FileValidated(c)
      PROVE  Bound'
  <2>1. /\ UNCHANGED <<op, arg, bref, ctx, shown, mingled>>
        /\ pc' = [pc EXCEPT ![c] = "done"]
    BY <1>4 DEF Fails, Dropped, TableCreated, FileValidated, dataVars
  <2>2. Pending("page")' = Pending("page") \ {c}
    BY <2>1, FetchEnds
  <2> QED
    BY <2>1, <2>2
<1>5. ASSUME NEW c \in Calls, RunAnswered(c) \/ BrowseAnswered(c)
      PROVE  Bound'
  <2>1. /\ UNCHANGED <<op, arg, mingled>> /\ pc' = [pc EXCEPT ![c] = "done"]
        /\ (shown' = None /\ ctx' = None) \/ (bref' = ctx' /\ shown' = ctx')
        /\ op[c] \in {"run", "browse"} /\ pc[c] = "asked"
    BY <1>5 DEF RunAnswered, BrowseAnswered, Answered
  <2>2. ~mingled => Pending("page") = {}
    BY <2>1 DEF Flags, Fetching, Pending
  <2>3. Pending("page")' \subseteq Pending("page")
    BY <2>1, FetchEnds
  <2> QED
    BY <2>1, <2>2, <2>3
<1>6. ASSUME NEW c \in Calls, PageAnswered(c)
      PROVE  Bound'
  <2>1. /\ UNCHANGED <<op, arg, bref, ctx, mingled>> /\ pc' = [pc EXCEPT ![c] = "done"]
        /\ shown' = arg[c] /\ c \in Pending("page")
    BY <1>6 DEF PageAnswered, Answered, Pending
  <2>2. Pending("page")' \subseteq Pending("page")
    BY <2>1, FetchEnds
  <2> QED
    BY <2>1, <2>2
<1>7. ASSUME NEW c \in Calls, ValidateFile(c) \/ \E t \in Tables : SubmitTable(c, t)
      PROVE  Bound'
  <2>1. PICK o, t : /\ pc[c] = "idle" /\ op' = [op EXCEPT ![c] = o] /\ arg' = [arg EXCEPT ![c] = t]
                    /\ pc' = [pc EXCEPT ![c] = "asked"] /\ o # "page" /\ (~mingled' => ~mingled)
    BY <1>7 DEF ValidateFile, SubmitTable, Started
  <2>2. UNCHANGED <<bref, ctx, shown>>
    BY <1>7 DEF ValidateFile, SubmitTable, dataVars
  <2>3. Pending("page")' = Pending("page") /\ (\A d \in Calls : d # c => arg'[d] = arg[d])
        /\ c \notin Fetching
    BY <2>1, FetchBegins
  <2> QED
    BY <2>1, <2>2, <2>3 DEF Fetching
<1>8. CASE (\E l \in loads : ReadSchema(l) \/ SchemaLoaded(l) \/ SchemaFails(l)) \/ CloseDialog
           \/ CloseTab \/ TabIdle \/ UNCHANGED tabVars
  <2>1. UNCHANGED <<op, pc, arg, bref, ctx, shown, mingled>>
    BY <1>8 DEF ReadSchema, SchemaLoaded, SchemaFails, CloseDialog, CloseTab, TabIdle, tabVars,
                callVars, dataVars
  <2> QED
    BY <2>1 DEF Pending
<1>9. ASSUME NEW c \in Calls,
             \/ RunQuery(c) \/ RefreshSchema(c) \/ OpenCreateTable(c)
             \/ \E t \in Tables : BrowseTable(c, t) \/ OpenImport(c, t)
      PROVE  Bound'
  BY <1>1, <1>9, ClickStarts
<1> QED
  BY <1>2, <1>3, <1>4, <1>5, <1>6, <1>7, <1>8, <1>9 DEF TabNext, TabClicks, TabAnswers

-----------------------------------------------------------------------------
\* The flags.
LEMMA FlagsStep ==
  ASSUME TabTypeOK, Requests, Flags, [TabNext]_tabVars
  PROVE  Flags'
<1> USE DEF Flags, Fetching, sessionVars, dialogVars, schemaVars, historyVars
<1>1. ASSUME NEW c \in Calls, NEW o, NEW t, Starts(c, o, t)
      PROVE  Flags'
  <2>1. /\ Begun(c, o, t) /\ o \in Clicked
        /\ o = "run" => runState' \in {"connecting", "running"}
        /\ o # "run" => runState' = runState
        /\ browsing' = (browsing \/ o = "browse")
    BY <1>1, Begins DEF Starts
  <2>2. PICK s \in {"connecting", "asked", "done"} : /\ pc' = [pc EXCEPT ![c] = s]
                                                     /\ o \in {"run", "browse"} => s # "done"
    BY <2>1 DEF Begun
  <2>3. /\ \A x : x # o => Pending(x)' = Pending(x)
        /\ Pending(o)' = Pending(o) \cup (IF s = "done" THEN {} ELSE {c})
    BY <2>1, <2>2, FetchBegins DEF Begun
  <2>4. mingled' = (mingled \/ (o \in {"run", "browse", "page"} /\ Fetching # {}))
    BY <2>1 DEF Begun
  <2>5. ~mingled' => \A d, e \in Fetching' : d = e
    <3>1. CASE o \in {"run", "browse"}
      <4>1. ~mingled' => Fetching = {} /\ Fetching' \subseteq {c}
        <5>1. ~mingled' => Pending("run") = {} /\ Pending("browse") = {} /\ Pending("page") = {}
          BY <2>4, <3>1
        <5>2. \A x : Pending(x)' \subseteq Pending(x) \cup {c}
          BY <2>3
        <5> QED
          BY <5>1, <5>2
      <4> QED
        BY <4>1
    <3>2. CASE o \notin {"run", "browse"}
      <4>1. Fetching' = Fetching /\ (~mingled' => ~mingled)
        BY <2>1, <2>3, <2>4, <3>2 DEF Clicked
      <4> QED
        BY <4>1
    <3> QED
      BY <3>1, <3>2
  <2>6. mounted' = mounted /\ (schema' = schema \/ (schema' = "loading" /\ loads' # {}))
        /\ loads \subseteq loads'
    BY <2>1 DEF Begun
  <2>7. o = "run" => Pending("run")' # {}
    BY <2>2, <2>3
  <2>8. o = "browse" => Pending("browse")' # {}
    BY <2>2, <2>3
  <2>9. Pending("run") \subseteq Pending("run")' /\ Pending("browse") \subseteq Pending("browse")'
        /\ Pending("page") \subseteq Pending("page")'
    BY <2>3
  <2>10. o # "run" => Pending("run")' = Pending("run")
    BY <2>3
  <2>11. ~mingled' => ~mingled
    BY <2>4
  <2> HIDE DEF Fetching
  <2> QED
    BY <2>1, <2>5, <2>6, <2>7, <2>8, <2>9, <2>10, <2>11
<1>2. ASSUME NEW c \in Calls, RequestPage(c)
      PROVE  Flags'
  <2>1. /\ pc[c] = "idle" /\ op' = [op EXCEPT ![c] = "page"] /\ arg' = [arg EXCEPT ![c] = bref]
        /\ pc' = [pc EXCEPT ![c] = "asked"]
        /\ UNCHANGED <<mounted, runState, schema, loads>>
        /\ mingled' = (mingled \/ Fetching # {})
    BY <1>2 DEF RequestPage, Started
  <2>2. Pending("page")' = Pending("page") \cup {c} /\ \A x : x # "page" => Pending(x)' = Pending(x)
    BY <2>1, FetchBegins
  <2> QED
    BY <2>1, <2>2
<1>3. ASSUME NEW c \in Calls, Connected(c)
      PROVE  Flags'
  <2>1. Joined(c)
    BY <1>3, Joins
  <2>2. /\ UNCHANGED <<mounted, op, browsing, mingled>>
        /\ \A x : Pending(x)' \subseteq Pending(x)
    BY <2>1 DEF Joined, Pending, TabTypeOK
  <2>3. CASE mounted
    <3>1. /\ pc' = [pc EXCEPT ![c] = IF op[c] \in {"run", "browse"} THEN "asked" ELSE "done"]
          /\ runState' = (IF op[c] = "run" THEN "running" ELSE runState)
          /\ loads' # {} /\ pc[c] = "connecting"
      BY <2>1, <2>3 DEF Joined
    <3>2. op[c] # "page"
      BY <3>1 DEF Requests, Clicked
    <3>3. \A x \in {"run", "browse", "page"} : Pending(x)' = Pending(x)
      BY <2>2, <3>1, <3>2 DEF Pending, TabTypeOK
    <3>4. op[c] = "run" => c \in Pending("run")
      BY <3>1 DEF Pending
    <3> QED
      BY <2>2, <3>1, <3>3, <3>4
  <2>4. CASE ~mounted
    BY <2>2, <2>4
  <2> QED
    BY <2>3, <2>4
<1>4. ASSUME NEW c \in Calls,
             \/ Fails(c) \/ RunAnswered(c) \/ BrowseAnswered(c) \/ PageAnswered(c) \/ TableCreated(c)
      PROVE  Flags'
  <2>1. /\ UNCHANGED <<mounted, op, arg, mingled>> /\ pc' = [pc EXCEPT ![c] = "done"]
        /\ pc[c] \in {"connecting", "asked"}
    BY <1>4 DEF Fails, RunAnswered, BrowseAnswered, PageAnswered, TableCreated, Answered
  <2>2. /\ \A x : x # op[c] => Pending(x)' = Pending(x)
        /\ \A x : Pending(x)' = Pending(x) \ {c}
        /\ c \in Pending(op[c])
    BY <2>1, FetchEnds DEF Pending
  <2>3. ~mingled' => \A d, e \in Fetching' : d = e
    BY <2>1, <2>2
  <2>4. /\ op[c] = "run" => runState' = "finished"
        /\ op[c] # "run" => runState' \in {runState, "idle"}
        /\ op[c] \notin {"run", "browse"} => runState' = runState
        /\ browsing' = (browsing /\ op[c] \notin {"browse", "page"})
        /\ schema' = "loading" => loads' # {}
    BY <1>4, <2>1 DEF Fails, RunAnswered, BrowseAnswered, PageAnswered, TableCreated, Answered, dataVars,
                      TabTypeOK
  <2>5. ~mingled /\ op[c] \in {"run", "browse"} => Pending("run")' = {}
    BY <2>2
  <2>6. mounted /\ runState' \in {"connecting", "running"} => Pending("run")' # {}
    <3>1. SUFFICES ASSUME mounted, runState' \in {"connecting", "running"}
                   PROVE  Pending("run")' # {}
      OBVIOUS
    <3>2. op[c] # "run" /\ runState' = runState
      BY <2>4, <3>1
    <3>3. Pending("run")' = Pending("run") /\ Pending("run") # {}
      BY <2>2, <3>1, <3>2
    <3> QED
      BY <3>3
  <2> QED
    BY <2>1, <2>2, <2>3, <2>4, <2>5, <2>6
<1>5. ASSUME ~mounted', UNCHANGED <<op, mingled>>, \A x : Pending(x)' \subseteq Pending(x)
      PROVE  Flags'
  BY <1>5
<1>6. ASSUME NEW c \in Calls, Dropped(c)
      PROVE  Flags'
  <2>1. UNCHANGED <<op, arg, mounted, mingled>> /\ ~mounted /\ pc' = [pc EXCEPT ![c] = "done"]
    BY <1>6 DEF Dropped
  <2> QED
    BY <1>5, <2>1, FetchEnds
<1>7. ASSUME NEW c \in Calls, FileValidated(c)
      PROVE  Flags'
  <2>1. UNCHANGED <<op, arg, mingled, runState, browsing, schema>>
    BY <1>7 DEF FileValidated, dataVars
  <2>2. op[c] = "validate" /\ pc' = [pc EXCEPT ![c] = "done"]
    BY <1>7 DEF FileValidated, Answered
  <2>3. mounted' = FALSE \/ UNCHANGED <<mounted, loads>>
    BY <1>7 DEF FileValidated, Unmount
  <2>4. \A x : x # "validate" => Pending(x)' = Pending(x)
    BY <2>1, <2>2, FetchEnds
  <2>5. \A x : Pending(x)' = Pending(x) \ {c}
    BY <2>1, <2>2, FetchEnds
  <2> QED
    BY <1>5, <2>1, <2>3, <2>4, <2>5
<1>8. ASSUME NEW c \in Calls, ValidateFile(c) \/ \E t \in Tables : SubmitTable(c, t)
      PROVE  Flags'
  <2>1. PICK o, t : /\ pc[c] = "idle" /\ op' = [op EXCEPT ![c] = o] /\ arg' = [arg EXCEPT ![c] = t]
                    /\ pc' = [pc EXCEPT ![c] = "asked"] /\ o \in {"validate", "submit"}
                    /\ mingled' = mingled
    BY <1>8 DEF ValidateFile, SubmitTable, Started, TabTypeOK
  <2>2. UNCHANGED <<mounted, runState, browsing, schema, loads>>
    BY <1>8 DEF ValidateFile, SubmitTable, dataVars
  <2>3. \A x : x # o => Pending(x)' = Pending(x)
    BY <2>1, FetchBegins
  <2> QED
    BY <2>1, <2>2, <2>3
<1>9. ASSUME NEW l \in loads, ReadSchema(l) \/ SchemaLoaded(l) \/ SchemaFails(l)
      PROVE  Flags'
  <2>1. UNCHANGED <<op, pc, arg, mounted, runState, browsing, mingled>>
        /\ (schema' = "loading" => loads' # {})
    BY <1>9 DEF ReadSchema, SchemaLoaded, SchemaFails, callVars, dataVars
  <2> QED
    BY <2>1 DEF Pending
<1>10. CASE CloseTab \/ CloseDialog \/ TabIdle \/ UNCHANGED tabVars
  <2>1. UNCHANGED <<op, pc, arg, runState, browsing, mingled, schema>>
        /\ (mounted' = FALSE \/ UNCHANGED <<mounted, loads>>)
    BY <1>10 DEF CloseTab, Unmount, CloseDialog, TabIdle, tabVars, callVars, dataVars
  <2> QED
    BY <2>1 DEF Pending
<1>11. ASSUME NEW c \in Calls,
              \/ RunQuery(c) \/ RefreshSchema(c) \/ OpenCreateTable(c)
              \/ \E t \in Tables : BrowseTable(c, t) \/ OpenImport(c, t)
       PROVE  Flags'
  BY <1>1, <1>11, ClickStarts
<1> QED
  BY <1>2, <1>3, <1>4, <1>6, <1>7, <1>8, <1>9, <1>10, <1>11 DEF TabNext, TabClicks, TabAnswers

-----------------------------------------------------------------------------
(***************************************************************************)
(* Of each part, what holds of it always; of the one that is not followed, *)
(* nothing changes.                                                        *)
(***************************************************************************)
ClientInv == EditorInv /\ GridInv /\ DiagramInv

LEMMA ClientInit == Init => ClientInv
<1> SUFFICES ASSUME Init
             PROVE  ClientInv
  OBVIOUS
<1>1. EditorInv
  <2> USE DEF Init, TabInit
  <2>1. TabTypeOK
    BY DEF TabTypeOK
  <2>2. Pending("run") = {} /\ Pending("browse") = {} /\ Pending("page") = {} /\ Connecting = {}
    BY DEF Pending, Connecting
  <2>3. Requests /\ Bound /\ Listed
    BY <2>2 DEF Requests, Bound, Listed
  <2>4. OneSession /\ Flags
    BY <2>2 DEF OneSession, Flags, Fetching
  <2> QED
    BY <2>1, <2>3, <2>4 DEF EditorInv
<1>2. DiagramInv
  <2> USE DEF Init, DiagramInit
  <2>1. DiagramTypeOK
    BY DEF DiagramTypeOK
  <2>2. Linking = {} /\ Drawing = {}
    BY DEF Linking, Drawing, Busy
  <2>3. OneLink
    BY <2>2 DEF OneLink
  <2>4. Untangled
    BY <2>2 DEF Untangled
  <2> QED
    BY <2>1, <2>3, <2>4 DEF DiagramInv
<1>3. GridInv
  BY GridStart DEF Init
<1> QED
  BY <1>1, <1>2, <1>3 DEF ClientInv

LEMMA ClientStep == ClientInv /\ [Next]_vars => ClientInv'
<1> SUFFICES ASSUME ClientInv, [Next]_vars
             PROVE  ClientInv'
  OBVIOUS
<1>1. [TabNext]_tabVars /\ [GridNext]_tableVars /\ [DiagramNext]_viewVars
  BY DEF Next, vars
<1>2. EditorInv'
  BY <1>1, TypesStep, SessionStep, FlagsStep, BoundStep, ListedStep DEF ClientInv, EditorInv
<1>3. DiagramInv'
  BY <1>1, DiagramStep DEF ClientInv
<1>4. GridInv'
  BY <1>1, GridStep DEF ClientInv
<1> QED
  BY <1>2, <1>3, <1>4 DEF ClientInv

LEMMA Client == Spec => []ClientInv
<1> QED
  BY ClientInit, ClientStep, PTL DEF Spec

-----------------------------------------------------------------------------
\* An open SQL tab has at most the one session it holds, and a closed one
\* none, if no connection was begun, and the tab not closed, while another
\* was being opened: ensureSession and the effect's cleanup.
THEOREM EditorLeaksNothing == Spec => []NoSessionLeaks
<1>1. ClientInv => NoSessionLeaks
  BY DEF ClientInv, EditorInv, OneSession, NoSessionLeaks
<1> QED
  BY <1>1, Client, PTL

\* Whatever the order of the answers, a flag of the SQL tab (connecting,
\* running, loading) has a handler that will lower it, and a query in flight
\* has its Cancel button.
THEOREM EditorNeverSpins == Spec => []NothingSpins
<1>1. ClientInv => NothingSpins
  BY DEF ClientInv, EditorInv, Flags, NothingSpins
<1> QED
  BY <1>1, Client, PTL

\* The table whose rows the grid shows is the one its edits are sent to, if
\* no query, browse or page was begun during another.
THEOREM EditorGridBound == Spec => []GridBoundToItsTable
<1>1. ClientInv => GridBoundToItsTable
  BY DEF ClientInv, EditorInv, Bound, GridBoundToItsTable
<1> QED
  BY <1>1, Client, PTL

\* A loaded schema tree lists every table there is, if none was created while
\* a listing was on its way: handleTableCreated lists them anew.
THEOREM EditorTreeIsComplete == Spec => []TreeShowsCreatedTables
<1>1. ClientInv => TreeShowsCreatedTables
  BY DEF ClientInv, EditorInv, Listed, TreeShowsCreatedTables
<1> QED
  BY <1>1, Client, PTL

\* The statements the grid sends are about the rows, of the table, that the
\* user chose, if no deletion or reload was in flight beside something else.
THEOREM ClientWritesHit == Spec => []WritesHitChosenRows
<1>1. ClientInv => WritesHitChosenRows
  BY WritesHit DEF ClientInv
<1> QED
  BY <1>1, Client, PTL

\* Under the same condition the grid shows, at rest, each row of the table
\* once, with its value, and each error at the row it is about; but for the
\* rows inserted under an error (`missed`) and the defaults of a row whose key
\* MySQL did not tell (`known`).
THEOREM ClientGridIsTrue == Spec => []GridShowsTable
<1>1. ClientInv => GridShowsTable
  BY GridShows DEF ClientInv
<1> QED
  BY <1>1, Client, PTL

\* The schema diagram's view shows the picture of what is selected, and has
\* no session but its own, while nothing has crossed; and it never waits for
\* a call that has ended.
THEOREM DiagramShowsSelection == Spec => []DiagramIsOfSelection
<1>1. ClientInv => DiagramIsOfSelection
  BY DEF ClientInv, DiagramInv, OneLink, Untangled, DiagramIsOfSelection, Linking, Drawing
<1> QED
  BY <1>1, Client, PTL

=============================================================================
