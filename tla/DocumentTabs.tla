----------------------------- MODULE DocumentTabs -----------------------------
(***************************************************************************)
(* A tab on a document store.  DbClientView shows a MongoDocumentView or a *)
(* RedisKeyBrowser for it; of the latter, the list of keys and the panel   *)
(* on the value of one key are followed in tabs of their own.  The view    *)
(* opens a session of its own in an effect and closes it in the effect's   *)
(* cleanup.  React's StrictMode runs the effect of a new tab twice, with a *)
(* cleanup between, so a session is named for the run of the effect that   *)
(* asked for it.                                                           *)
(***************************************************************************)
EXTENDS MongoDocuments, RedisBrowser, RedisValues

VARIABLES
    kind,       \* what the tab shows: "mongo", "redis", or "value" of a key
    mounted,    \* the tab is open
    run,        \* the last run of the effect
    opening,    \* runs whose Open...Connection has not answered yet
    open,       \* the Go side's session map
    closing,    \* sessions whose Close...Session is on its way
    ref         \* sessionIdRef, and the view's sessionID

tabVars == <<kind, mounted, run, opening, open, closing, ref>>
storeVars == <<mongoVars, redisVars, valueVars>>
vars == <<requestVars, vague, storeVars, tabVars>>

Runs == {1, 2}

ASSUME TabsAssumption == None \notin Runs

TypeOK ==
    /\ MongoTypeOK
    /\ RedisTypeOK
    /\ ValuesTypeOK
    /\ kind \in {"mongo", "redis", "value"}
    /\ mounted \in BOOLEAN
    /\ run \in Runs
    /\ opening \subseteq Runs
    /\ open \subseteq Runs
    /\ closing \subseteq Runs
    /\ ref \in Runs \cup {None}

\* A new tab: the effect has run once, or twice under StrictMode.
Init ==
    /\ RequestInit
    /\ MongoInit
    /\ RedisInit
    /\ ValuesInit
    /\ kind \in {"mongo", "redis", "value"}
    /\ mounted = TRUE
    /\ run \in Runs
    /\ opening = 1..run
    /\ open = {}
    /\ closing = {}
    /\ ref = None

Elsewhere == <<requestVars, vague, storeVars, kind>>

-----------------------------------------------------------------------------
\* Connect and Ping succeed: the session is put into the map.
OpenServed(n) ==
    /\ n \in opening \ open
    /\ open' = open \cup {n}
    /\ UNCHANGED <<Elsewhere, mounted, run, opening, closing, ref>>

\* The view has a session: the key browser starts its first scan at once.
FirstScan ==
    /\ IF kind = "redis"
       THEN \E c \in Calls : SendScan(c, "replace")
       ELSE UNCHANGED <<requestVars, vague, redisVars>>
    /\ UNCHANGED <<mongoVars, valueVars, kind>>

\* Mutant of OpenAnswered: the cancelled flag is not looked at.
OpenAnsweredAnyway(n) ==
    /\ n \in opening \cap open
    /\ opening' = opening \ {n}
    /\ ref' = n
    /\ FirstScan
    /\ UNCHANGED <<mounted, run, open, closing>>

\* The id arrives: kept by the effect that is current, closed by a cancelled one.
OpenAnswered(n) ==
    /\ n \in opening \cap open
    /\ opening' = opening \ {n}
    /\ IF mounted /\ n = run
       THEN ref' = n /\ FirstScan /\ UNCHANGED closing
       ELSE closing' = closing \cup {n} /\ UNCHANGED <<Elsewhere, ref>>
    /\ UNCHANGED <<mounted, run, open>>

\* connectError: the tab stays without a session.
OpenFails(n) ==
    /\ n \in opening \ open
    /\ opening' = opening \ {n}
    /\ UNCHANGED <<Elsewhere, mounted, run, open, closing, ref>>

CloseTab ==
    /\ mounted
    /\ mounted' = FALSE
    /\ ref' = None
    /\ closing' = IF ref = None THEN closing ELSE closing \cup {ref}
    /\ UNCHANGED <<Elsewhere, run, opening, open>>

\* CloseMongoSession and CloseRedisSession take the session out of the map.
CloseServed(n) ==
    /\ n \in closing
    /\ open' = open \ {n}
    /\ closing' = closing \ {n}
    /\ UNCHANGED <<Elsewhere, mounted, run, opening, ref>>

\* The view is used while it has a session. Requests still out when the tab is
\* closed are not followed any further.
UseMongo ==
    /\ kind = "mongo" /\ mounted /\ ref # None
    /\ MongoNext
    /\ UNCHANGED <<redisVars, valueVars, tabVars>>

UseRedis ==
    /\ kind = "redis" /\ mounted /\ ref # None
    /\ RedisNext
    /\ UNCHANGED <<mongoVars, valueVars, tabVars>>

UseValue ==
    /\ kind = "value" /\ mounted /\ ref # None
    /\ ValuesNext
    /\ UNCHANGED <<mongoVars, redisVars, tabVars>>

Closed == ~mounted /\ opening = {} /\ closing = {} /\ UNCHANGED vars

Next ==
    \/ \E n \in Runs : OpenServed(n) \/ OpenAnswered(n) \/ OpenFails(n) \/ CloseServed(n)
    \/ CloseTab
    \/ UseMongo
    \/ UseRedis
    \/ UseValue
    \/ Closed

Spec == Init /\ [][Next]_vars

-----------------------------------------------------------------------------
(***************************************************************************)
(* Properties.                                                             *)
(***************************************************************************)

\* No session is forgotten, and none is closed under the view: a session in
\* the map is the view's, or its id is still to be answered, or its close is
\* on the way, and the view's is in the map and nobody closes it - the
\* StrictMode failure that MongoDocumentView's doc comment describes.
SessionsAccountedFor ==
    /\ \A n \in open : n \in opening \cup closing \cup {ref}
    /\ ref # None => ref \in open \ closing

\* No button is disabled for good: each flag that disables one has a request
\* out whose answer, or failure, resets it; and the state keeps its types.
NothingSpins ==
    TypeOK /\ MongoFlagsAccountedFor /\ RedisFlagsAccountedFor /\ ValueFlagsAccountedFor

\* An edit goes where its text came from. The text of a key is saved to the
\* key it was loaded from, and an element to the index of the row that was
\* opened, whatever was opened or arrived in between. An update or deletion of
\* a document goes to the collection the document is from only if, when it was
\* clicked, the selected collection's page had come without an error and no
\* two requests had been out at once; EditsAreInPlace is about the rest.
EditsHitTheirSource ==
    SavesHitTheirKey /\ WritesHitShownDocument /\ ElementEditsHitTheirRow

\* With nothing under way the screen shows what the store holds: the page of
\* the selected collection, every key of a finished scan, the value of the
\* open key, and its TTL unless a write to the value has dropped that.
ScreenShowsStore == PageShowsSelection /\ FinishedScanIsExact /\ PanelShowsValue

\* Nothing is lost but what the user confirmed to delete or removed: no key
\* is overwritten by a rename, no field or member by a save of the others.
NothingLost == DataSurvives /\ PartsSurvive
=============================================================================
