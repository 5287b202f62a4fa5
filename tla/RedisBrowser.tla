---------------------------- MODULE RedisBrowser ----------------------------
(***************************************************************************)
(* The key browser of a Redis tab (RedisKeyBrowser.tsx): the keys found by *)
(* a cursor-paged SCAN, the keys ticked for deletion, and the detail panel *)
(* of one key with its editor, rename and delete.  The panel is one        *)
(* component instance as long as some key is open; the editor inside it is *)
(* a new instance for every key.  Data is named for the key it was first   *)
(* stored under, and an edited text is still the same data; RedisValues has *)
(* the typed editors and the TTLs.                                         *)
(***************************************************************************)
EXTENDS ViewRequests

CONSTANTS Keys,
          Patterns, \* the sets of keys that glob patterns match, * all
          Early     \* keys SCAN comes across in its first page

ASSUME RedisAssumption ==
    /\ Patterns \subseteq SUBSET Keys
    /\ Keys \in Patterns
    /\ Early \subseteq Keys
    /\ None \notin Keys

VARIABLES
    db,         \* db[k]: the data stored under k, or None
    pattern,    \* the text in the pattern field
    listed,     \* scanState.items
    cursor,     \* scanState.cursor: 0 before the first page and after the last
    scanned,    \* scanState.hasScanned
    scanning, deleting,
    ticked,     \* selectedKeys
    openKey,
    reading,    \* Loading, or what a load of the open key has read, and where
    text,       \* what was loaded into the editor, None while there is none
    saving, renaming, removing,
    orphans,    \* calls made by a component that is unmounted by now
    found,      \* history: the pattern of the pages listed, None if mixed
    erased      \* history: data that a confirmed deletion removed

Loading == [key |-> None, data |-> None]
Blank == "blank"
Value == [key : Keys, data : Keys \cup {Blank}]

ASSUME RedisNoneAssumption == None \notin Value \cup {Loading}

listVars == <<pattern, listed, cursor, scanned, scanning, found>>
tickVars == <<ticked, deleting>>
panelVars == <<openKey, reading, text, saving, renaming, removing, orphans>>
redisVars == <<db, listVars, tickVars, panelVars, erased>>

RedisTypeOK ==
    /\ db \in [Keys -> Keys \cup {None, Blank}]
    /\ pattern \in Patterns
    /\ listed \subseteq Keys
    /\ cursor \in {0, 1}
    /\ {scanned, scanning, deleting, saving, renaming, removing} \subseteq BOOLEAN
    /\ ticked \subseteq Keys
    /\ openKey \in Keys \cup {None}
    /\ reading \in Value \cup {None, Loading}
    /\ text \in Value \cup {None}
    /\ orphans \subseteq Calls
    /\ found \in Patterns \cup {None}
    /\ erased \subseteq Keys \cup {Blank}

RedisInit ==
    /\ db \in [Keys -> Keys \cup {None}]
    /\ \A k \in Keys : db[k] \in {k, None}
    /\ erased = {k \in Keys : db[k] = None}
    /\ pattern = Keys
    /\ listed = {} /\ cursor = 0 /\ scanned = FALSE /\ found = None
    /\ scanning = FALSE /\ deleting = FALSE
    /\ ticked = {} /\ orphans = {}
    /\ openKey = None /\ reading = None /\ text = None
    /\ saving = FALSE /\ renaming = FALSE /\ removing = FALSE

-----------------------------------------------------------------------------
Existing == {k \in Keys : db[k] # None}
LoadOut == openKey # None /\ text = None /\ reading = Loading

\* setOpenKey: another key's editor is loaded afresh, and answers to the old
\* one are dropped; without a key the panel goes, and with it its flags.
\* `left` are the calls whose handlers end in this very step.
ShowKey(k, left) ==
    /\ openKey' = k
    /\ IF k = openKey
       THEN UNCHANGED <<reading, text, saving, renaming, removing>> /\ orphans' = orphans \ left
       ELSE /\ reading' = IF k = None THEN None ELSE Loading
            /\ text' = None
            /\ saving' = FALSE
            /\ renaming' = (renaming /\ k # None)
            /\ removing' = (removing /\ k # None)
            /\ orphans' = (orphans \cup Pending("save")
                           \cup IF k = None THEN Pending("rename") \cup Pending("remove") ELSE {})
                          \ left

-----------------------------------------------------------------------------
(***************************************************************************)
(* The scan.  "Load more" is disabled while scanning, Enter is not; it     *)
(* sends the cursor of the pages listed with the pattern as it is now.     *)
(***************************************************************************)
EditPattern(p) ==
    /\ p # pattern
    /\ pattern' = p
    /\ UNCHANGED <<requestVars, vague, db, listed, cursor, scanned, scanning, found, tickVars,
                   panelVars, erased>>

CanLoadMore == scanned /\ cursor # 0

SendScan(c, mode) ==
    /\ mode = "append" => CanLoadMore /\ ~scanning
    /\ Send(c, "scan", [mode |-> mode, pattern |-> pattern,
                        cursor |-> IF mode = "replace" THEN 0 ELSE cursor], LoadOut)
    /\ scanning' = TRUE
    /\ UNCHANGED <<db, pattern, listed, cursor, scanned, found, tickVars, panelVars, erased>>

\* SCAN: two pages, and 0 when the second has been read.
ScanKeys(p, at) == (IF at = 0 THEN Early ELSE Keys \ Early) \cap Existing \cap p

ServeScan(c) ==
    /\ op[c] = "scan"
    /\ Serve(c, "scan", "sent", ScanKeys(arg[c].pattern, arg[c].cursor))
    /\ UNCHANGED redisVars

\* Mutant of ScanAnswered: the next page replaces the ones before.
ScanAnsweredReplacing(c) ==
    /\ Answered(c, "scan")
    /\ scanning' = FALSE
    /\ scanned' = TRUE
    /\ cursor' = 1 - arg[c].cursor
    /\ listed' = ans[c]
    /\ IF arg[c].mode = "replace"
       THEN /\ found' = arg[c].pattern
            /\ ticked' = {}
            /\ ShowKey(None, {c})
       ELSE /\ found' = IF found = arg[c].pattern THEN found ELSE None
            /\ UNCHANGED <<ticked, panelVars>>
    /\ UNCHANGED <<db, pattern, deleting, erased>>

\* runScan goes on: applyCursorPage, and a fresh scan starts from nothing.
ScanAnswered(c) ==
    /\ Answered(c, "scan")
    /\ scanning' = FALSE
    /\ scanned' = TRUE
    /\ cursor' = 1 - arg[c].cursor
    /\ IF arg[c].mode = "replace"
       THEN /\ listed' = ans[c]
            /\ found' = arg[c].pattern
            /\ ticked' = {}
            /\ ShowKey(None, {c})
       ELSE /\ listed' = listed \cup ans[c]
            /\ found' = IF found = arg[c].pattern THEN found ELSE None
            /\ UNCHANGED <<ticked, panelVars>>
    /\ UNCHANGED <<db, pattern, deleting, erased>>

-----------------------------------------------------------------------------
(***************************************************************************)
(* Ticked keys.                                                            *)
(***************************************************************************)
Tick(k) ==
    /\ k \in listed
    /\ ticked' = IF k \in ticked THEN ticked \ {k} ELSE ticked \cup {k}
    /\ UNCHANGED <<requestVars, vague, db, listVars, deleting, panelVars, erased>>

DeleteTicked(c) ==
    /\ ticked # {}
    /\ ~deleting
    /\ Send(c, "deleteTicked", [keys |-> ticked, open |-> openKey], LoadOut)
    /\ deleting' = TRUE
    /\ UNCHANGED <<db, listVars, ticked, panelVars, erased>>

\* One DEL for all of them.
DeleteKeys(ks) == [k \in Keys |-> IF k \in ks THEN None ELSE db[k]]

ServeDelete(c, o) ==
    /\ op[c] = o
    /\ Serve(c, o, "sent", None)
    /\ db' = DeleteKeys(arg[c].keys)
    /\ erased' = erased \cup {db[k] : k \in arg[c].keys \cap Existing}
    /\ UNCHANGED <<listVars, tickVars, panelVars>>

\* The handler goes on with the ticks and the open key of when it was called.
TickedDeleted(c) ==
    /\ Answered(c, "deleteTicked")
    /\ listed' = listed \ arg[c].keys
    /\ ticked' = {}
    /\ deleting' = FALSE
    /\ ShowKey(IF arg[c].open \in arg[c].keys THEN None ELSE openKey, {c})
    /\ UNCHANGED <<db, pattern, cursor, scanned, scanning, found, erased>>

-----------------------------------------------------------------------------
(***************************************************************************)
(* The detail panel: the key's type and value are loaded by effects whose  *)
(* cleanup drops late answers, so only the load of the open key counts.    *)
(***************************************************************************)
OpenKey(k) ==
    /\ k \in listed
    /\ k # openKey
    /\ ShowKey(k, {})
    /\ vague' = (vague \/ Out # {})
    /\ UNCHANGED <<requestVars, db, listVars, tickVars, erased>>

\* GetKeyType and GetString; a key that does not exist has no editor.
ReadValue ==
    /\ LoadOut
    /\ reading' = IF db[openKey] = None THEN None
                  ELSE [key |-> openKey, data |-> db[openKey]]
    /\ UNCHANGED <<requestVars, vague, db, listVars, tickVars, openKey, text, saving, renaming,
                   removing, orphans, erased>>

ShowValue ==
    /\ text = None
    /\ reading \notin {None, Loading}
    /\ text' = reading
    /\ UNCHANGED <<requestVars, vague, db, listVars, tickVars, openKey, reading, saving, renaming,
                   removing, orphans, erased>>

\* A type that cannot be loaded leaves no editor, a value that cannot be loaded
\* an empty one that can be saved.
ReadFails ==
    /\ LoadOut
    /\ reading' \in {None, [key |-> openKey, data |-> Blank]}
    /\ vague' = TRUE
    /\ UNCHANGED <<requestVars, db, listVars, tickVars, openKey, text, saving, renaming, removing,
                   orphans, erased>>

Save(c) ==
    /\ text # None
    /\ ~saving
    /\ Send(c, "save", [key |-> openKey, from |-> text.key, data |-> text.data], FALSE)
    /\ saving' = TRUE
    /\ UNCHANGED <<db, listVars, tickVars, openKey, reading, text, renaming, removing, orphans,
                   erased>>

\* SetString stores the text under the key, whether or not it exists.
ServeSave(c) ==
    /\ op[c] = "save"
    /\ Serve(c, "save", "sent", None)
    /\ db' = [db EXCEPT ![arg[c].key] = arg[c].data]
    /\ UNCHANGED <<listVars, tickVars, panelVars, erased>>

Saved(c) ==
    /\ Answered(c, "save")
    /\ saving' = (saving /\ c \in orphans)
    /\ orphans' = orphans \ {c}
    /\ UNCHANGED <<db, listVars, tickVars, openKey, reading, text, renaming, removing, erased>>

Rename(c, k) ==
    /\ openKey # None
    /\ k # openKey
    /\ ~renaming
    /\ Send(c, "rename", [from |-> openKey, to |-> k], LoadOut)
    /\ renaming' = TRUE
    /\ UNCHANGED <<db, listVars, tickVars, openKey, reading, text, saving, removing, orphans,
                   erased>>

\* Mutant of CheckRename: RENAME alone, which overwrites.
CheckRenameNot(c) ==
    /\ op[c] = "rename"
    /\ pc[c] = "sent"
    /\ pc' = [pc EXCEPT ![c] = "checked"]
    /\ UNCHANGED <<op, arg, ans, vague, redisVars>>

\* RenameKey: EXISTS first, and ErrKeyExists if the new name is taken ...
CheckRename(c) ==
    /\ op[c] = "rename"
    /\ pc[c] = "sent"
    /\ db[arg[c].to] = None
    /\ pc' = [pc EXCEPT ![c] = "checked"]
    /\ UNCHANGED <<op, arg, ans, vague, redisVars>>

\* ... then RENAME, an error if the old name is gone.
ServeRename(c) ==
    /\ op[c] = "rename"
    /\ db[arg[c].from] # None
    /\ Serve(c, "rename", "checked", None)
    /\ db' = [db EXCEPT ![arg[c].to] = db[arg[c].from], ![arg[c].from] = None]
    /\ UNCHANGED <<listVars, tickVars, panelVars, erased>>

RenameRefused(c) ==
    /\ op[c] = "rename"
    /\ \/ pc[c] = "sent" /\ db[arg[c].to] # None
       \/ pc[c] = "checked" /\ db[arg[c].from] = None
    /\ Return(c)
    /\ renaming' = (renaming /\ c \in orphans)
    /\ orphans' = orphans \ {c}
    /\ UNCHANGED <<vague, db, listVars, tickVars, openKey, reading, text, saving, removing, erased>>

\* handleKeyRenamed: the list follows, the ticks do not; the new name is
\* opened whatever the user looks at by now.
Renamed(c) ==
    /\ Answered(c, "rename")
    /\ listed' = IF arg[c].from \in listed THEN (listed \ {arg[c].from}) \cup {arg[c].to}
                 ELSE listed
    /\ openKey' = arg[c].to
    /\ IF openKey = arg[c].to
       THEN UNCHANGED <<reading, text, saving>> /\ orphans' = orphans \ {c}
       ELSE /\ reading' = Loading /\ text' = None /\ saving' = FALSE
            /\ orphans' = (orphans \cup Pending("save")) \ {c}
    /\ renaming' = (renaming /\ c \in orphans)
    /\ UNCHANGED <<db, pattern, cursor, scanned, scanning, found, tickVars, removing, erased>>

RemoveKey(c) ==
    /\ openKey # None
    /\ ~removing
    /\ Send(c, "remove", [keys |-> {openKey}], LoadOut)
    /\ removing' = TRUE
    /\ UNCHANGED <<db, listVars, tickVars, openKey, reading, text, saving, renaming, orphans,
                   erased>>

\* handleKeyDeleted compares the key with the one that was open when it was
\* clicked: the panel closes whatever is open by now.
Removed(c) ==
    /\ Answered(c, "remove")
    /\ listed' = listed \ arg[c].keys
    /\ ticked' = ticked \ arg[c].keys
    /\ ShowKey(None, {c})
    /\ UNCHANGED <<db, pattern, cursor, scanned, scanning, found, deleting, erased>>

-----------------------------------------------------------------------------
\* Mutant of RedisFails: the Scan button stays disabled after an error.
RedisFailsSilently(c) ==
    /\ \E o \in {"scan", "deleteTicked", "save", "rename", "remove"} : Failed(c, o)
    /\ deleting' = (deleting /\ op[c] # "deleteTicked")
    /\ saving' = (saving /\ (op[c] # "save" \/ c \in orphans))
    /\ renaming' = (renaming /\ (op[c] # "rename" \/ c \in orphans))
    /\ removing' = (removing /\ (op[c] # "remove" \/ c \in orphans))
    /\ orphans' = orphans \ {c}
    /\ UNCHANGED <<db, listVars, ticked, openKey, reading, text, erased>>

\* The catch and finally blocks: the error is shown, the button comes back.
RedisFails(c) ==
    /\ \E o \in {"scan", "deleteTicked", "save", "rename", "remove"} : Failed(c, o)
    /\ scanning' = (scanning /\ op[c] # "scan")
    /\ deleting' = (deleting /\ op[c] # "deleteTicked")
    /\ saving' = (saving /\ (op[c] # "save" \/ c \in orphans))
    /\ renaming' = (renaming /\ (op[c] # "rename" \/ c \in orphans))
    /\ removing' = (removing /\ (op[c] # "remove" \/ c \in orphans))
    /\ orphans' = orphans \ {c}
    /\ UNCHANGED <<db, pattern, listed, cursor, scanned, found, ticked, openKey, reading, text,
                   erased>>

RedisNext ==
    \/ \E p \in Patterns : EditPattern(p)
    \/ \E k \in Keys : Tick(k) \/ OpenKey(k)
    \/ ReadValue \/ ShowValue \/ ReadFails
    \/ \E c \in Calls :
          \/ \E mode \in {"replace", "append"} : SendScan(c, mode)
          \/ ServeScan(c) \/ ScanAnswered(c)
          \/ DeleteTicked(c) \/ ServeDelete(c, "deleteTicked") \/ TickedDeleted(c)
          \/ Save(c) \/ ServeSave(c) \/ Saved(c)
          \/ \E k \in Keys : Rename(c, k)
          \/ CheckRename(c) \/ ServeRename(c) \/ RenameRefused(c) \/ Renamed(c)
          \/ RemoveKey(c) \/ ServeDelete(c, "remove") \/ Removed(c)
          \/ RedisFails(c)

-----------------------------------------------------------------------------
(***************************************************************************)
(* Properties.                                                             *)
(***************************************************************************)

\* Whatever overtakes what, a save that is under way writes to the key that its
\* text was loaded from: opening another key drops the editor, and a late
\* answer never reaches the next one.
SavesHitTheirKey == \A c \in Pending("save") : arg[c].from = arg[c].key

\* Once the last page is in, the list shows exactly what exists: every key of
\* the pattern is listed, and whatever is listed exists.  Other programs leave
\* the keys alone, requests neither cross nor fail, and the pattern field was
\* not edited between two pages.
FinishedScanIsExact ==
    scanned /\ cursor = 0 /\ found # None /\ Out = {} /\ ~vague =>
        /\ found \cap Existing \subseteq listed
        /\ listed \subseteq Existing

\* No data is lost but what the user confirmed to delete: a rename never
\* overwrites another key (RenameKey's ErrKeyExists), and a save only stores
\* what it has loaded.  It needs that requests neither cross nor fail.
DataSurvives ==
    vague \/ \A k \in Keys : k \in erased \/ \E l \in Keys : db[l] = k

RedisFlagsAccountedFor ==
    /\ scanning => Pending("scan") # {}
    /\ deleting => Pending("deleteTicked") # {}
    /\ saving => Pending("save") \ orphans # {}
    /\ renaming => Pending("rename") \ orphans # {}
    /\ removing => Pending("remove") \ orphans # {}
=============================================================================
