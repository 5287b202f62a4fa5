----------------------------- MODULE RedisValues -----------------------------
(***************************************************************************)
(* The value of one Redis key and its time to live, in the detail panel    *)
(* (RedisKeyDetail.tsx, RedisValueViews.tsx) and on the server.  Any value *)
(* is a function: a string has the domain {1}, a list 1..n, a hash maps    *)
(* fields, a sorted set members to scores, a set members to themselves.    *)
(* The empty function is a key that does not exist.  Time does not tick:   *)
(* a TTL is the number it was last set to, and a key that has one may      *)
(* expire whenever it likes.                                               *)
(***************************************************************************)
EXTENDS ViewRequests, Sequences

CONSTANTS Parts,     \* fields, and members of sets and sorted sets: numbers
          Texts,     \* contents of strings, fields and list elements; scores
          EarlyParts, \* members SSCAN comes across in its first page
          WindowSize, \* LIST_PAGE_SIZE, SORTED_SET_PAGE_SIZE
          MaxLen,    \* bound: elements of a list
          MaxTTL     \* bound: TTLs a user sets

ASSUME ValuesAssumption ==
    /\ Parts \subseteq Nat /\ Texts \subseteq Nat \ {0}
    /\ EarlyParts \subseteq Parts
    /\ {WindowSize, MaxLen, MaxTTL} \subseteq Nat \ {0}

VARIABLES
    stored,     \* the value, and under `type` which of the five it is
    type,
    expiry,     \* 0: no TTL
    panel,      \* the panel has been opened
    rows,       \* what the editor shows: a text or a hash like `stored`, a
                \* window of a list, or the members of a set, or of a
                \* sorted set's window; None while loading
    start,      \* first index of the window; the cursor of a set
    filled,     \* fetchedCount: the window came with all the rows it has room for
    opened,     \* editingIndex and editingValue of a list
    label,      \* ttlNs
    busy,       \* the flags that disable buttons
    removingPart, \* removingMember
    kept,       \* history: positions, fields and members nobody removed
    dropped     \* history: a write to the value has dropped the TTL, and the TTL
                \* has neither been read nor set since

valueVars == <<stored, type, expiry, panel, rows, start, filled, opened, label, busy,
               removingPart, kept, dropped>>
screen == <<panel, rows, start, filled, opened, label, busy, removingPart>>

Types == {"string", "hash", "list", "set", "zset"}
Windowed == {"list", "zset"}
Nothing == <<>>

ValuesOf(t) ==
    CASE t = "string" -> {<<d>> : d \in Texts \cup {0}}
      [] t = "list" -> UNION {[1..n -> Texts] : n \in 1..MaxLen}
      [] t = "set" -> {[m \in S |-> m] : S \in (SUBSET Parts) \ {{}}}
      [] OTHER -> UNION {[S -> Texts] : S \in (SUBSET Parts) \ {{}}}

ValuesTypeOK ==
    /\ type \in Types
    /\ stored \in ValuesOf(type) \cup {Nothing}
    /\ {expiry, label} \subseteq 0..MaxTTL \cup {None}
    /\ {panel, filled, dropped} \subseteq BOOLEAN
    /\ start \in Nat
    /\ opened = None \/ (opened.index \in 1..WindowSize /\ opened.to \in Texts)
    /\ busy \subseteq {"loading", "saving", "adding", "ttlSaving"}
    /\ removingPart \in Parts \cup {None}
    /\ kept \subseteq Parts \cup 1..MaxLen

ValuesInit ==
    /\ type \in Types
    /\ stored \in ValuesOf(type)
    /\ expiry \in 0..1
    /\ panel = FALSE
    /\ rows = None /\ start = 0 /\ filled = FALSE /\ opened = None /\ label = None
    /\ busy = {} /\ removingPart = None
    /\ kept = DOMAIN stored
    /\ dropped = FALSE

-----------------------------------------------------------------------------
(***************************************************************************)
(* The commands of internal/dbengine/redis: what each returns for a value, *)
(* or makes of it.  Values of another type do not occur.                   *)
(***************************************************************************)
GetString(v) == v
SetString(v, text) == text
GetHash(v) == v
\* HSET adds and overwrites, and sends nothing for no fields at all.
SetHash(v, fields) == [f \in DOMAIN fields \cup DOMAIN v |->
                          IF f \in DOMAIN fields THEN fields[f] ELSE v[f]]
GetList(v, from, to) == SubSeq(v, from + 1, IF to < Len(v) THEN to + 1 ELSE Len(v))
PushList(v, ds) == v \o ds
SetListElement(v, i, d) == [v EXCEPT ![i + 1] = d]
GetSet(v, at) == DOMAIN v \cap IF at = 0 THEN EarlyParts ELSE Parts \ EarlyParts
AddToSet(v, ms) == [m \in DOMAIN v \cup ms |-> m]
RemoveFromSet(v, ms) == [m \in DOMAIN v \ ms |-> m]

\* ZRANGE: by score, equal scores by member.
ZRank(v, m) == Cardinality({x \in DOMAIN v : v[x] < v[m] \/ (v[x] = v[m] /\ x < m)})
GetSortedSet(v, from, to) == {m \in DOMAIN v : ZRank(v, m) \in from..to}
AddToSortedSet(v, m, score) == SetHash(v, [x \in {m} |-> score])
RemoveFromSortedSet(v, ms) == [m \in DOMAIN v \ ms |-> v[m]]

\* -1 for a key without a TTL; ErrKeyNotFound is a failed call.
TTL == expiry
\* EXPIRE: a key that does not exist has none, and 0 deletes the key.
SetTTL(v, t) == IF v = Nothing THEN 0 ELSE t
PersistKey == 0

-----------------------------------------------------------------------------
(***************************************************************************)
(* The bound methods of redis_session.go.  An answer to a window is the    *)
(* window; a write answers nothing.                                        *)
(***************************************************************************)
\* Work on values does not cross with work on TTLs.
OnTTL == {"getTTL", "setTTL", "persist"}
Beside(c, o) == \E d \in Out \ {c} : (op[d] \in OnTTL) = (o \in OnTTL)

Reads(c, o, t, r) ==
    /\ type = t
    /\ Serve(c, o, "sent", [rows |-> r])
    /\ UNCHANGED valueVars

\* A key loses its TTL with its last part, and SET drops it.
Writes(c, o, t, v) ==
    /\ type = t
    /\ Serve(c, o, "sent", None)
    /\ stored' = v
    /\ expiry' = IF v = Nothing \/ t = "string" THEN 0 ELSE expiry
    /\ dropped' = (dropped \/ expiry' # expiry)
    /\ UNCHANGED <<type, screen>>

WindowEnd(c) == arg[c].start + WindowSize - 1

GetRedisString(c) == stored # Nothing /\ Reads(c, "getValue", "string", GetString(stored))
GetRedisHash(c) == Reads(c, "getValue", "hash", GetHash(stored))
GetRedisList(c) == Reads(c, "getValue", "list", GetList(stored, arg[c].start, WindowEnd(c)))
GetRedisSet(c) == Reads(c, "getValue", "set", GetSet(stored, arg[c].start))
GetRedisSortedSet(c) ==
    Reads(c, "getValue", "zset", GetSortedSet(stored, arg[c].start, WindowEnd(c)))

SetRedisString(c) ==
    /\ Writes(c, "setValue", "string", SetString(stored, arg[c].value))
    /\ kept' = {1}

\* Mutant of SetRedisHash: an exact replace.
SetRedisHashExactly(c) ==
    /\ Writes(c, "setValue", "hash", arg[c].value)
    /\ kept' = kept \cup DOMAIN arg[c].value

SetRedisHash(c) ==
    /\ Writes(c, "setValue", "hash", SetHash(stored, arg[c].value))
    /\ kept' = kept \cup DOMAIN arg[c].value

PushRedisList(c) ==
    /\ Writes(c, "add", "list", PushList(stored, arg[c].values))
    /\ kept' = kept \cup DOMAIN PushList(stored, arg[c].values)

\* LSET is an error out of range.
SetRedisListElement(c) ==
    /\ op[c] = "setElement" => arg[c].index + 1 \in DOMAIN stored
    /\ Writes(c, "setElement", "list", SetListElement(stored, arg[c].index, arg[c].to))
    /\ UNCHANGED kept

AddRedisSetMembers(c) ==
    /\ Writes(c, "add", "set", AddToSet(stored, {arg[c].values[1]}))
    /\ kept' = kept \cup {arg[c].values[1]}

RemoveRedisSetMembers(c) ==
    /\ Writes(c, "removePart", "set", RemoveFromSet(stored, {arg[c].part}))
    /\ kept' = kept \ {arg[c].part}

AddRedisSortedSetMembers(c) ==
    /\ Writes(c, "add", "zset", AddToSortedSet(stored, arg[c].values[1], arg[c].score))
    /\ kept' = kept \cup {arg[c].values[1]}

RemoveRedisSortedSetMembers(c) ==
    /\ Writes(c, "removePart", "zset", RemoveFromSortedSet(stored, {arg[c].part}))
    /\ kept' = kept \ {arg[c].part}

GetRedisTTL(c) ==
    /\ stored # Nothing
    /\ Serve(c, "getTTL", "sent", [ttl |-> TTL])
    /\ dropped' = FALSE
    /\ UNCHANGED <<stored, type, expiry, screen, kept>>

SetRedisTTL(c) ==
    /\ Serve(c, "setTTL", "sent", None)
    /\ expiry' = SetTTL(stored, arg[c].ttl)
    /\ stored' = IF arg[c].ttl = 0 THEN Nothing ELSE stored
    /\ kept' = IF arg[c].ttl = 0 THEN {} ELSE kept
    /\ dropped' = FALSE
    /\ UNCHANGED <<type, screen>>

PersistRedisKey(c) ==
    /\ Serve(c, "persist", "sent", None)
    /\ expiry' = PersistKey
    /\ dropped' = FALSE
    /\ UNCHANGED <<stored, type, screen, kept>>

\* The server lets a key expire.
Expires ==
    /\ expiry # 0
    /\ stored' = Nothing /\ expiry' = 0 /\ kept' = {}
    /\ vague' = TRUE
    /\ UNCHANGED <<requestVars, type, screen, dropped>>

-----------------------------------------------------------------------------
(***************************************************************************)
(* The panel's handlers.                                                   *)
(***************************************************************************)
\* A handler runs up to its first await ...
Ask(c, o, a) ==
    /\ pc[c] = "idle"
    /\ op' = [op EXCEPT ![c] = o]
    /\ pc' = [pc EXCEPT ![c] = "sent"]
    /\ arg' = [arg EXCEPT ![c] = a]
    /\ vague' = (vague \/ Beside(c, o))
    /\ UNCHANGED <<ans, stored, type, expiry, kept, dropped>>

\* ... or, once o is answered, up to the next one.
GoOn(c, o, next, a) ==
    /\ op[c] = o
    /\ pc[c] = "served"
    /\ op' = [op EXCEPT ![c] = next]
    /\ pc' = [pc EXCEPT ![c] = "sent"]
    /\ arg' = [arg EXCEPT ![c] = a]
    /\ ans' = [ans EXCEPT ![c] = None]
    /\ UNCHANGED <<vague, stored, type, expiry, kept, dropped>>

Ends(c, o) == Answered(c, o) /\ UNCHANGED <<stored, type, expiry, kept, dropped>>

LoadArg(s, last) == [start |-> s, last |-> last]

\* Two effects of the new panel: the value and the TTL are loaded.
ShowPanel(c, d) ==
    /\ ~panel
    /\ c # d
    /\ panel' = TRUE
    /\ op' = [op EXCEPT ![c] = "getValue", ![d] = "getTTL"]
    /\ pc' = [pc EXCEPT ![c] = "sent", ![d] = "sent"]
    /\ arg' = [arg EXCEPT ![c] = LoadArg(0, {"loading"}), ![d] = [last |-> {}]]
    /\ busy' = {"loading"}
    /\ UNCHANGED <<ans, vague, stored, type, expiry, rows, start, filled, opened, label,
                   removingPart, kept, dropped>>

\* Prev and Next, under a window that shows rows, and Load more of a set.
TurnsPages == type \in Windowed /\ IF type = "list" THEN Len(rows) > 0 ELSE rows # {}

TurnWindow(c, s) ==
    /\ rows # None
    /\ "loading" \notin busy
    /\ \/ TurnsPages /\ filled /\ s = start + WindowSize
       \/ TurnsPages /\ start > 0 /\ s = IF start > WindowSize THEN start - WindowSize ELSE 0
       \/ type = "set" /\ s = start /\ start # 0
    /\ Ask(c, "getValue", LoadArg(s, {"loading"}))
    /\ busy' = busy \cup {"loading"}
    /\ UNCHANGED <<panel, rows, start, filled, opened, label, removingPart>>

Fills(r) ==
    \/ type = "list" /\ Len(r) = WindowSize
    \/ type = "zset" /\ Cardinality(r) = WindowSize

\* Mutant of ValueLoaded: the row under edit stays, in the new window.
ValueLoadedEditing(c) ==
    /\ Ends(c, "getValue")
    /\ rows' = IF type = "set" /\ arg[c].start # 0 THEN rows \cup ans[c].rows ELSE ans[c].rows
    /\ start' = IF type = "set" THEN 1 - arg[c].start ELSE arg[c].start
    /\ filled' = Fills(ans[c].rows)
    /\ busy' = busy \ arg[c].last
    /\ UNCHANGED <<panel, label, removingPart, opened>>

ValueLoaded(c) ==
    /\ Ends(c, "getValue")
    /\ rows' = IF type = "set" /\ arg[c].start # 0 THEN rows \cup ans[c].rows ELSE ans[c].rows
    /\ start' = IF type = "set" THEN 1 - arg[c].start ELSE arg[c].start
    /\ filled' = Fills(ans[c].rows)
    /\ opened' = None
    /\ busy' = busy \ arg[c].last
    /\ UNCHANGED <<panel, label, removingPart>>

\* The text of a string, or the JSON object of a hash.
EditText(v) ==
    /\ type \in {"string", "hash"}
    /\ rows # None
    /\ rows' = v
    /\ UNCHANGED <<requestVars, vague, stored, type, expiry, panel, start, filled, opened, label,
                   busy, removingPart, kept, dropped>>

SaveText(c) ==
    /\ type \in {"string", "hash"}
    /\ rows # None
    /\ "saving" \notin busy
    /\ Ask(c, "setValue", [value |-> rows])
    /\ busy' = busy \cup {"saving"}
    /\ UNCHANGED <<panel, rows, start, filled, opened, label, removingPart>>

TextSaved(c) ==
    /\ Ends(c, "setValue")
    /\ busy' = busy \ {"saving"}
    /\ UNCHANGED <<panel, rows, start, filled, opened, label, removingPart>>

StartElement(i, d) ==
    /\ type = "list"
    /\ rows # None /\ i \in DOMAIN rows
    /\ opened' = [index |-> i, to |-> d, at |-> start + i - 1]
    /\ UNCHANGED <<requestVars, vague, stored, type, expiry, panel, rows, start, filled, label,
                   busy, removingPart, kept, dropped>>

CancelElement ==
    /\ opened # None /\ "saving" \notin busy
    /\ opened' = None
    /\ UNCHANGED <<requestVars, vague, stored, type, expiry, panel, rows, start, filled, label,
                   busy, removingPart, kept, dropped>>

SaveElement(c) ==
    /\ opened # None
    /\ "saving" \notin busy
    /\ Ask(c, "setElement", [index |-> start + opened.index - 1, row |-> opened.index,
                             to |-> opened.to, at |-> opened.at])
    /\ busy' = busy \cup {"saving"}
    /\ UNCHANGED <<panel, rows, start, filled, opened, label, removingPart>>

\* The row is rewritten in whatever window is shown by now.
ElementSaved(c) ==
    /\ Ends(c, "setElement")
    /\ rows' = [i \in DOMAIN rows |-> IF i = arg[c].row THEN arg[c].to ELSE rows[i]]
    /\ opened' = None
    /\ busy' = busy \ {"saving"}
    /\ UNCHANGED <<panel, start, filled, label, removingPart>>

\* handleAppend, and handleAdd of sets and sorted sets.
AddPart(c, m, score) ==
    /\ type \in Windowed \cup {"set"}
    /\ m \in IF type = "list" THEN Texts ELSE Parts
    /\ rows # None
    /\ "adding" \notin busy
    /\ type = "list" => Len(stored) < MaxLen /\ Pending("add") = {}
    /\ Ask(c, "add", [values |-> <<m>>, score |-> score, start |-> start])
    /\ busy' = busy \cup {"adding"}
    /\ UNCHANGED <<panel, rows, start, filled, opened, label, removingPart>>

\* The window is loaded again, a set from its first page.
PartAdded(c) ==
    /\ GoOn(c, "add", "getValue",
            LoadArg(IF type = "set" THEN 0 ELSE arg[c].start, {"loading", "adding"}))
    /\ busy' = busy \cup {"loading"}
    /\ UNCHANGED <<panel, rows, start, filled, opened, label, removingPart>>

RemovePart(c, m) ==
    /\ type \in {"set", "zset"}
    /\ rows # None /\ m \in rows
    /\ m # removingPart
    /\ Ask(c, "removePart", [part |-> m])
    /\ removingPart' = m
    /\ UNCHANGED <<panel, rows, start, filled, opened, label, busy>>

PartRemoved(c) ==
    /\ Ends(c, "removePart")
    /\ rows' = rows \ {arg[c].part}
    /\ removingPart' = None
    /\ UNCHANGED <<panel, start, filled, opened, label, busy>>

\* Set TTL takes a positive number and truncates it: 0 is a fraction of a second.
ChangeTTL(c, o, t) ==
    /\ panel
    /\ "ttlSaving" \notin busy
    /\ Ask(c, o, [ttl |-> t])
    /\ busy' = busy \cup {"ttlSaving"}
    /\ UNCHANGED <<panel, rows, start, filled, opened, label, removingPart>>

TTLChanged(c) ==
    /\ \E o \in {"setTTL", "persist"} : GoOn(c, o, "getTTL", [last |-> {"ttlSaving"}])
    /\ UNCHANGED screen

\* Mutant of TTLRefreshed: the label keeps the TTL it has.
TTLRefreshedNot(c) ==
    /\ Ends(c, "getTTL")
    /\ label' = IF label = None THEN ans[c].ttl ELSE label
    /\ busy' = busy \ arg[c].last
    /\ UNCHANGED <<panel, rows, start, filled, opened, removingPart>>

TTLRefreshed(c) ==
    /\ Ends(c, "getTTL")
    /\ label' = ans[c].ttl
    /\ busy' = busy \ arg[c].last
    /\ UNCHANGED <<panel, rows, start, filled, opened, removingPart>>

\* The catch and finally blocks.
ValueFails(c) ==
    /\ \E o \in {"getValue", "setValue", "setElement", "add", "removePart", "getTTL", "setTTL",
                 "persist"} : op[c] = o /\ pc[c] # "idle" /\ Return(c)
    /\ vague' = TRUE
    /\ busy' = busy \ CASE op[c] \in {"getValue", "getTTL"} -> arg[c].last
                        [] op[c] \in {"setValue", "setElement"} -> {"saving"}
                        [] op[c] = "add" -> {"adding"}
                        [] op[c] = "removePart" -> {}
                        [] OTHER -> {"ttlSaving"}
    /\ removingPart' = IF op[c] = "removePart" THEN None ELSE removingPart
    /\ rows' = IF rows # None \/ op[c] # "getValue" THEN rows
               ELSE CASE type = "string" -> <<0>>
                      [] type \in {"set", "zset"} -> {}
                      [] OTHER -> Nothing
    /\ UNCHANGED <<stored, type, expiry, panel, start, filled, opened, label, kept, dropped>>

ValuesNext ==
    \/ Expires
    \/ \E v \in ValuesOf(type) \cup IF type = "string" THEN {} ELSE {Nothing} : EditText(v)
    \/ \E i \in 1..WindowSize, d \in Texts : StartElement(i, d)
    \/ CancelElement
    \/ \E c \in Calls :
          \/ \E d \in Calls : ShowPanel(c, d)
          \/ GetRedisString(c) \/ GetRedisHash(c) \/ GetRedisList(c) \/ GetRedisSet(c)
          \/ GetRedisSortedSet(c) \/ SetRedisString(c) \/ SetRedisHash(c) \/ PushRedisList(c)
          \/ SetRedisListElement(c) \/ AddRedisSetMembers(c) \/ RemoveRedisSetMembers(c)
          \/ AddRedisSortedSetMembers(c) \/ RemoveRedisSortedSetMembers(c)
          \/ GetRedisTTL(c) \/ SetRedisTTL(c) \/ PersistRedisKey(c)
          \/ \E s \in 0..MaxLen : TurnWindow(c, s)
          \/ ValueLoaded(c) \/ SaveText(c) \/ TextSaved(c) \/ SaveElement(c) \/ ElementSaved(c)
          \/ \E m \in Parts \cup Texts, s \in Texts : (type # "zset" => s = 1) /\ AddPart(c, m, s)
          \/ PartAdded(c) \/ PartRemoved(c)
          \/ \E m \in Parts : RemovePart(c, m)
          \/ \E t \in 0..MaxTTL : ChangeTTL(c, "setTTL", t)
          \/ ChangeTTL(c, "persist", 0) \/ TTLChanged(c) \/ TTLRefreshed(c)
          \/ ValueFails(c)

-----------------------------------------------------------------------------
(***************************************************************************)
(* Properties.                                                             *)
(***************************************************************************)

\* Whatever window arrives between Edit and Save, LSET goes to the index of
\* the row the user clicked Edit on.
ElementEditsHitTheirRow ==
    \A c \in Pending("setElement") : arg[c].index = arg[c].at

\* With nothing under way, and unless the key expired or requests crossed or
\* failed, the panel shows what the server has: the window of a list as it
\* is, only members that exist, all of them once a set is read to its end,
\* and the TTL. The TTL is not read again after a write to the value: once SET
\* or the removal of the last part has dropped it, the label is out of date
\* and the key does not expire, until the TTL is read or set.
PanelShowsValue ==
    panel /\ rows # None /\ Out = {} /\ ~vague =>
        /\ type = "list" => rows = GetList(stored, start, start + WindowSize - 1)
        /\ type \in {"set", "zset"} => rows \subseteq DOMAIN stored
        /\ type = "set" /\ start = 0 => DOMAIN stored \subseteq rows
        /\ IF dropped THEN expiry = 0 ELSE label = expiry

\* Saving the text of a string leaves the key the TTL that the panel shows, as
\* SetString's comment has it: "It does not touch any existing TTL on key".
SavedStringKeepsTTL ==
    panel /\ type = "string" /\ rows # None /\ Out = {} /\ ~vague => label = expiry

\* No element, field or member goes away but those the user removed: HSET,
\* SADD, ZADD, RPUSH and LSET keep all the others.
PartsSurvive == vague \/ kept \subseteq DOMAIN stored

ValueFlagsAccountedFor ==
    /\ \A f \in {"loading", "adding", "ttlSaving"} \cap busy :
          \E c \in Out : \/ op[c] \in {"getValue", "getTTL"}
                         \/ op[c] = "add" /\ f = "adding"
                         \/ op[c] \in OnTTL /\ f = "ttlSaving"
    /\ "saving" \in busy => Pending("setValue") \cup Pending("setElement") # {}
    /\ removingPart # None => Pending("removePart") # {}
=============================================================================
