------------------------- MODULE EditableGridProofs -------------------------
(***************************************************************************)
(* The editable grid over a table, for any tables, keys and values and for *)
(* any number of calls under way: each write hits the rows the user chose, *)
(* and the grid's own copy of the rows stays true.                         *)
(***************************************************************************)
EXTENDS EditableGrid, TLAPS, FiniteSetTheorems, SequenceTheorems

-----------------------------------------------------------------------------
\* The places of each call, whatever has crossed.
Typed ==
    /\ GridTypeOK
    /\ \A m \in ticked : m.at \in DOMAIN rows
    /\ \A c \in Calls : stage[c] \notin {"inserted", "served"} => ok[c] = {}
    /\ \A c \in Outstanding :
          /\ tab[c] \in Tables
          /\ picks[c] \subseteq DOMAIN from[c]
          /\ task[c] \in {"insert", "reload"} => picks[c] = {}
          /\ task[c] = "update" => val[c] \in Vals
          /\ task[c] \in {"update", "delete"} => ok[c] \subseteq picks[c]
          /\ task[c] = "insert" => ok[c] = {} \/ \E k \in Keys : ok[c] = {k}
          /\ stage[c] = "inserted" => task[c] = "insert" /\ ok[c] # {}

\* The calls that are out do not disturb each other.
Apart ==
    \A c, d \in Outstanding : c # d => ~Disturbs(task[c], picks[c], d)

\* Whatever the user has marked is still the row at its index.
Marked ==
    /\ OnTheirRows(ticked \cup rowErrs \cup ({edit, menu} \ {None}))
    /\ edit = None \/ menu = None
    /\ Deleting => edit = None /\ menu = None
    /\ ~crashed

\* What each call is about, in the rows of now.
Aimed ==
    \A c \in Outstanding :
        /\ task[c] # "reload" => tab[c] = bound
        /\ task[c] = "update" => \E i \in DOMAIN rows :
              picks[c] = {i} /\ meant[c] = {Id(rows[i])} /\ Id(from[c][i]) = Id(rows[i])
        /\ task[c] = "delete" =>
              from[c] = rows /\ meant[c] = {Id(rows[i]) : i \in picks[c]}
        /\ task[c] = "reload" /\ stage[c] = "served" => from[c] = Listing(tab[c])
        /\ task[c] = "insert" /\ stage[c] = "served" /\ ok[c] # {} => \E x \in Row :
              from[c] = <<x>> /\ ok[c] = {x.key} /\ x.of = bound /\ Shows(x)

\* Call c, of kind o, has changed row i, or key i, on the server.
Wrote(c, o, i) == c \in Outstanding /\ task[c] = o /\ i \in ok[c]
There(i) == table[bound][rows[i].key]

\* The rows are those of the table, but for the writes that have not been
\* answered and the insertions that were answered with an error: each row
\* once, with its value.
Copied ==
    /\ \A i \in DOMAIN rows : rows[i].of = bound
    /\ \A i, j \in DOMAIN rows : rows[i].key = rows[j].key => i = j
    /\ \A k \in Present(bound) :
          \/ \E i \in DOMAIN rows : rows[i].key = k
          \/ \E c \in Calls : Wrote(c, "insert", k)
          \/ k \in missed
    /\ \A i \in DOMAIN rows :
          \/ There(i) # None /\ Shows(rows[i])
          \/ \E c \in Calls : Wrote(c, "update", i) \/ Wrote(c, "delete", i)
    /\ \A c \in Calls, i \in DOMAIN rows :
          /\ Wrote(c, "update", i) => There(i) = val[c]
          /\ Wrote(c, "delete", i) => There(i) = None
    /\ \A c \in Calls, k \in Keys : Wrote(c, "insert", k) =>
          /\ table[bound][k] # None /\ val[c] \in {table[bound][k], None}
          /\ \A i \in DOMAIN rows : rows[i].key # k
          /\ \A d \in Calls : Wrote(d, "insert", k) => d = c

\* What an insertion left that was answered with an error.
Unseen ==
    \A k \in missed :
        /\ table[bound][k] # None
        /\ \A i \in DOMAIN rows : rows[i].key # k
        /\ \A c \in Calls : ~Wrote(c, "insert", k)

GridInv == Typed /\ (~crossed => Apart /\ Marked /\ Aimed /\ Copied /\ Unseen)

-----------------------------------------------------------------------------
(***************************************************************************)
(* Lists.                                                                  *)
(***************************************************************************)
Below(S, k) == {j \in S : j < k}

\* Ascending lists each number of S once, at its rank.
LEMMA AscendingFacts ==
  ASSUME NEW S \in SUBSET Nat, IsFiniteSet(S)
  PROVE  /\ Cardinality(S) \in Nat
         /\ Ascending(S) \in [1..Cardinality(S) -> S]
         /\ \A i \in 1..Cardinality(S) : Cardinality(Below(S, Ascending(S)[i])) = i - 1
         /\ \A k \in S : /\ Cardinality(Below(S, k)) + 1 \in 1..Cardinality(S)
                         /\ Ascending(S)[Cardinality(Below(S, k)) + 1] = k
<1> DEFINE N == Cardinality(S)
           rank == [k \in S |-> Cardinality(Below(S, k))]
<1>1. N \in Nat
  BY FS_CardinalityType
<1>2. ASSUME NEW k \in S
      PROVE  IsFiniteSet(Below(S, k)) /\ rank[k] \in Nat
  <2>1. Below(S, k) \in SUBSET S
    BY DEF Below
  <2> QED
    BY <2>1, FS_Subset, FS_CardinalityType
<1>3. ASSUME NEW k \in S
      PROVE  rank[k] < N
  <2>1. Below(S, k) \in SUBSET S /\ k \notin Below(S, k)
    BY DEF Below
  <2>2. rank[k] <= N /\ rank[k] # N
    BY <2>1, FS_Subset
  <2> QED
    BY <1>1, <1>2, <2>2
<1>4. ASSUME NEW j \in S, NEW k \in S, j < k
      PROVE  rank[j] < rank[k]
  <2>0. \A i \in S : i \in Nat
    OBVIOUS
  <2>1. Below(S, j) \in SUBSET Below(S, k) /\ j \in Below(S, k) /\ j \notin Below(S, j)
    <3>1. \A i \in S : i < j => i < k
      BY <1>4, <2>0
    <3>2. ~(j < j)
      BY <2>0
    <3> QED
      BY <1>4, <3>1, <3>2 DEF Below
  <2>2. rank[j] <= rank[k] /\ rank[j] # rank[k]
    BY <1>2, <2>1, FS_Subset
  <2> QED
    BY <1>2, <2>2
<1>5. rank \in [S -> 0..(N - 1)]
  BY <1>1, <1>2, <1>3
<1>6. \A j, k \in S : rank[j] = rank[k] => j = k
  <2> SUFFICES ASSUME NEW j \in S, NEW k \in S, j # k
               PROVE  rank[j] # rank[k]
    OBVIOUS
  <2>1. j < k \/ k < j
    OBVIOUS
  <2>2. rank[j] \in Nat /\ rank[k] \in Nat
    BY <1>2
  <2> HIDE DEF rank
  <2> QED
    BY <1>4, <2>1, <2>2
<1>7. IsFiniteSet(0..(N - 1)) /\ Cardinality(0..(N - 1)) = N
  <2> HIDE DEF N
  <2>1. N - 1 \in Int /\ 0 \in Int
    BY <1>1
  <2>2. Cardinality(0..(N - 1)) = IF 0 > N - 1 THEN 0 ELSE (N - 1) - 0 + 1
    BY <2>1, FS_Interval
  <2> QED
    BY <1>1, <2>1, <2>2, FS_Interval
<1> HIDE DEF rank, N
<1>8. rank \in Injection(S, 0..(N - 1))
  BY <1>5, <1>6 DEF Injection, IsInjective
<1>9. \A r \in 0..(N - 1) : \E k \in S : rank[k] = r
  <2>1. rank \in Surjection(S, 0..(N - 1))
    BY <1>7, <1>8, FS_Injection DEF N
  <2> QED
    BY <2>1 DEF Surjection
<1>10. ASSUME NEW i \in 1..N
       PROVE  Ascending(S)[i] \in S /\ rank[Ascending(S)[i]] = i - 1
  <2>1. i - 1 \in 0..(N - 1)
    BY <1>1
  <2>2. \E k \in S : Cardinality({j \in S : j < k}) = i - 1
    BY <1>9, <2>1 DEF rank, Below
  <2>3. Ascending(S)[i] = CHOOSE k \in S : Cardinality({j \in S : j < k}) = i - 1
    BY DEF Ascending, N
  <2> QED
    BY <2>2, <2>3 DEF rank, Below
<1>11. Ascending(S) \in [1..N -> S]
  <2> DEFINE at(i) == CHOOSE k \in S : Cardinality({j \in S : j < k}) = i - 1
  <2>1. Ascending(S) = [i \in 1..N |-> at(i)]
    BY DEF Ascending, N
  <2> HIDE DEF at
  <2>2. \A i \in 1..N : at(i) \in S
    BY <1>10, <2>1
  <2> QED
    BY <2>1, <2>2
<1>12. ASSUME NEW k \in S
       PROVE  rank[k] + 1 \in 1..N /\ Ascending(S)[rank[k] + 1] = k
  <2>1. rank[k] + 1 \in 1..N /\ (rank[k] + 1) - 1 = rank[k]
    BY <1>1, <1>5
  <2>2. Ascending(S)[rank[k] + 1] \in S /\ rank[Ascending(S)[rank[k] + 1]] = rank[k]
    BY <1>10, <2>1
  <2> QED
    BY <1>6, <2>1, <2>2
<1> QED
  BY <1>1, <1>10, <1>11, <1>12 DEF rank, N

\* The rows of table t, each once.
LEMMA ListingFacts ==
  ASSUME table \in [Tables -> [Keys -> Vals \cup {None}]], NEW t \in Tables
  PROVE  /\ Listing(t) \in Seq(Row)
         /\ \A i \in DOMAIN Listing(t) :
               Listing(t)[i].key \in Present(t) /\ Listing(t)[i] = RowOf(t, Listing(t)[i].key)
         /\ \A i, j \in DOMAIN Listing(t) : Listing(t)[i].key = Listing(t)[j].key => i = j
         /\ \A k \in Present(t) : \E i \in DOMAIN Listing(t) : Listing(t)[i].key = k
<1> DEFINE P == Present(t)
           keys == Ascending(P)
           N == Cardinality(P)
<1>1. P \in SUBSET Nat /\ IsFiniteSet(P)
  BY GridKeysAssumption, FS_Subset DEF Present
<1>2. /\ N \in Nat
      /\ keys \in [1..N -> P]
      /\ \A i \in 1..N : Cardinality(Below(P, keys[i])) = i - 1
      /\ \A k \in P : /\ Cardinality(Below(P, k)) + 1 \in 1..N
                      /\ keys[Cardinality(Below(P, k)) + 1] = k
  <2> HIDE DEF P
  <2> QED
    BY <1>1, AscendingFacts
<1>3. ASSUME NEW k \in P
      PROVE  RowOf(t, k) \in Row /\ RowOf(t, k).key = k
  BY GridValsAssumption DEF RowOf, Row, Present
<1>4. Listing(t) = [i \in 1..N |-> RowOf(t, keys[i])]
  BY <1>2 DEF Listing
<1> HIDE DEF P, N, keys
<1>5. \A i \in 1..N : keys[i] \in P
  BY <1>2
<1>6. Listing(t) \in [1..N -> Row]
  BY <1>3, <1>4, <1>5
<1>7. DOMAIN Listing(t) = 1..N /\ \A i \in 1..N : Listing(t)[i] = RowOf(t, keys[i]) /\ Listing(t)[i].key = keys[i]
  BY <1>3, <1>4, <1>5
<1>8. \A i, j \in 1..N : keys[i] = keys[j] => i = j
  BY <1>2
<1>9. Listing(t) \in Seq(Row)
  BY <1>2, <1>6
<1>10. \A k \in P : \E i \in DOMAIN Listing(t) : Listing(t)[i].key = k
  BY <1>2, <1>7
<1>11. \A i \in DOMAIN Listing(t) :
          Listing(t)[i].key \in P /\ Listing(t)[i] = RowOf(t, Listing(t)[i].key)
  BY <1>5, <1>7
<1>12. \A i, j \in DOMAIN Listing(t) : Listing(t)[i].key = Listing(t)[j].key => i = j
  BY <1>7, <1>8
<1> QED
  BY <1>9, <1>10, <1>11, <1>12 DEF P

\* What is left of rows s without those at the indices `gone`.
LEMMA WithoutFacts ==
  ASSUME NEW s \in Seq(Row), NEW gone \in SUBSET DOMAIN s
  PROVE  /\ Without(s, gone) \in Seq(Row)
         /\ \E left : /\ \A i \in DOMAIN Without(s, gone) :
                            left[i] \in DOMAIN s \ gone /\ Without(s, gone)[i] = s[left[i]]
                      /\ \A i, j \in DOMAIN Without(s, gone) : left[i] = left[j] => i = j
         /\ \A i \in DOMAIN s \ gone :
               /\ NewIndex(i, gone) \in DOMAIN Without(s, gone)
               /\ Without(s, gone)[NewIndex(i, gone)] = s[i]
<1> DEFINE S == DOMAIN s \ gone
           left == Ascending(S)
           N == Cardinality(S)
<1>1. Len(s) \in Nat /\ DOMAIN s = 1..Len(s) /\ \A i \in DOMAIN s : s[i] \in Row
  BY LenProperties, ElementOfSeq
<1>2. IsFiniteSet(DOMAIN s) /\ IsFiniteSet(S) /\ S \in SUBSET Nat
  <2>1. IsFiniteSet(DOMAIN s)
    BY <1>1, FS_Interval
  <2>2. S \in SUBSET DOMAIN s
    OBVIOUS
  <2>3. IsFiniteSet(S)
    BY <2>1, <2>2, FS_Subset
  <2> QED
    BY <1>1, <2>1, <2>3
<1>3. /\ N \in Nat
      /\ left \in [1..N -> S]
      /\ \A i \in 1..N : Cardinality(Below(S, left[i])) = i - 1
      /\ \A k \in S : /\ Cardinality(Below(S, k)) + 1 \in 1..N
                      /\ left[Cardinality(Below(S, k)) + 1] = k
  <2> HIDE DEF S
  <2> QED
    BY <1>2, AscendingFacts
<1>4. Without(s, gone) = [i \in 1..N |-> s[left[i]]]
  BY <1>3 DEF Without
<1>5. ASSUME NEW i \in S
      PROVE  NewIndex(i, gone) = Cardinality(Below(S, i)) + 1
  <2>1. i \in Nat /\ i >= 1 /\ i <= Len(s)
    BY <1>1
  <2>2. IsFiniteSet(1..(i - 1)) /\ Cardinality(1..(i - 1)) = i - 1
    <3>1. i - 1 \in Int /\ 1 \in Int
      BY <2>1
    <3>2. Cardinality(1..(i - 1)) = IF 1 > i - 1 THEN 0 ELSE (i - 1) - 1 + 1
      BY <3>1, FS_Interval
    <3> QED
      BY <2>1, <3>1, <3>2, FS_Interval
  <2>3. Below(gone, i) \in SUBSET (1..(i - 1)) /\ Below(S, i) = (1..(i - 1)) \ Below(gone, i)
    BY <1>1, <2>1 DEF Below
  <2>4. Cardinality(Below(S, i)) = (i - 1) - Cardinality((1..(i - 1)) \cap Below(gone, i))
    BY <2>2, <2>3, FS_Difference
  <2>5. (1..(i - 1)) \cap Below(gone, i) = Below(gone, i)
    BY <2>3
  <2>6. Cardinality(Below(gone, i)) \in Nat
    BY <2>2, <2>3, FS_Subset, FS_CardinalityType
  <2>7. NewIndex(i, gone) = i - Cardinality(Below(gone, i))
    BY DEF NewIndex, Below
  <2>8. Cardinality(Below(S, i)) = (i - 1) - Cardinality(Below(gone, i))
    BY <2>4, <2>5
  <2> HIDE DEF S
  <2> QED
    BY <2>1, <2>6, <2>7, <2>8
<1> HIDE DEF S, N, left
<1>6. \A i \in 1..N : left[i] \in S
  BY <1>3
<1>7. Without(s, gone) \in [1..N -> Row]
  BY <1>1, <1>4, <1>6 DEF S
<1>8. Without(s, gone) \in Seq(Row)
  BY <1>3, <1>7
<1>9. DOMAIN Without(s, gone) = 1..N
  BY <1>4
<1>10. \A i, j \in 1..N : left[i] = left[j] => i = j
  BY <1>3
<1>11. /\ \A i \in DOMAIN Without(s, gone) :
              left[i] \in DOMAIN s \ gone /\ Without(s, gone)[i] = s[left[i]]
       /\ \A i, j \in DOMAIN Without(s, gone) : left[i] = left[j] => i = j
  BY <1>4, <1>6, <1>9, <1>10 DEF S
<1>12. \A i \in DOMAIN s \ gone :
          /\ NewIndex(i, gone) \in DOMAIN Without(s, gone)
          /\ Without(s, gone)[NewIndex(i, gone)] = s[i]
  <2> SUFFICES ASSUME NEW i \in S
               PROVE  /\ NewIndex(i, gone) \in DOMAIN Without(s, gone)
                      /\ Without(s, gone)[NewIndex(i, gone)] = s[i]
    BY DEF S
  <2>1. NewIndex(i, gone) \in 1..N /\ left[NewIndex(i, gone)] = i
    BY <1>3, <1>5
  <2> QED
    BY <1>4, <1>9, <2>1
<1> QED
  BY <1>8, <1>11, <1>12

-----------------------------------------------------------------------------
(***************************************************************************)
(* A call is sent, served and answered; the others stay as they are.       *)
(***************************************************************************)
Same(d) ==
    /\ stage'[d] = stage[d] /\ task'[d] = task[d] /\ tab'[d] = tab[d] /\ from'[d] = from[d]
    /\ picks'[d] = picks[d] /\ val'[d] = val[d] /\ ok'[d] = ok[d] /\ meant'[d] = meant[d]

\* What a click asks for.
Asks(c, o, t, at, v, chosen) ==
    /\ SendTask(c, o, t, at, v, chosen)
    /\ o \in {"update", "insert", "delete", "reload"} /\ t \in Tables
    /\ o # "reload" => t = bound
    /\ at \subseteq DOMAIN rows /\ chosen \subseteq Ids /\ v \in Vals \cup {None}
    /\ o = "update" => v \in Vals
    /\ ticked' = ticked
    /\ o = "update" =>
          /\ edit # None /\ at = {edit.at} /\ edit.at \in DOMAIN rows /\ chosen = {edit.id}
          /\ edit' = None /\ menu' = menu
    /\ o \in {"insert", "reload"} => at = {} /\ UNCHANGED <<edit, menu>>
    /\ o = "delete" => edit' = edit
    /\ o = "delete" =>
          \/ /\ RowClickable /\ menu' = menu
             /\ at = Places(Deletable) /\ chosen = {m.id : m \in Deletable}
          \/ /\ menu # None /\ at = {menu.at} /\ chosen = {menu.id} /\ menu' = None

LEMMA ClickAsks ==
  ASSUME Typed, NEW c \in Calls,
         \/ DeleteSelected(c) \/ DeleteMenuRow(c)
         \/ \E v \in Vals \ Early : CommitEdit(c, v)
         \/ \E v \in (Vals \ Early) \cup {None} : SaveNewRow(c, v)
         \/ \E t \in Tables : Reload(c, t)
  PROVE  \E o, t, at, v, chosen : Asks(c, o, t, at, v, chosen)
<1> USE DEF Typed, GridTypeOK
<1>1. bound \in Tables /\ \A m \in Mark : m.id \in Ids
  BY DEF Mark
<1>2. ASSUME NEW v \in Vals, CommitEdit(c, v)
      PROVE  Asks(c, "update", bound, {edit.at}, v, {edit.id})
  BY <1>1, <1>2 DEF CommitEdit, Asks
<1>3. ASSUME NEW v \in Vals \cup {None}, SaveNewRow(c, v)
      PROVE  Asks(c, "insert", bound, {}, v, {})
  BY <1>1, <1>3 DEF SaveNewRow, Asks
<1>4. ASSUME DeleteSelected(c)
      PROVE  Asks(c, "delete", bound, Places(Deletable), None, {m.id : m \in Deletable})
  <2>1. Places(Deletable) \subseteq DOMAIN rows /\ {m.id : m \in Deletable} \subseteq Ids
    BY <1>1 DEF Places, Deletable
  <2> QED
    BY <1>1, <1>4, <2>1 DEF DeleteSelected, Asks
<1>5. ASSUME DeleteMenuRow(c)
      PROVE  Asks(c, "delete", bound, {menu.at}, None, {menu.id})
  BY <1>1, <1>5 DEF DeleteMenuRow, Asks
<1>6. ASSUME NEW t \in Tables, Reload(c, t)
      PROVE  Asks(c, "reload", t, {}, None, {})
  BY <1>6 DEF Reload, Asks
<1> QED
  BY <1>2, <1>3, <1>4, <1>5, <1>6

LEMMA Sends ==
  ASSUME Typed, NEW c \in Calls, NEW o, NEW t, NEW at, NEW v, NEW chosen,
         SendTask(c, o, t, at, v, chosen)
  PROVE  /\ c \notin Outstanding /\ Outstanding' = Outstanding \cup {c} /\ ok[c] = {}
         /\ stage'[c] = "asked" /\ task'[c] = o /\ tab'[c] = t /\ from'[c] = rows
         /\ picks'[c] = at /\ val'[c] = v /\ ok'[c] = {} /\ meant'[c] = chosen
         /\ \A d \in Calls : d # c => Same(d)
         /\ UNCHANGED <<table, bound, rows, rowErrs, missed, crashed>>
         /\ ~crossed' => ~crossed /\ \A d \in Outstanding : ~Disturbs(o, at, d)
<1>1. stage[c] = "idle" /\ stage'[c] = "asked" /\ \A d \in Calls : d # c => stage'[d] = stage[d]
  BY DEF SendTask, Typed, GridTypeOK
<1>2. c \notin Outstanding /\ Outstanding' = Outstanding \cup {c}
  BY <1>1 DEF Outstanding
<1>3. ok' = ok /\ ok[c] = {} /\ UNCHANGED <<table, bound, rows, rowErrs, missed, crashed>>
  BY <1>1 DEF SendTask, Typed
<1>4. task'[c] = o /\ tab'[c] = t /\ from'[c] = rows /\ picks'[c] = at
  BY DEF SendTask, Typed, GridTypeOK
<1>5. val'[c] = v /\ meant'[c] = chosen
  BY DEF SendTask, Typed, GridTypeOK
<1>6. \A d \in Calls : d # c => Same(d)
  BY <1>1, <1>3 DEF SendTask, Typed, GridTypeOK, Same
<1>7. ~crossed' => ~crossed /\ \A d \in Outstanding : ~Disturbs(o, at, d)
  BY DEF SendTask
<1> QED
  BY <1>1, <1>2, <1>3, <1>4, <1>5, <1>6, <1>7

LEMMA Serves ==
  ASSUME Typed, NEW c \in Calls, NEW o, Served(c, o)
  PROVE  /\ c \in Outstanding /\ task[c] = o /\ stage[c] = "asked" /\ ok[c] = {}
         /\ Outstanding' = Outstanding
         /\ stage'[c] = "served" /\ \A d \in Calls : d # c => stage'[d] = stage[d]
         /\ UNCHANGED <<task, tab, picks, val, meant, bound, rows, edit, menu, ticked, rowErrs>>
         /\ UNCHANGED <<missed, crashed, crossed>>
  BY DEF Served, gridVars, taskVars, Typed, GridTypeOK, Outstanding

LEMMA Inserts ==
  ASSUME Typed, NEW c \in Calls, InsertTableRow(c)
  PROVE  /\ c \in Outstanding /\ task[c] = "insert" /\ stage[c] = "asked" /\ ok[c] = {}
         /\ Outstanding' = Outstanding
         /\ stage' \in [Calls -> {"idle", "asked", "inserted", "served", "done"}]
         /\ stage'[c] = "inserted" /\ \A d \in Calls : d # c => stage'[d] = stage[d]
         /\ UNCHANGED <<task, tab, picks, val, meant, bound, rows, edit, menu, ticked, rowErrs>>
         /\ UNCHANGED <<from, missed, crashed, crossed>>
         /\ \E k \in Keys, v \in Vals : /\ table[tab[c]][k] = None /\ val[c] \in {v, None}
                                        /\ table' = [table EXCEPT ![tab[c]][k] = v]
                                        /\ ok' = [ok EXCEPT ![c] = {k}]
<1>1. PICK k \in Keys, v \in Vals :
         /\ task[c] = "insert" /\ stage[c] = "asked" /\ table[tab[c]][k] = None
         /\ val[c] \in {v, None}
         /\ stage' = [stage EXCEPT ![c] = "inserted"]
         /\ table' = [table EXCEPT ![tab[c]][k] = v]
         /\ ok' = [ok EXCEPT ![c] = {k}]
         /\ UNCHANGED <<gridVars, taskVars, from, missed, crashed, crossed>>
  BY DEF InsertTableRow
<1> QED
  BY <1>1 DEF gridVars, taskVars, Typed, GridTypeOK, Outstanding

\* The three ways an INSERT's answer comes about.
LEMMA Resolves ==
  ASSUME Typed, NEW c \in Calls, RowReadBack(c) \/ RowSubmitted(c) \/ RowUnread(c)
  PROVE  /\ c \in Outstanding /\ task[c] = "insert" /\ stage[c] = "inserted"
         /\ Outstanding' = Outstanding
         /\ stage' \in [Calls -> {"idle", "asked", "inserted", "served", "done"}]
         /\ stage'[c] = "served" /\ \A d \in Calls : d # c => stage'[d] = stage[d]
         /\ UNCHANGED <<task, tab, picks, val, meant, bound, rows, edit, menu, ticked, rowErrs>>
         /\ UNCHANGED <<table, crashed, crossed>>
         /\ from' \in [Calls -> Seq(Row)] /\ \A d \in Calls : d # c => from'[d] = from[d]
         /\ \E k \in Keys :
               /\ ok[c] = {k}
               /\ \/ /\ UNCHANGED <<ok, missed>>
                     /\ \E x \in Row : /\ from'[c] = <<x>> /\ x.key = k /\ x.of = tab[c]
                                       /\ \/ x.value = table[tab[c]][k]
                                          \/ ~x.known /\ x.value = val[c]
                  \/ ok' = [ok EXCEPT ![c] = {}] /\ missed' = missed \cup {k}
<1>1. PICK answer : Resolved(c, answer)
  BY DEF RowReadBack, RowSubmitted, RowUnread
<1>2. /\ stage[c] = "inserted" /\ stage' = [stage EXCEPT ![c] = "served"]
      /\ UNCHANGED <<table, gridVars, taskVars, crashed, crossed>>
  BY <1>1 DEF Resolved
<1>3. c \in Outstanding /\ task[c] = "insert" /\ tab[c] \in Tables /\ val[c] \in Vals \cup {None}
  BY <1>2 DEF Typed, GridTypeOK, Outstanding
<1>4. PICK k \in Keys : ok[c] = {k}
  BY <1>2, <1>3 DEF Typed
<1>5. ASSUME NEW x \in Row, Resolved(c, <<x>>)
      PROVE  from' \in [Calls -> Seq(Row)] /\ from'[c] = <<x>> /\ \A d \in Calls : d # c => from'[d] = from[d]
  <2>1. from' = [from EXCEPT ![c] = <<x>>] /\ <<x>> \in Seq(Row)
    BY <1>5 DEF Resolved
  <2> QED
    BY <2>1 DEF Typed, GridTypeOK
<1>6. CASE RowReadBack(c)
  <2>1. table[tab[c]][k] # None /\ Resolved(c, <<RowOf(tab[c], k)>>) /\ UNCHANGED <<ok, missed>>
    BY <1>4, <1>6 DEF RowReadBack
  <2>2. table[tab[c]][k] \in Vals
    BY <1>3, <2>1 DEF Typed, GridTypeOK
  <2>3. RowOf(tab[c], k) \in Row /\ RowOf(tab[c], k).key = k /\ RowOf(tab[c], k).of = tab[c]
        /\ RowOf(tab[c], k).value = table[tab[c]][k]
    BY <1>3, <2>2 DEF RowOf, Row
  <2> DEFINE x == RowOf(tab[c], k)
  <2>4. x \in Row /\ Resolved(c, <<x>>) /\ x.key = k /\ x.of = tab[c] /\ x.value = table[tab[c]][k]
    BY <2>1, <2>3
  <2> HIDE DEF x
  <2> QED
    BY <1>2, <1>3, <1>4, <1>5, <2>1, <2>4 DEF gridVars, taskVars, Typed, GridTypeOK, Outstanding
<1>7. CASE RowSubmitted(c)
  <2> DEFINE x == [of |-> tab[c], key |-> k, value |-> val[c], known |-> FALSE]
  <2>1. Resolved(c, <<x>>) /\ UNCHANGED <<ok, missed>>
    BY <1>4, <1>7 DEF RowSubmitted
  <2>2. x \in Row /\ x.key = k /\ x.of = tab[c] /\ x.value = val[c] /\ ~x.known
    BY <1>3 DEF Row
  <2> HIDE DEF x
  <2> QED
    BY <1>2, <1>3, <1>4, <1>5, <2>1, <2>2 DEF gridVars, taskVars, Typed, GridTypeOK, Outstanding
<1>8. CASE RowUnread(c)
  <2>1. from' = [from EXCEPT ![c] = <<>>] /\ ok' = [ok EXCEPT ![c] = {}] /\ missed' = missed \cup {k}
    BY <1>4, <1>8 DEF RowUnread, Resolved
  <2>2. from' \in [Calls -> Seq(Row)] /\ \A d \in Calls : d # c => from'[d] = from[d]
    <3>1. <<>> \in Seq(Row)
      BY EmptySeq
    <3> QED
      BY <2>1, <3>1 DEF Typed, GridTypeOK
  <2> QED
    BY <1>2, <1>3, <1>4, <2>1, <2>2 DEF gridVars, taskVars, Typed, GridTypeOK, Outstanding
<1> QED
  BY <1>6, <1>7, <1>8

LEMMA Answers ==
  ASSUME Typed, NEW c \in Calls, NEW o, TaskAnswered(c, o)
  PROVE  /\ c \in Outstanding /\ task[c] = o /\ stage[c] = "served"
         /\ Outstanding' = Outstanding \ {c}
         /\ stage'[c] = "done" /\ ok'[c] = {}
         /\ \A d \in Calls : d # c => Same(d)
         /\ UNCHANGED <<table, crossed>>
  BY DEF TaskAnswered, Typed, GridTypeOK, Outstanding, Same

-----------------------------------------------------------------------------
\* Types.
LEMMA RowFacts ==
  ASSUME Typed
  PROVE  /\ Len(rows) \in Nat /\ DOMAIN rows = 1..Len(rows)
         /\ \A i \in DOMAIN rows : rows[i] \in Row /\ At(i) \in Mark
<1>1. Len(rows) \in Nat /\ DOMAIN rows = 1..Len(rows) /\ \A i \in DOMAIN rows : rows[i] \in Row
  BY LenProperties, ElementOfSeq DEF Typed, GridTypeOK
<1> QED
  BY <1>1 DEF At, Mark, Id, Ids, Row

LEMMA MarksTyped ==
  ASSUME Typed, UNCHANGED <<table, bound, rows, rowErrs, taskVars, stage, from, ok, missed>>,
         UNCHANGED crashed,
         edit' \in Mark \cup {None}, menu' \in Mark \cup {None}, crossed' \in BOOLEAN,
         \A m \in ticked' : m \in ticked \/ \E i \in DOMAIN rows : m = At(i)
  PROVE  Typed'
<1>1. \A m \in ticked' : m \in Mark /\ m.at \in DOMAIN rows
  <2>1. \A i \in DOMAIN rows : At(i) \in Mark /\ At(i).at \in DOMAIN rows
    BY RowFacts DEF At
  <2>2. \A m \in ticked : m \in Mark /\ m.at \in DOMAIN rows
    BY DEF Typed, GridTypeOK
  <2> QED
    BY <2>1, <2>2
<1>2. GridTypeOK'
  BY <1>1 DEF Typed, GridTypeOK, taskVars
<1> QED
  BY <1>1, <1>2 DEF Typed, taskVars, Outstanding

LEMMA SendTyped ==
  ASSUME Typed, NEW c \in Calls, NEW o, NEW t, NEW at, NEW v, NEW chosen,
         Asks(c, o, t, at, v, chosen)
  PROVE  Typed'
<1>1. at \in SUBSET Nat
  BY RowFacts DEF Asks
<1>2. GridTypeOK'
  <2> USE DEF Asks, SendTask, Typed, GridTypeOK
  <2>1. /\ task' \in [Calls -> {"update", "insert", "delete", "reload", None}]
        /\ stage' \in [Calls -> {"idle", "asked", "inserted", "served", "done"}]
        /\ tab' \in [Calls -> Tables \cup {None}]
    OBVIOUS
  <2>2. from' \in [Calls -> Seq(Row)] /\ picks' \in [Calls -> SUBSET Nat]
    BY <1>1
  <2>3. val' \in [Calls -> Vals \cup {None}] /\ meant' \in [Calls -> SUBSET Ids]
    OBVIOUS
  <2>4. crossed' \in BOOLEAN
    OBVIOUS
  <2>5. edit' \in Mark \cup {None} /\ menu' \in Mark \cup {None} /\ missed' = missed
    OBVIOUS
  <2> QED
    BY <2>1, <2>2, <2>3, <2>4, <2>5
<1>3. /\ Outstanding' = Outstanding \cup {c} /\ c \notin Outstanding
      /\ stage'[c] = "asked" /\ task'[c] = o /\ tab'[c] = t /\ from'[c] = rows
      /\ picks'[c] = at /\ val'[c] = v /\ ok'[c] = {}
      /\ \A d \in Calls : d # c => Same(d)
      /\ rows' = rows /\ ticked' = ticked
  BY Sends DEF Asks
<1>4. \A d \in Calls : stage'[d] \notin {"inserted", "served"} => ok'[d] = {}
  BY <1>3 DEF Typed, Same
<1>5. ASSUME NEW d \in Outstanding'
      PROVE  /\ tab'[d] \in Tables /\ picks'[d] \subseteq DOMAIN from'[d]
             /\ task'[d] \in {"insert", "reload"} => picks'[d] = {}
             /\ task'[d] = "update" => val'[d] \in Vals
             /\ task'[d] \in {"update", "delete"} => ok'[d] \subseteq picks'[d]
             /\ task'[d] = "insert" => ok'[d] = {} \/ \E k \in Keys : ok'[d] = {k}
             /\ stage'[d] = "inserted" => task'[d] = "insert" /\ ok'[d] # {}
  <2>1. CASE d = c
    BY <1>3, <2>1 DEF Asks
  <2>2. CASE d # c
    BY <1>3, <1>5, <2>2 DEF Typed, Same, Outstanding
  <2> QED
    BY <2>1, <2>2
<1>6. \A m \in ticked' : m.at \in DOMAIN rows'
  BY <1>3 DEF Typed
<1> QED
  BY <1>2, <1>4, <1>5, <1>6 DEF Typed

\* What the Go side does.
LEMMA ServeTyped ==
  ASSUME Typed, NEW c \in Calls,
         \/ Refused(c) \/ UpdateTableRow(c) \/ InsertTableRow(c)
         \/ DeleteTableRows(c) \/ BrowseTableRows(c)
  PROVE  Typed'
<1>1. (\E o : Served(c, o)) \/ InsertTableRow(c)
  BY DEF Refused, UpdateTableRow, DeleteTableRows, BrowseTableRows
<1>2. /\ c \in Outstanding /\ stage[c] = "asked" /\ ok[c] = {} /\ Outstanding' = Outstanding
      /\ stage'[c] \in {"inserted", "served"} /\ \A d \in Calls : d # c => stage'[d] = stage[d]
      /\ stage'[c] = "inserted" => task[c] = "insert" /\ ok'[c] # {}
      /\ UNCHANGED <<task, tab, picks, val, meant, bound, rows, edit, menu, ticked, rowErrs>>
      /\ UNCHANGED <<missed, crashed, crossed>>
  <2>1. CASE \E o : Served(c, o)
    BY <2>1, Serves
  <2>2. CASE InsertTableRow(c)
    <3>1. ok'[c] # {}
      <4>1. \E k \in Keys : ok' = [ok EXCEPT ![c] = {k}]
        BY <2>2, Inserts
      <4> QED
        BY <4>1 DEF Typed, GridTypeOK
    <3> QED
      BY <2>2, <3>1, Inserts
  <2> QED
    BY <1>1, <2>1, <2>2
<1>3. stage' \in [Calls -> {"idle", "asked", "inserted", "served", "done"}]
  BY <1>1, Inserts DEF Served, Typed, GridTypeOK
<1>4. ASSUME table' \in [Tables -> [Keys -> Vals \cup {None}]],
             ok' \in [Calls -> SUBSET Nat], from' = from, \A d \in Calls : d # c => ok'[d] = ok[d],
             task[c] \in {"update", "delete"} => ok'[c] \subseteq picks[c],
             task[c] = "insert" => ok'[c] = {} \/ \E k \in Keys : ok'[c] = {k}
      PROVE  Typed'
  <2>1. GridTypeOK'
    BY <1>2, <1>3, <1>4 DEF Typed, GridTypeOK
  <2> QED
    BY <1>2, <1>4, <2>1 DEF Typed, Outstanding
<1>5. CASE Refused(c)
  BY <1>2, <1>4, <1>5 DEF Refused, Typed, GridTypeOK
<1>6. CASE UpdateTableRow(c)
  <2>1. PICK i \in picks[c] : /\ table' = [table EXCEPT ![tab[c]][KeyAt(c, i)] = val[c]]
                              /\ ok' = [ok EXCEPT ![c] = picks[c]] /\ UNCHANGED from
                              /\ task[c] = "update"
    BY <1>6 DEF UpdateTableRow, Served
  <2>2. val[c] \in Vals /\ picks[c] \in SUBSET Nat
    BY <1>2, <2>1 DEF Typed, GridTypeOK
  <2>3. table' \in [Tables -> [Keys -> Vals \cup {None}]]
    BY <2>1, <2>2 DEF Typed, GridTypeOK
  <2>4. ok' \in [Calls -> SUBSET Nat] /\ ok'[c] = picks[c] /\ \A d \in Calls : d # c => ok'[d] = ok[d]
    BY <2>1, <2>2 DEF Typed, GridTypeOK
  <2> QED
    BY <1>4, <2>1, <2>3, <2>4
<1>7. CASE InsertTableRow(c)
  <2>1. PICK k \in Keys, v \in Vals : /\ table' = [table EXCEPT ![tab[c]][k] = v]
                                     /\ ok' = [ok EXCEPT ![c] = {k}] /\ UNCHANGED from
                                     /\ task[c] = "insert"
    BY <1>7, Inserts
  <2>2. k \in Nat
    BY GridKeysAssumption
  <2>3. table' \in [Tables -> [Keys -> Vals \cup {None}]]
    BY <2>1, <2>2 DEF Typed, GridTypeOK
  <2>4. ok' \in [Calls -> SUBSET Nat] /\ ok'[c] = {k} /\ \A d \in Calls : d # c => ok'[d] = ok[d]
    BY <2>1, <2>2 DEF Typed, GridTypeOK
  <2> QED
    BY <1>4, <2>1, <2>3, <2>4
<1>8. CASE DeleteTableRows(c)
  <2> DEFINE left(done) == [k \in Keys |-> IF \E i \in done : KeyAt(c, i) = k THEN None
                                        ELSE table[tab[c]][k]]
  <2>1. PICK done \in SUBSET picks[c] :
           /\ table' = [table EXCEPT ![tab[c]] = left(done)]
           /\ ok' = [ok EXCEPT ![c] = done] /\ UNCHANGED from /\ task[c] = "delete"
    BY <1>8 DEF DeleteTableRows, Served
  <2>2. done \in SUBSET Nat
    BY <2>1 DEF Typed, GridTypeOK
  <2>3. table' \in [Tables -> [Keys -> Vals \cup {None}]]
    <3>1. left(done) \in [Keys -> Vals \cup {None}]
      BY <1>2 DEF Typed, GridTypeOK
    <3> HIDE DEF left
    <3> QED
      BY <2>1, <3>1 DEF Typed, GridTypeOK
  <2>4. ok' \in [Calls -> SUBSET Nat] /\ ok'[c] = done /\ \A d \in Calls : d # c => ok'[d] = ok[d]
    BY <2>1, <2>2 DEF Typed, GridTypeOK
  <2> QED
    BY <1>4, <2>1, <2>3, <2>4
<1>9. CASE BrowseTableRows(c)
  <2>1. from' = [from EXCEPT ![c] = Listing(tab[c])] /\ UNCHANGED <<table, ok>> /\ task[c] = "reload"
    BY <1>9 DEF BrowseTableRows, Served
  <2>2. Listing(tab[c]) \in Seq(Row)
    BY <1>2, ListingFacts DEF Typed, GridTypeOK
  <2>3. from' \in [Calls -> Seq(Row)] /\ \A d \in Calls : d # c => from'[d] = from[d]
    BY <2>1, <2>2 DEF Typed, GridTypeOK
  <2>4. GridTypeOK'
    BY <1>2, <1>3, <2>1, <2>3 DEF Typed, GridTypeOK
  <2>5. picks[c] = {}
    BY <1>2, <2>1 DEF Typed
  <2> QED
    BY <1>2, <2>1, <2>3, <2>4, <2>5 DEF Typed, Outstanding
<1> QED
  BY <1>5, <1>6, <1>7, <1>8, <1>9

LEMMA ResolveTyped ==
  ASSUME Typed, NEW c \in Calls, RowReadBack(c) \/ RowSubmitted(c) \/ RowUnread(c)
  PROVE  Typed'
<1>1. /\ c \in Outstanding /\ task[c] = "insert"
      /\ Outstanding' = Outstanding
      /\ stage' \in [Calls -> {"idle", "asked", "inserted", "served", "done"}]
      /\ stage'[c] = "served" /\ \A d \in Calls : d # c => stage'[d] = stage[d]
      /\ UNCHANGED <<task, tab, picks, val, meant, bound, rows, edit, menu, ticked, rowErrs>>
      /\ UNCHANGED <<table, crashed, crossed>>
      /\ from' \in [Calls -> Seq(Row)] /\ \A d \in Calls : d # c => from'[d] = from[d]
  BY Resolves
<1>2. /\ ok' \in [Calls -> SUBSET Nat] /\ \A d \in Calls : d # c => ok'[d] = ok[d]
      /\ ok'[c] = {} \/ \E k \in Keys : ok'[c] = {k}
      /\ missed' \subseteq Keys
  <2>1. PICK k \in Keys :
               /\ ok[c] = {k}
               /\ \/ UNCHANGED <<ok, missed>>
                  \/ ok' = [ok EXCEPT ![c] = {}] /\ missed' = missed \cup {k}
    BY Resolves
  <2> QED
    BY <2>1 DEF Typed, GridTypeOK
<1>3. GridTypeOK'
  BY <1>1, <1>2 DEF Typed, GridTypeOK
<1>4. picks[c] = {}
  BY <1>1 DEF Typed
<1>5. \A d \in Calls : stage'[d] \notin {"inserted", "served"} => ok'[d] = {}
  BY <1>1, <1>2 DEF Typed
<1>6. ASSUME NEW d \in Outstanding
      PROVE  /\ tab'[d] \in Tables /\ picks'[d] \subseteq DOMAIN from'[d]
             /\ task'[d] \in {"insert", "reload"} => picks'[d] = {}
             /\ task'[d] = "update" => val'[d] \in Vals
             /\ task'[d] \in {"update", "delete"} => ok'[d] \subseteq picks'[d]
             /\ task'[d] = "insert" => ok'[d] = {} \/ \E k \in Keys : ok'[d] = {k}
             /\ stage'[d] = "inserted" => task'[d] = "insert" /\ ok'[d] # {}
  <2>1. CASE d = c
    BY <1>1, <1>2, <1>4, <2>1 DEF Typed
  <2>2. CASE d # c
    BY <1>1, <1>2, <2>2 DEF Typed, Outstanding
  <2> QED
    BY <2>1, <2>2
<1>7. \A m \in ticked' : m.at \in DOMAIN rows'
  BY <1>1 DEF Typed
<1> QED
  BY <1>1, <1>3, <1>5, <1>6, <1>7 DEF Typed

\* The answers.
LEMMA AnswerTyped ==
  ASSUME Typed, NEW c \in Calls,
         \/ CellSaved(c) \/ CellFailed(c) \/ RowInserted(c)
         \/ RowsDeleted(c) \/ DeletionFailed(c) \/ Reloaded(c)
  PROVE  Typed'
<1>1. \E o : TaskAnswered(c, o)
  BY DEF CellSaved, CellFailed, RowInserted, RowsDeleted, DeletionFailed, Reloaded
<1>2. /\ c \in Outstanding /\ Outstanding' = Outstanding \ {c}
      /\ ok'[c] = {} /\ \A d \in Calls : d # c => Same(d)
      /\ UNCHANGED <<table, crossed>>
  BY <1>1, Answers
<1>3. ASSUME bound' \in Tables, rows' \in Seq(Row), edit' \in Mark \cup {None},
             menu' \in Mark \cup {None}, ticked' \subseteq Mark, rowErrs' \subseteq Mark,
             crashed' \in BOOLEAN, \A m \in ticked' : m.at \in DOMAIN rows',
             missed' \subseteq Keys
      PROVE  Typed'
  <2>1. /\ stage' \in [Calls -> {"idle", "asked", "inserted", "served", "done"}]
        /\ task' \in [Calls -> {"update", "insert", "delete", "reload", None}]
        /\ tab' \in [Calls -> Tables \cup {None}]
        /\ picks' \in [Calls -> SUBSET Nat] /\ ok' \in [Calls -> SUBSET Nat]
    BY <1>1 DEF TaskAnswered, Typed, GridTypeOK
  <2>2. val' \in [Calls -> Vals \cup {None}] /\ meant' \in [Calls -> SUBSET Ids]
    BY <1>1 DEF TaskAnswered, Typed, GridTypeOK
  <2>3. from' \in [Calls -> Seq(Row)]
    <3>1. <<>> \in Seq(Row)
      BY EmptySeq
    <3> QED
      BY <1>1, <3>1 DEF TaskAnswered, Typed, GridTypeOK
  <2>4. GridTypeOK'
    BY <1>2, <1>3, <2>1, <2>2, <2>3 DEF Typed, GridTypeOK
  <2>5. \A d \in Calls : stage'[d] \notin {"inserted", "served"} => ok'[d] = {}
    BY <1>2 DEF Typed, Same
  <2>6. \A d \in Outstanding' :
          /\ tab'[d] \in Tables /\ picks'[d] \subseteq DOMAIN from'[d]
          /\ task'[d] \in {"insert", "reload"} => picks'[d] = {}
          /\ task'[d] = "update" => val'[d] \in Vals
          /\ task'[d] \in {"update", "delete"} => ok'[d] \subseteq picks'[d]
          /\ task'[d] = "insert" => ok'[d] = {} \/ \E k \in Keys : ok'[d] = {k}
          /\ stage'[d] = "inserted" => task'[d] = "insert" /\ ok'[d] # {}
    BY <1>2 DEF Typed, Same, Outstanding
  <2> QED
    BY <1>3, <2>4, <2>5, <2>6 DEF Typed
<1>4. CASE CellSaved(c)
  <2>1. PICK i \in ok[c] :
          /\ task[c] = "update" /\ UNCHANGED <<bound, edit, menu, ticked, rowErrs, missed>>
          /\ IF i \in DOMAIN rows
             THEN rows' = [rows EXCEPT ![i].value = val[c]] /\ UNCHANGED crashed
             ELSE crashed' = TRUE /\ UNCHANGED rows
    BY <1>4 DEF CellSaved, TaskAnswered
  <2>2. rows' \in Seq(Row) /\ DOMAIN rows' = DOMAIN rows
    <3>1. CASE i \in DOMAIN rows
      <4>1. [rows[i] EXCEPT !.value = val[c]] \in Row
        BY <1>2, <2>1, <3>1, RowFacts DEF Typed, Row
      <4>2. rows' = [rows EXCEPT ![i] = [rows[i] EXCEPT !.value = val[c]]]
        BY <2>1, <3>1
      <4> QED
        BY <3>1, <4>1, <4>2, RowFacts, ExceptSeq DEF Typed, GridTypeOK
    <3>2. CASE i \notin DOMAIN rows
      BY <2>1, <3>2 DEF Typed, GridTypeOK
    <3> QED
      BY <3>1, <3>2
  <2> QED
    BY <1>3, <2>1, <2>2 DEF Typed, GridTypeOK
<1>5. CASE CellFailed(c)
  BY <1>3, <1>5 DEF CellFailed, Typed, GridTypeOK
<1>6. CASE RowInserted(c)
  <2>1. /\ rows' = (IF ok[c] = {} THEN rows ELSE rows \o from[c])
        /\ UNCHANGED <<bound, edit, menu, ticked, rowErrs, missed, crashed>>
    BY <1>6 DEF RowInserted
  <2>2. rows' \in Seq(Row) /\ DOMAIN rows \subseteq DOMAIN rows'
    <3>1. rows \in Seq(Row) /\ from[c] \in Seq(Row)
      BY DEF Typed, GridTypeOK
    <3>2. rows \o from[c] \in Seq(Row) /\ Len(rows \o from[c]) = Len(rows) + Len(from[c])
      BY <3>1, ConcatProperties
    <3>3. Len(from[c]) \in Nat /\ DOMAIN (rows \o from[c]) = 1..Len(rows \o from[c])
      BY <3>1, <3>2, LenProperties
    <3>4. DOMAIN rows \subseteq DOMAIN (rows \o from[c])
      BY <3>2, <3>3, RowFacts
    <3> QED
      BY <2>1, <3>1, <3>2, <3>4
  <2> QED
    BY <1>3, <2>1, <2>2 DEF Typed, GridTypeOK
<1>7. CASE RowsDeleted(c)
  <2>1. /\ rows' = Without(from[c], ok[c]) /\ ticked' = {}
        /\ UNCHANGED <<bound, edit, menu, missed, crashed>>
        /\ rowErrs' = {[at |-> NewIndex(i, ok[c]), id |-> Id(from[c][i])] : i \in picks[c] \ ok[c]}
        /\ task[c] = "delete"
    BY <1>7 DEF RowsDeleted, TaskAnswered
  <2>2. /\ from[c] \in Seq(Row) /\ ok[c] \in SUBSET DOMAIN from[c] /\ picks[c] \subseteq DOMAIN from[c]
        /\ \A i \in DOMAIN from[c] : from[c][i] \in Row
    <3>1. from[c] \in Seq(Row)
      BY DEF Typed, GridTypeOK
    <3>2. ok[c] \subseteq picks[c] /\ picks[c] \subseteq DOMAIN from[c]
      BY <1>2, <2>1 DEF Typed
    <3> QED
      BY <3>1, <3>2, LenProperties, ElementOfSeq
  <2>3. rows' \in Seq(Row) /\ \A i \in picks[c] \ ok[c] : NewIndex(i, ok[c]) \in DOMAIN rows'
    BY <2>1, <2>2, WithoutFacts
  <2>4. DOMAIN rows' = 1..Len(rows') /\ Len(rows') \in Nat
    BY <2>3, LenProperties
  <2>5. rowErrs' \subseteq Mark
    BY <2>1, <2>2, <2>3, <2>4 DEF Mark, Id, Ids, Row
  <2> QED
    BY <1>3, <2>1, <2>3, <2>5 DEF Typed, GridTypeOK
<1>8. CASE Reloaded(c)
  <2>1. /\ bound' = tab[c] /\ rows' = from[c] /\ edit' = None /\ menu' = None /\ ticked' = {}
        /\ rowErrs' = {} /\ missed' = {} /\ UNCHANGED crashed
    BY <1>8 DEF Reloaded
  <2>2. bound' \in Tables /\ rows' \in Seq(Row)
    BY <1>2, <2>1 DEF Typed, GridTypeOK
  <2> QED
    BY <1>3, <2>1, <2>2 DEF Typed, GridTypeOK
<1>9. CASE DeletionFailed(c)
  BY <1>3, <1>9 DEF DeletionFailed, Typed, GridTypeOK
<1> QED
  BY <1>4, <1>5, <1>6, <1>7, <1>8, <1>9

LEMMA TypedStep == Typed /\ [GridNext]_tableVars => Typed'
<1> SUFFICES ASSUME Typed, [GridNext]_tableVars
             PROVE  Typed'
  OBVIOUS
<1>1. ASSUME NEW i \in DOMAIN rows, StartEdit(i) \/ OpenMenu(i) \/ ToggleRow(i)
      PROVE  Typed'
  <2>1. At(i) \in Mark
    BY RowFacts
  <2>2. crossed' \in BOOLEAN
    BY <1>1 DEF StartEdit, OpenMenu, ToggleRow, Deleting, Typed, GridTypeOK
  <2>3. /\ UNCHANGED <<table, bound, rows, rowErrs, taskVars, stage, from, ok, missed, crashed>>
        /\ edit' \in {edit, At(i)} /\ menu' \in {menu, At(i)}
        /\ \A m \in ticked' : m \in ticked \/ m = At(i)
    BY <1>1 DEF StartEdit, OpenMenu, ToggleRow
  <2> QED
    BY <2>1, <2>2, <2>3, MarksTyped DEF Typed, GridTypeOK
<1>2. CASE Dismiss
  BY <1>2, MarksTyped DEF Dismiss, Typed, GridTypeOK
<1>3. CASE GridIdle \/ UNCHANGED tableVars
  BY <1>3, MarksTyped DEF GridIdle, tableVars, gridVars, Typed, GridTypeOK
<1>4. ASSUME NEW c \in Calls,
             \/ DeleteSelected(c) \/ DeleteMenuRow(c)
             \/ \E v \in Vals \ Early : CommitEdit(c, v)
             \/ \E v \in (Vals \ Early) \cup {None} : SaveNewRow(c, v)
             \/ \E t \in Tables : Reload(c, t)
      PROVE  Typed'
  BY <1>4, ClickAsks, SendTyped
<1> QED
  BY <1>1, <1>2, <1>3, <1>4, ServeTyped, ResolveTyped, AnswerTyped
     DEF GridNext, GridClicks, GridServer, GridAnswers

-----------------------------------------------------------------------------
(***************************************************************************)
(* While nothing has crossed.                                              *)
(***************************************************************************)
Quiet == Apart /\ Marked /\ Aimed /\ Copied /\ Unseen

LEMMA ApartStays ==
  ASSUME Apart, \A d \in Outstanding' : /\ d \in Outstanding /\ task'[d] = task[d]
                                        /\ picks'[d] = picks[d]
  PROVE  Apart'
  BY DEF Apart, Disturbs

LEMMA CopiedStays ==
  ASSUME Copied, UNCHANGED <<table, bound, rows, missed>>,
         \A d \in Calls : \A o, i : Wrote(d, o, i)' <=> Wrote(d, o, i),
         \A d \in Outstanding : ok[d] # {} => val'[d] = val[d]
  PROVE  Copied'
<1>1. \A t : Present(t)' = Present(t)
  BY DEF Present
<1>2. \A i : There(i)' = There(i) /\ (Shows(rows[i])' <=> Shows(rows[i]))
  BY DEF There, Shows
<1>3. \A d \in Calls : \A o, i : Wrote(d, o, i)' => val'[d] = val[d]
  BY DEF Wrote
<1> QED
  BY <1>1, <1>2, <1>3 DEF Copied

LEMMA UnseenStays ==
  ASSUME Unseen, UNCHANGED <<table, bound, rows, missed>>,
         \A d \in Calls : \A i : Wrote(d, "insert", i)' => Wrote(d, "insert", i)
  PROVE  Unseen'
  BY DEF Unseen

LEMMA ShowsStays ==
  ASSUME UNCHANGED <<table, bound>>
  PROVE  \A x : Shows(x)' <=> Shows(x)
  BY DEF Shows

LEMMA MarksQuiet ==
  ASSUME Typed, Quiet, ~crossed',
         \/ \E i \in DOMAIN rows : StartEdit(i) \/ OpenMenu(i) \/ ToggleRow(i)
         \/ Dismiss \/ GridIdle \/ UNCHANGED tableVars
  PROVE  Quiet'
<1>1. UNCHANGED <<table, bound, rows, rowErrs, task, tab, picks, val, meant>>
      /\ UNCHANGED <<stage, from, ok, missed, crashed>> /\ ~crossed
  <2>1. ASSUME NEW i \in DOMAIN rows, StartEdit(i) \/ OpenMenu(i) \/ ToggleRow(i)
        PROVE  /\ UNCHANGED <<table, bound, rows, rowErrs, task, tab, picks, val, meant>>
               /\ UNCHANGED <<stage, from, ok, missed, crashed>> /\ ~crossed
    <3>1. CASE StartEdit(i)
      BY <3>1 DEF StartEdit, taskVars
    <3>2. CASE OpenMenu(i)
      BY <3>2 DEF OpenMenu, taskVars
    <3>3. CASE ToggleRow(i)
      BY <3>3 DEF ToggleRow, taskVars
    <3> QED
      BY <2>1, <3>1, <3>2, <3>3
  <2>2. CASE Dismiss \/ GridIdle \/ UNCHANGED tableVars
    BY <2>2 DEF Dismiss, GridIdle, tableVars, gridVars, taskVars
  <2> QED
    BY <2>1, <2>2
<1>2. Outstanding' = Outstanding /\ Deleting' = Deleting
  BY <1>1 DEF Outstanding, Deleting
<1>3. Apart'
  BY <1>1, <1>2, ApartStays DEF Quiet
<1>4. Aimed'
  <2>1. \A t : Listing(t)' = Listing(t)
    BY <1>1 DEF Listing, Present, RowOf
  <2> QED
    BY <1>1, <1>2, <2>1, ShowsStays DEF Quiet, Aimed
<1>5. Copied'
  BY <1>1, <1>2, CopiedStays DEF Quiet, Wrote
<1>6. \A i \in DOMAIN rows : At(i).at = i /\ At(i).id = Id(rows[i])
  BY DEF At
<1>7. Marked'
  <2>1. ASSUME NEW i \in DOMAIN rows, StartEdit(i)
        PROVE  edit' = At(i) /\ menu' = menu /\ menu = None /\ ticked' = ticked /\ ~Deleting
    BY <2>1 DEF StartEdit, RowClickable
  <2>2. ASSUME NEW i \in DOMAIN rows, OpenMenu(i)
        PROVE  edit' = edit /\ edit = None /\ menu' = At(i) /\ ticked' = ticked /\ ~Deleting
    BY <2>2 DEF OpenMenu, RowClickable, Quiet, Marked, OnTheirRows
  <2>3. ASSUME NEW i \in DOMAIN rows, ToggleRow(i)
        PROVE  UNCHANGED <<edit, menu>> /\ \A m \in ticked' : m \in ticked \/ m = At(i)
    BY <2>3 DEF ToggleRow
  <2>4. ASSUME Dismiss \/ GridIdle \/ UNCHANGED tableVars
        PROVE  /\ UNCHANGED <<edit, menu>> \/ (edit' = None /\ menu' = None)
               /\ ticked' = ticked
    BY <2>4 DEF Dismiss, GridIdle, tableVars, gridVars
  <2>5. OnTheirRows(ticked \cup rowErrs \cup ({edit, menu} \ {None}))'
    <3>1. \A m \in ticked \cup rowErrs \cup ({edit, menu} \ {None}) :
             m.at \in DOMAIN rows /\ Id(rows[m.at]) = m.id
      BY DEF Quiet, Marked, OnTheirRows
    <3>2. \A m \in ticked' \cup rowErrs' \cup ({edit', menu'} \ {None}) :
             \/ m \in ticked \cup rowErrs \cup ({edit, menu} \ {None})
             \/ \E i \in DOMAIN rows : m = At(i)
      BY <1>1, <2>1, <2>2, <2>3, <2>4
    <3>3. \A m \in ticked' \cup rowErrs' \cup ({edit', menu'} \ {None}) :
             m.at \in DOMAIN rows /\ Id(rows[m.at]) = m.id
      BY <1>6, <3>1, <3>2
    <3> QED
      BY <1>1, <3>3 DEF OnTheirRows, Id
  <2>6. (edit' = None \/ menu' = None) /\ (Deleting => edit' = None /\ menu' = None)
    BY <2>1, <2>2, <2>3, <2>4 DEF Quiet, Marked
  <2> QED
    BY <1>1, <1>2, <2>5, <2>6 DEF Quiet, Marked
<1>8. Unseen'
  BY <1>1, <1>2, UnseenStays DEF Quiet, Wrote
<1> QED
  BY <1>3, <1>4, <1>5, <1>7, <1>8 DEF Quiet

LEMMA SendQuiet ==
  ASSUME Typed, Quiet, ~crossed', NEW c \in Calls, NEW o, NEW t, NEW at, NEW v, NEW chosen,
         Asks(c, o, t, at, v, chosen)
  PROVE  Quiet'
<1>1. /\ c \notin Outstanding /\ Outstanding' = Outstanding \cup {c}
      /\ stage'[c] = "asked" /\ task'[c] = o /\ tab'[c] = t /\ from'[c] = rows
      /\ picks'[c] = at /\ ok'[c] = {} /\ meant'[c] = chosen
      /\ \A d \in Calls : d # c => Same(d)
      /\ UNCHANGED <<table, bound, rows, rowErrs, missed, crashed>>
      /\ ~crossed /\ \A d \in Outstanding : ~Disturbs(o, at, d)
  BY Sends DEF Asks
<1>2. \A d \in Outstanding : d \in Calls /\ d # c /\ Same(d)
  BY <1>1 DEF Outstanding
<1>3. Apart'
  <2>1. \A d \in Outstanding : ~Disturbs(o, at, d)
    BY <1>1
  <2>2. ASSUME NEW d \in Outstanding', NEW e \in Outstanding', d # e
        PROVE  ~Disturbs(task[d], picks[d], e)'
    <3>1. CASE d # c /\ e # c
      <4>1. ~Disturbs(task[d], picks[d], e)
        BY <1>1, <2>2, <3>1 DEF Quiet, Apart
      <4> QED
        BY <1>1, <1>2, <3>1, <4>1 DEF Disturbs, Same
    <3>2. CASE d = c
      <4>1. ~Disturbs(o, at, e)
        BY <1>1, <2>1, <2>2, <3>2
      <4> QED
        BY <1>1, <1>2, <2>2, <3>2, <4>1 DEF Disturbs, Same
    <3>3. CASE e = c
      <4>1. ~Disturbs(o, at, d)
        BY <1>1, <2>1, <2>2, <3>3
      <4> QED
        BY <1>1, <1>2, <2>2, <3>3, <4>1 DEF Disturbs, Same
    <3> QED
      BY <3>1, <3>2, <3>3
  <2> QED
    BY <2>2 DEF Apart
<1>4. Copied' /\ Unseen'
  <2>1. \A d \in Calls : \A x, i : Wrote(d, x, i)' <=> Wrote(d, x, i)
    <3>1. ASSUME NEW d \in Calls, NEW x, NEW i
          PROVE  Wrote(d, x, i)' <=> Wrote(d, x, i)
      <4>1. CASE d = c
        BY <1>1, <4>1 DEF Wrote
      <4>2. CASE d # c
        BY <1>1, <4>2 DEF Wrote, Same
      <4> QED
        BY <4>1, <4>2
    <3> QED
      BY <3>1
  <2> QED
    BY <1>1, <1>2, <2>1, CopiedStays, UnseenStays DEF Quiet, Same
<1>5. edit # None => edit.at \in DOMAIN rows /\ edit.id = Id(rows[edit.at])
  BY DEF Quiet, Marked, OnTheirRows
<1>6. menu # None => menu.at \in DOMAIN rows /\ menu.id = Id(rows[menu.at])
  BY DEF Quiet, Marked, OnTheirRows
<1>7. o = "delete" => edit' = None /\ menu' = None /\ chosen = {Id(rows[i]) : i \in at}
  <2>1. ASSUME o = "delete", RowClickable, menu' = menu, edit' = edit, at = Places(Deletable),
               chosen = {m.id : m \in Deletable}
        PROVE  edit' = None /\ menu' = None /\ chosen = {Id(rows[i]) : i \in at}
    <3>1. menu = None /\ edit = None
      BY <1>5, <2>1 DEF RowClickable
    <3>2. \A m \in Deletable : m.id = Id(rows[m.at])
      BY DEF Quiet, Marked, OnTheirRows, Deletable
    <3> QED
      BY <2>1, <3>1, <3>2 DEF Places
  <2>2. ASSUME o = "delete", menu # None, edit' = edit, menu' = None, at = {menu.at},
               chosen = {menu.id}
        PROVE  edit' = None /\ menu' = None /\ chosen = {Id(rows[i]) : i \in at}
    <3>1. edit = None
      BY <2>2 DEF Quiet, Marked
    <3> QED
      BY <1>6, <2>2, <3>1
  <2> QED
    BY <2>1, <2>2 DEF Asks
<1>8. Aimed'
  <2>1. \A x : Listing(x)' = Listing(x)
    BY <1>1 DEF Listing, Present, RowOf
  <2>2. ASSUME NEW d \in Outstanding
        PROVE  /\ task'[d] # "reload" => tab'[d] = bound'
               /\ task'[d] = "update" => \E i \in DOMAIN rows' :
                     picks'[d] = {i} /\ meant'[d] = {Id(rows[i])} /\ Id(from'[d][i]) = Id(rows[i])
               /\ task'[d] = "delete" =>
                     from'[d] = rows' /\ meant'[d] = {Id(rows[i]) : i \in picks'[d]}
               /\ task'[d] = "reload" /\ stage'[d] = "served" => from'[d] = Listing(tab'[d])
               /\ task'[d] = "insert" /\ stage'[d] = "served" /\ ok'[d] # {} => \E x \in Row :
                     from'[d] = <<x>> /\ ok'[d] = {x.key} /\ x.of = bound' /\ Shows(x)'
    BY <1>1, <1>2, ShowsStays DEF Quiet, Aimed, Same
  <2>3. /\ o # "reload" => t = bound
        /\ o = "update" => \E i \in DOMAIN rows : at = {i} /\ chosen = {Id(rows[i])}
        /\ o = "delete" => chosen = {Id(rows[i]) : i \in at}
    BY <1>5, <1>7 DEF Asks
  <2> QED
    BY <1>1, <2>1, <2>2, <2>3 DEF Aimed, Id
<1>9. Marked'
  <2>1. ticked' = ticked /\ edit' \in {edit, None} /\ menu' \in {menu, None}
    BY DEF Asks
  <2>2. Deleting' => Deleting \/ o = "delete"
    BY <1>1, <1>2 DEF Deleting, Same
  <2>3. OnTheirRows(ticked \cup rowErrs \cup ({edit, menu} \ {None}))'
    BY <1>1, <2>1 DEF OnTheirRows, Id, Quiet, Marked
  <2> QED
    BY <1>1, <1>7, <2>1, <2>2, <2>3 DEF Quiet, Marked
<1> QED
  BY <1>3, <1>4, <1>8, <1>9 DEF Quiet

\* What the Go side does.  It writes to the table of the rows shown, while no
\* reload is out; beside a deletion nothing else is out.
LEMMA Crowd ==
  ASSUME Quiet, NEW c \in Outstanding, NEW d \in Outstanding, c # d
  PROVE  /\ task[c] # "delete" /\ task[d] # "delete"
         /\ task[c] = "reload" <=> task[d] = "reload"
         /\ task[c] = "update" /\ task[d] = "update" => picks[c] # picks[d]
  BY DEF Quiet, Apart, Disturbs

LEMMA ServeQuiet ==
  ASSUME Typed, Quiet, ~crossed', NEW c \in Calls,
         \/ Refused(c) \/ UpdateTableRow(c) \/ InsertTableRow(c)
         \/ DeleteTableRows(c) \/ BrowseTableRows(c)
  PROVE  Quiet'
<1>1. (\E o : Served(c, o)) \/ InsertTableRow(c)
  BY DEF Refused, UpdateTableRow, DeleteTableRows, BrowseTableRows
<1>2. /\ c \in Outstanding /\ stage[c] = "asked" /\ ok[c] = {} /\ Outstanding' = Outstanding
      /\ stage'[c] \in {"inserted", "served"} /\ \A d \in Calls : d # c => stage'[d] = stage[d]
      /\ stage'[c] = "served" \/ InsertTableRow(c)
      /\ UNCHANGED <<task, tab, picks, val, meant, bound, rows, edit, menu, ticked, rowErrs>>
      /\ UNCHANGED <<missed, crashed, crossed>>
  <2>1. CASE \E o : Served(c, o)
    BY <2>1, Serves
  <2>2. CASE InsertTableRow(c)
    BY <2>2, Inserts
  <2> QED
    BY <1>1, <2>1, <2>2
<1>3. Apart'
  BY <1>2, ApartStays DEF Quiet
<1>4. Marked'
  <2>1. Deleting' = Deleting
    BY <1>2 DEF Deleting
  <2>2. OnTheirRows(ticked \cup rowErrs \cup ({edit, menu} \ {None}))'
    BY <1>2 DEF OnTheirRows, Id, Quiet, Marked
  <2> QED
    BY <1>2, <2>1, <2>2 DEF Quiet, Marked
\* A call that leaves the table as it is.
<1>5. ASSUME UNCHANGED table, UNCHANGED ok, \A d \in Calls : d # c => from'[d] = from[d],
             from' = from \/ task[c] = "reload", task[c] = "reload" => from'[c] = Listing(tab[c])
      PROVE  Quiet'
  <2>1. Copied' /\ Unseen'
    BY <1>2, <1>5, CopiedStays, UnseenStays DEF Quiet, Wrote
  <2>2. \A t : Listing(t)' = Listing(t)
    BY <1>5 DEF Listing, Present, RowOf
  <2>3. Aimed'
    <3>1. ASSUME NEW d \in Outstanding
          PROVE  /\ task'[d] # "reload" => tab'[d] = bound'
                 /\ task'[d] = "update" => \E i \in DOMAIN rows' :
                       picks'[d] = {i} /\ meant'[d] = {Id(rows[i])} /\ Id(from'[d][i]) = Id(rows[i])
                 /\ task'[d] = "delete" =>
                       from'[d] = rows' /\ meant'[d] = {Id(rows[i]) : i \in picks'[d]}
                 /\ task'[d] = "reload" /\ stage'[d] = "served" => from'[d] = Listing(tab'[d])
                 /\ task'[d] = "insert" /\ stage'[d] = "served" /\ ok'[d] # {} => \E x \in Row :
                       from'[d] = <<x>> /\ ok'[d] = {x.key} /\ x.of = bound' /\ Shows(x)'
      <4>1. CASE d = c
        BY <1>2, <1>5, <4>1, ShowsStays DEF Quiet, Aimed
      <4>2. CASE d # c
        BY <1>2, <1>5, <4>2, ShowsStays DEF Quiet, Aimed, Outstanding
      <4> QED
        BY <4>1, <4>2
    <3> QED
      BY <1>2, <2>2, <3>1 DEF Aimed, Id
  <2> QED
    BY <1>3, <1>4, <2>1, <2>3 DEF Quiet
<1>6. CASE Refused(c)
  <2>1. UNCHANGED <<table, from, ok>> /\ task[c] \in {"update", "insert"}
    BY <1>6 DEF Refused
  <2> QED
    BY <1>5, <2>1
<1>7. CASE BrowseTableRows(c)
  <2>1. from' = [from EXCEPT ![c] = Listing(tab[c])] /\ UNCHANGED <<table, ok>> /\ task[c] = "reload"
    BY <1>7 DEF BrowseTableRows, Served
  <2>2. from'[c] = Listing(tab[c]) /\ \A d \in Calls : d # c => from'[d] = from[d]
    BY <2>1 DEF Typed, GridTypeOK
  <2> QED
    BY <1>5, <2>1, <2>2
\* A write: no reload is out.
<1>8. ASSUME UNCHANGED from, task[c] # "reload", \A d \in Calls : d # c => ok'[d] = ok[d],
             task[c] = "insert" => stage'[c] = "inserted",
             \A d \in Calls, x \in Keys :
                d # c /\ Wrote(d, "insert", x) => table'[bound][x] = table[bound][x]
      PROVE  Aimed'
  <2>1. \A d \in Outstanding : task[d] # "reload"
    BY <1>2, <1>8, Crowd
  <2>2. ASSUME NEW d \in Outstanding
        PROVE  /\ tab'[d] = bound'
               /\ task'[d] = "update" => \E i \in DOMAIN rows' :
                     picks'[d] = {i} /\ meant'[d] = {Id(rows[i])} /\ Id(from'[d][i]) = Id(rows[i])
               /\ task'[d] = "delete" =>
                     from'[d] = rows' /\ meant'[d] = {Id(rows[i]) : i \in picks'[d]}
               /\ task'[d] # "reload"
    BY <1>2, <1>8, <2>1 DEF Quiet, Aimed
  <2>3. ASSUME NEW d \in Outstanding, task'[d] = "insert", stage'[d] = "served", ok'[d] # {}
        PROVE  \E x \in Row :
                  from'[d] = <<x>> /\ ok'[d] = {x.key} /\ x.of = bound' /\ Shows(x)'
    <3>1. d # c /\ stage'[d] = stage[d] /\ ok'[d] = ok[d]
      BY <1>2, <1>8, <2>3 DEF Outstanding
    <3>2. PICK x \in Row : from[d] = <<x>> /\ ok[d] = {x.key} /\ x.of = bound /\ Shows(x)
      BY <1>2, <2>3, <3>1 DEF Quiet, Aimed
    <3>3. Wrote(d, "insert", x.key) /\ x.key \in Keys
      BY <1>2, <2>3, <3>2 DEF Wrote, Row
    <3>4. table'[bound'][x.key] = table[bound][x.key]
      BY <1>2, <1>8, <3>1, <3>3 DEF Outstanding
    <3>5. Shows(x)'
      BY <3>2, <3>4 DEF Shows
    <3>6. from'[d] = <<x>> /\ ok'[d] = {x.key} /\ x.of = bound'
      BY <1>2, <1>8, <3>1, <3>2
    <3> QED
      BY <3>2, <3>5, <3>6
  <2> QED
    BY <1>2, <2>2, <2>3 DEF Aimed, Id
<1>9. tab[c] = bound \/ task[c] = "reload"
  BY <1>2 DEF Quiet, Aimed
<1>10. bound \in Tables /\ None \notin Vals /\ \A i \in DOMAIN rows : rows[i].key \in Keys
  BY RowFacts, GridValsAssumption DEF Typed, GridTypeOK, Row
<1>11. CASE UpdateTableRow(c)
  <2>1. PICK i \in picks[c] : /\ table' = [table EXCEPT ![tab[c]][KeyAt(c, i)] = val[c]]
                              /\ ok' = [ok EXCEPT ![c] = picks[c]] /\ UNCHANGED from
                              /\ task[c] = "update"
    BY <1>11 DEF UpdateTableRow, Served
  <2>2. picks[c] = {i} /\ i \in DOMAIN rows /\ KeyAt(c, i) = rows[i].key
    BY <1>2, <2>1 DEF Quiet, Aimed, Id, KeyAt
  <2> DEFINE k == rows[i].key
  <2>3. /\ k \in Keys /\ val[c] \in Vals
        /\ \A x \in Keys : table'[bound][x] = IF x = k THEN val[c] ELSE table[bound][x]
    BY <1>2, <1>9, <1>10, <2>1, <2>2 DEF Typed, GridTypeOK
  <2>4. ok'[c] = {i} /\ \A d \in Calls : d # c => ok'[d] = ok[d]
    BY <2>1, <2>2 DEF Typed, GridTypeOK
  <2>5. \A d \in Calls : \A o, x : Wrote(d, o, x)' <=>
           IF d = c THEN o = "update" /\ x = i ELSE Wrote(d, o, x)
    BY <1>2, <2>1, <2>4 DEF Wrote
  <2>6. \A d \in Calls, j \in DOMAIN rows : d # c => ~Wrote(d, "delete", j) /\ ~Wrote(d, "update", i)
    <3>1. ASSUME NEW d \in Outstanding, d # c, task[d] = "update"
          PROVE  i \notin ok[d]
      <4>1. \E j : picks[d] = {j}
        BY <3>1 DEF Quiet, Aimed
      <4>2. picks[d] # {i} /\ ok[d] \subseteq picks[d]
        BY <1>2, <2>1, <2>2, <3>1, Crowd DEF Typed
      <4> QED
        BY <4>1, <4>2
    <3>2. \A d \in Outstanding : d # c => task[d] # "delete"
      BY <1>2, Crowd
    <3> QED
      BY <3>1, <3>2 DEF Wrote
  <2>7. \A j \in DOMAIN rows : There(j)' = IF j = i THEN val[c] ELSE There(j)
    <3>1. \A j \in DOMAIN rows : rows[j].key = k => j = i
      BY <2>2 DEF Quiet, Copied
    <3> HIDE DEF k
    <3>2. \A j \in DOMAIN rows : There(j)' = IF rows[j].key = k THEN val[c] ELSE There(j)
      BY <1>2, <1>10, <2>3 DEF There
    <3> QED
      BY <3>1, <3>2 DEF k
  <2> HIDE DEF k
  <2>8. \A x \in Present(bound)' : x = k \/ x \in Present(bound)
    BY <1>2, <2>3 DEF Present
  <2>9. Copied'
    <3>1. /\ \A j \in DOMAIN rows' : rows'[j].of = bound'
          /\ \A j, l \in DOMAIN rows' : rows'[j].key = rows'[l].key => j = l
      BY <1>2 DEF Quiet, Copied
    <3>2. \A x \in Present(bound)' :
             \/ \E j \in DOMAIN rows' : rows'[j].key = x
             \/ \E d \in Calls : Wrote(d, "insert", x)'
             \/ x \in missed'
      BY <1>2, <2>1, <2>2, <2>5, <2>8 DEF Quiet, Copied, Wrote, k
    <3>3. \A j \in DOMAIN rows' :
             \/ There(j)' # None /\ Shows(rows[j])'
             \/ \E d \in Calls : Wrote(d, "update", j)' \/ Wrote(d, "delete", j)'
      <4>1. \A j \in DOMAIN rows : j = i \/ (There(j) # None /\ Shows(rows[j]))
                                   \/ \E d \in Calls \ {c} : Wrote(d, "update", j)
        BY <1>2, <2>6 DEF Quiet, Copied, Wrote
      <4>2. \A j \in DOMAIN rows : j # i => (Shows(rows[j])' <=> Shows(rows[j]))
        BY <1>2, <2>7 DEF Shows, There
      <4> QED
        BY <1>2, <2>5, <2>7, <4>1, <4>2
    <3>4. \A d \in Calls, j \in DOMAIN rows' :
             /\ Wrote(d, "update", j)' => There(j)' = val'[d]
             /\ Wrote(d, "delete", j)' => There(j)' = None
      BY <1>2, <2>5, <2>6, <2>7 DEF Quiet, Copied
    <3>5. \A d \in Calls, x \in Keys : Wrote(d, "insert", x)' =>
             /\ d # c /\ Wrote(d, "insert", x) /\ x # k
             /\ table'[bound'][x] # None /\ val'[d] \in {table'[bound'][x], None}
             /\ table'[bound][x] = table[bound][x]
             /\ \A j \in DOMAIN rows' : rows'[j].key # x
      BY <1>2, <2>2, <2>3, <2>5 DEF Quiet, Copied, k
    <3>6. \A d \in Calls, x \in Keys : Wrote(d, "insert", x)' =>
             \A e \in Calls : Wrote(e, "insert", x)' => e = d
      BY <3>5 DEF Quiet, Copied
    <3> QED
      BY <3>1, <3>2, <3>3, <3>4, <3>5, <3>6 DEF Copied
  <2>10. Unseen'
    <3>1. \A x \in missed : x \in Keys /\ x # k
      BY <2>2 DEF Quiet, Unseen, k, Typed, GridTypeOK
    <3> QED
      BY <1>2, <2>1, <2>3, <2>5, <3>1 DEF Quiet, Unseen
  <2>11. \A d \in Calls, x \in Keys : Wrote(d, "insert", x) => table'[bound][x] = table[bound][x]
    BY <2>2, <2>3 DEF Quiet, Copied, k
  <2> QED
    BY <1>3, <1>4, <1>8, <2>1, <2>4, <2>9, <2>10, <2>11 DEF Quiet
<1>12. CASE InsertTableRow(c)
  <2>1. PICK k \in Keys, w \in Vals :
            /\ task[c] = "insert" /\ table[tab[c]][k] = None /\ val[c] \in {w, None}
            /\ table' = [table EXCEPT ![tab[c]][k] = w]
            /\ ok' = [ok EXCEPT ![c] = {k}] /\ UNCHANGED from
    BY <1>12, Inserts
  <2>2. /\ w \in Vals /\ table[bound][k] = None
        /\ \A x \in Keys : table'[bound][x] = IF x = k THEN w ELSE table[bound][x]
    BY <1>2, <1>9, <1>10, <2>1 DEF Typed, GridTypeOK
  <2>3. ok'[c] = {k} /\ \A d \in Calls : d # c => ok'[d] = ok[d]
    BY <2>1 DEF Typed, GridTypeOK
  <2>4. \A d \in Calls : \A o, x : Wrote(d, o, x)' <=>
           IF d = c THEN o = "insert" /\ x = k ELSE Wrote(d, o, x)
    BY <1>2, <2>1, <2>3 DEF Wrote
  <2>5. \A d \in Calls : \A x : ~Wrote(c, "insert", x) /\ ~Wrote(d, "delete", x)
    BY <1>2, <2>1, Crowd DEF Wrote
  <2>6. \A d \in Calls : \A x : Wrote(d, "update", x) => val[d] \in Vals
    BY DEF Wrote, Typed
  <2>7. \A j \in DOMAIN rows : There(j) # None /\ rows[j].key # k
    <3>1. \A j \in DOMAIN rows : There(j) # None
      BY <1>10, <2>5, <2>6 DEF Quiet, Copied
    <3> QED
      BY <1>10, <2>2, <3>1 DEF There
  <2>8. \A j \in DOMAIN rows : There(j)' = There(j) /\ (Shows(rows[j])' <=> Shows(rows[j]))
    BY <1>2, <1>10, <2>2, <2>7 DEF There, Shows
  <2>9. \A x \in Present(bound)' : x = k \/ x \in Present(bound)
    BY <1>2, <2>2 DEF Present
  <2>10. Copied'
    <3>1. /\ \A j \in DOMAIN rows' : rows'[j].of = bound'
          /\ \A j, l \in DOMAIN rows' : rows'[j].key = rows'[l].key => j = l
      BY <1>2 DEF Quiet, Copied
    <3>2. \A x \in Present(bound)' :
             \/ \E j \in DOMAIN rows' : rows'[j].key = x
             \/ \E d \in Calls : Wrote(d, "insert", x)'
             \/ x \in missed'
      <4>1. Wrote(c, "insert", k)'
        BY <2>4
      <4>2. \A d \in Calls, x \in Keys : Wrote(d, "insert", x) => Wrote(d, "insert", x)'
        BY <2>4, <2>5
      <4> QED
        BY <1>2, <2>9, <4>1, <4>2 DEF Quiet, Copied, Present
    <3>3. \A j \in DOMAIN rows' :
             \/ There(j)' # None /\ Shows(rows[j])'
             \/ \E d \in Calls : Wrote(d, "update", j)' \/ Wrote(d, "delete", j)'
      <4>1. \A d \in Calls : \A j : Wrote(d, "update", j) => Wrote(d, "update", j)'
        BY <1>2, <2>1, <2>4 DEF Wrote
      <4> QED
        BY <1>2, <2>5, <2>8, <4>1 DEF Quiet, Copied
    <3>4. \A d \in Calls, j \in DOMAIN rows' :
             /\ Wrote(d, "update", j)' => There(j)' = val'[d]
             /\ Wrote(d, "delete", j)' => There(j)' = None
      BY <1>2, <2>4, <2>5, <2>8 DEF Quiet, Copied
    <3>5. \A d \in Calls, x \in Keys : Wrote(d, "insert", x)' =>
             (IF d = c THEN x = k ELSE x # k /\ Wrote(d, "insert", x))
      <4>1. \A d \in Calls : Wrote(d, "insert", k) => table[bound][k] # None
        BY DEF Quiet, Copied
      <4> QED
        BY <2>2, <2>4, <4>1
    <3>6. \A d \in Calls, x \in Keys : Wrote(d, "insert", x)' =>
             /\ table'[bound'][x] # None /\ val'[d] \in {table'[bound'][x], None}
             /\ \A j \in DOMAIN rows' : rows'[j].key # x
      BY <1>2, <1>10, <2>1, <2>2, <2>7, <3>5 DEF Quiet, Copied
    <3>7. \A d \in Calls, x \in Keys : Wrote(d, "insert", x)' =>
             \A e \in Calls : Wrote(e, "insert", x)' => e = d
      BY <3>5 DEF Quiet, Copied
    <3> QED
      BY <3>1, <3>2, <3>3, <3>4, <3>6, <3>7 DEF Copied
  <2>11. Unseen'
    <3>1. \A x \in missed : x \in Keys /\ x # k
      BY <2>2 DEF Quiet, Unseen, Typed, GridTypeOK
    <3> QED
      BY <1>2, <2>2, <2>4, <3>1 DEF Quiet, Unseen
  <2>12. stage'[c] = "inserted"
    BY <1>12, Inserts
  <2>13. \A d \in Calls, x \in Keys : Wrote(d, "insert", x) => table'[bound][x] = table[bound][x]
    BY <2>2 DEF Quiet, Copied
  <2> QED
    BY <1>3, <1>4, <1>8, <2>1, <2>3, <2>10, <2>11, <2>12, <2>13 DEF Quiet
<1>13. CASE DeleteTableRows(c)
  <2> DEFINE left(done) == [k \in Keys |-> IF \E i \in done : KeyAt(c, i) = k THEN None
                                        ELSE table[tab[c]][k]]
  <2>1. PICK done \in SUBSET picks[c] :
           /\ table' = [table EXCEPT ![tab[c]] = left(done)]
           /\ ok' = [ok EXCEPT ![c] = done] /\ UNCHANGED from /\ task[c] = "delete"
    BY <1>13 DEF DeleteTableRows, Served
  <2>2. from[c] = rows /\ done \subseteq DOMAIN rows /\ done \in SUBSET Nat
    BY <1>2, <2>1 DEF Quiet, Aimed, Typed, GridTypeOK
  <2>3. \A x \in Keys : table'[bound][x] = IF \E i \in done : rows[i].key = x THEN None
                                           ELSE table[bound][x]
    BY <1>2, <1>9, <1>10, <2>1, <2>2 DEF Typed, GridTypeOK, KeyAt
  <2>4. ok'[c] = done /\ \A d \in Calls : d # c => ok'[d] = ok[d]
    BY <2>1, <2>2 DEF Typed, GridTypeOK
  <2>5. \A d \in Outstanding : d = c
    BY <1>2, <2>1, Crowd
  <2>6. \A d \in Calls : \A o, x : Wrote(d, o, x)' <=> d = c /\ o = "delete" /\ x \in done
    BY <1>2, <2>1, <2>4, <2>5 DEF Wrote
  <2>7. \A d \in Calls : \A o, x : ~Wrote(d, o, x)
    BY <1>2, <2>5 DEF Wrote
  <2>8. \A j \in DOMAIN rows : /\ There(j)' = IF j \in done THEN None ELSE There(j)
                              /\ There(j) # None /\ Shows(rows[j])
    <3>1. \A j \in DOMAIN rows : (\E i \in done : rows[i].key = rows[j].key) <=> j \in done
      BY <2>2 DEF Quiet, Copied
    <3>2. \A j \in DOMAIN rows : There(j) # None /\ Shows(rows[j])
      BY <2>7 DEF Quiet, Copied
    <3> QED
      BY <1>2, <1>10, <2>3, <3>1, <3>2 DEF There
  <2>9. \A x \in Present(bound)' : x \in Present(bound)
    BY <1>2, <2>3 DEF Present
  <2>10. Copied'
    <3>1. /\ \A j \in DOMAIN rows' : rows'[j].of = bound'
          /\ \A j, l \in DOMAIN rows' : rows'[j].key = rows'[l].key => j = l
      BY <1>2 DEF Quiet, Copied
    <3>2. \A x \in Present(bound)' : (\E j \in DOMAIN rows' : rows'[j].key = x) \/ x \in missed'
      BY <1>2, <2>7, <2>9 DEF Quiet, Copied
    <3>3. \A j \in DOMAIN rows' : (There(j)' # None /\ Shows(rows[j])') \/ Wrote(c, "delete", j)'
      BY <1>2, <2>6, <2>8 DEF Shows, There
    <3>4. \A d \in Calls, j \in DOMAIN rows' :
             ~Wrote(d, "update", j)' /\ (Wrote(d, "delete", j)' => There(j)' = None)
      BY <1>2, <2>6, <2>8
    <3>5. \A d \in Calls, x \in Keys : ~Wrote(d, "insert", x)'
      BY <2>6
    <3> QED
      BY <3>1, <3>2, <3>3, <3>4, <3>5 DEF Copied
  <2>11. Unseen'
    <3>1. \A x \in missed : x \in Keys /\ \A i \in done : rows[i].key # x
      BY <2>2 DEF Quiet, Unseen, Typed, GridTypeOK
    <3> QED
      BY <1>2, <2>3, <2>6, <3>1 DEF Quiet, Unseen
  <2> QED
    BY <1>3, <1>4, <1>8, <2>1, <2>4, <2>7, <2>10, <2>11 DEF Quiet
<1> QED
  BY <1>6, <1>7, <1>11, <1>12, <1>13

\* The row of an INSERT is read back, or not.
LEMMA ResolveQuiet ==
  ASSUME Typed, Quiet, NEW c \in Calls, RowReadBack(c) \/ RowSubmitted(c) \/ RowUnread(c)
  PROVE  Quiet'
<1>1. /\ c \in Outstanding /\ task[c] = "insert"
      /\ Outstanding' = Outstanding
      /\ stage'[c] = "served" /\ \A d \in Calls : d # c => stage'[d] = stage[d]
      /\ UNCHANGED <<task, tab, picks, val, meant, bound, rows, edit, menu, ticked, rowErrs>>
      /\ UNCHANGED <<table, crashed, crossed>>
      /\ \A d \in Calls : d # c => from'[d] = from[d]
  BY Resolves
<1>2. PICK k \in Keys :
         /\ ok[c] = {k}
         /\ \/ /\ UNCHANGED <<ok, missed>>
               /\ \E x \in Row : /\ from'[c] = <<x>> /\ x.key = k /\ x.of = tab[c]
                                 /\ \/ x.value = table[tab[c]][k]
                                    \/ ~x.known /\ x.value = val[c]
            \/ ok' = [ok EXCEPT ![c] = {}] /\ missed' = missed \cup {k}
  BY Resolves
<1>3. tab[c] = bound /\ Wrote(c, "insert", k) /\ \A x : Wrote(c, "insert", x) => x = k
  BY <1>1, <1>2 DEF Quiet, Aimed, Wrote
<1>4. /\ val[c] \in {table[bound][k], None} /\ table[bound][k] # None
      /\ \A i \in DOMAIN rows : rows[i].key # k
      /\ \A d \in Calls : Wrote(d, "insert", k) => d = c
  BY <1>3 DEF Quiet, Copied
<1>5. Apart'
  BY <1>1, ApartStays DEF Quiet
<1>6. Marked'
  <2>1. Deleting' = Deleting
    BY <1>1 DEF Deleting
  <2>2. OnTheirRows(ticked \cup rowErrs \cup ({edit, menu} \ {None}))'
    BY <1>1 DEF OnTheirRows, Id, Quiet, Marked
  <2> QED
    BY <1>1, <2>1, <2>2 DEF Quiet, Marked
<1>7. ASSUME \A d \in Calls : d # c => ok'[d] = ok[d],
             ok'[c] # {} => \E x \in Row :
                from'[c] = <<x>> /\ ok'[c] = {x.key} /\ x.of = bound /\ Shows(x)
      PROVE  Aimed'
  <2>1. \A d \in Outstanding : d # c => task[d] \notin {"reload", "delete"}
    BY <1>1, Crowd
  <2>2. ASSUME NEW d \in Outstanding, d # c
        PROVE  /\ tab'[d] = bound' /\ task'[d] \notin {"reload", "delete"}
               /\ task'[d] = "update" => \E i \in DOMAIN rows' :
                     picks'[d] = {i} /\ meant'[d] = {Id(rows[i])} /\ Id(from'[d][i]) = Id(rows[i])
               /\ task'[d] = "insert" /\ stage'[d] = "served" /\ ok'[d] # {} => \E x \in Row :
                     from'[d] = <<x>> /\ ok'[d] = {x.key} /\ x.of = bound' /\ Shows(x)'
    <3>1. stage'[d] = stage[d] /\ ok'[d] = ok[d] /\ from'[d] = from[d]
      BY <1>1, <1>7, <2>2 DEF Outstanding
    <3> QED
      BY <1>1, <2>1, <2>2, <3>1, ShowsStays DEF Quiet, Aimed
  <2> QED
    BY <1>1, <1>3, <1>7, <2>2, ShowsStays DEF Aimed, Id
<1>8. ASSUME UNCHANGED <<ok, missed>>, NEW x \in Row, from'[c] = <<x>>, x.key = k, x.of = tab[c],
             x.value = table[tab[c]][k] \/ (~x.known /\ x.value = val[c])
      PROVE  Quiet'
  <2>1. Copied' /\ Unseen'
    BY <1>1, <1>8, CopiedStays, UnseenStays DEF Quiet, Wrote
  <2>2. ok'[c] = {x.key} /\ x.of = bound /\ Shows(x)
    BY <1>2, <1>3, <1>4, <1>8 DEF Shows
  <2> QED
    BY <1>5, <1>6, <1>7, <1>8, <2>1, <2>2 DEF Quiet
<1>9. CASE ok' = [ok EXCEPT ![c] = {}] /\ missed' = missed \cup {k}
  <2>1. ok'[c] = {} /\ \A d \in Calls : d # c => ok'[d] = ok[d]
    BY <1>9 DEF Typed, GridTypeOK
  <2>2. \A d \in Calls : \A o, x : Wrote(d, o, x)' <=> d # c /\ Wrote(d, o, x)
    BY <1>1, <2>1 DEF Wrote
  <2>3. \A x : ~Wrote(c, "update", x) /\ ~Wrote(c, "delete", x)
    BY <1>1 DEF Wrote
  <2>4. /\ \A i \in DOMAIN rows : There(i)' = There(i) /\ (Shows(rows[i])' <=> Shows(rows[i]))
        /\ Present(bound)' = Present(bound)
    BY <1>1 DEF There, Shows, Present
  <2>5. Copied'
    <3>1. /\ \A j \in DOMAIN rows' : rows'[j].of = bound'
          /\ \A j, l \in DOMAIN rows' : rows'[j].key = rows'[l].key => j = l
      BY <1>1 DEF Quiet, Copied
    <3>2. \A x \in Present(bound)' :
             \/ \E j \in DOMAIN rows' : rows'[j].key = x
             \/ \E d \in Calls : Wrote(d, "insert", x)'
             \/ x \in missed'
      BY <1>1, <1>3, <1>9, <2>2, <2>4 DEF Quiet, Copied
    <3>3. \A j \in DOMAIN rows' :
             \/ There(j)' # None /\ Shows(rows[j])'
             \/ \E d \in Calls : Wrote(d, "update", j)' \/ Wrote(d, "delete", j)'
      BY <1>1, <2>2, <2>3, <2>4 DEF Quiet, Copied
    <3>4. \A d \in Calls, j \in DOMAIN rows' :
             /\ Wrote(d, "update", j)' => There(j)' = val'[d]
             /\ Wrote(d, "delete", j)' => There(j)' = None
      BY <1>1, <2>2, <2>4 DEF Quiet, Copied
    <3>5. \A d \in Calls, x \in Keys : Wrote(d, "insert", x)' =>
             /\ table'[bound'][x] # None /\ val'[d] \in {table'[bound'][x], None}
             /\ \A j \in DOMAIN rows' : rows'[j].key # x
             /\ \A e \in Calls : Wrote(e, "insert", x)' => e = d
      BY <1>1, <2>2 DEF Quiet, Copied
    <3> QED
      BY <3>1, <3>2, <3>3, <3>4, <3>5 DEF Copied
  <2>6. Unseen'
    BY <1>1, <1>4, <1>9, <2>2 DEF Quiet, Unseen
  <2> QED
    BY <1>5, <1>6, <1>7, <2>1, <2>5, <2>6 DEF Quiet
<1> QED
  BY <1>2, <1>8, <1>9

\* The answers: the grid's own copy catches up.
LEMMA AnswerQuiet ==
  ASSUME Typed, Quiet, ~crossed', NEW c \in Calls,
         \/ CellSaved(c) \/ CellFailed(c) \/ RowInserted(c)
         \/ RowsDeleted(c) \/ DeletionFailed(c) \/ Reloaded(c)
  PROVE  Quiet'
<1>1. \E o : TaskAnswered(c, o)
  BY DEF CellSaved, CellFailed, RowInserted, RowsDeleted, DeletionFailed, Reloaded
<1>2. /\ c \in Outstanding /\ stage[c] = "served" /\ Outstanding' = Outstanding \ {c}
      /\ ok'[c] = {} /\ \A d \in Calls : d # c => Same(d)
      /\ UNCHANGED <<table, crossed>>
  BY <1>1, Answers
<1>3. \A d \in Outstanding' : d \in Calls /\ d \in Outstanding /\ d # c /\ Same(d)
  BY <1>2 DEF Outstanding
<1>4. Apart'
  BY <1>3, ApartStays DEF Quiet, Same
<1>5. \A d \in Calls : \A o, x : Wrote(d, o, x)' <=> d # c /\ Wrote(d, o, x)
  <2>1. ASSUME NEW d \in Calls, NEW o, NEW x
        PROVE  Wrote(d, o, x)' <=> d # c /\ Wrote(d, o, x)
    BY <1>2 DEF Wrote, Same
  <2> QED
    BY <2>1
<1>6. \A t : Listing(t)' = Listing(t) /\ Present(t)' = Present(t)
  BY <1>2 DEF Listing, Present, RowOf
<1>7. Deleting' => Deleting
  BY <1>3 DEF Deleting, Same
\* The other calls, once the rows are longer or have other values.
<1>8. ASSUME bound' = bound, task[c] \in {"update", "insert"}, DOMAIN rows \subseteq DOMAIN rows',
             \A j \in DOMAIN rows : rows'[j].of = rows[j].of /\ rows'[j].key = rows[j].key,
             UNCHANGED <<edit, menu, ticked, rowErrs, crashed>>
      PROVE  Aimed' /\ Marked'
  <2>1. \A j \in DOMAIN rows : Id(rows'[j]) = Id(rows[j])
    BY <1>8 DEF Id
  <2>2. \A d \in Outstanding' : task[d] \notin {"delete", "reload"}
    BY <1>2, <1>3, <1>8, Crowd
  <2>3. ASSUME NEW d \in Outstanding'
        PROVE  /\ tab'[d] = bound' /\ task'[d] \notin {"delete", "reload"}
               /\ task'[d] = "update" => \E j \in DOMAIN rows' :
                     /\ picks'[d] = {j} /\ meant'[d] = {Id(rows'[j])}
                     /\ Id(from'[d][j]) = Id(rows'[j])
               /\ task'[d] = "insert" /\ stage'[d] = "served" /\ ok'[d] # {} => \E x \in Row :
                     from'[d] = <<x>> /\ ok'[d] = {x.key} /\ x.of = bound' /\ Shows(x)'
    <3>1. Same(d) /\ task[d] \notin {"delete", "reload"} /\ d \in Outstanding
      BY <1>3, <2>2
    <3> QED
      BY <1>2, <1>8, <2>1, <3>1, ShowsStays DEF Same, Quiet, Aimed
  <2>4. Aimed'
    BY <2>3 DEF Aimed, Id
  <2>5. \A m \in ticked \cup rowErrs \cup ({edit, menu} \ {None}) :
           m.at \in DOMAIN rows' /\ Id(rows'[m.at]) = m.id
    BY <1>8, <2>1 DEF Quiet, Marked, OnTheirRows
  <2>6. Marked'
    BY <1>7, <1>8, <2>5 DEF Quiet, Marked, OnTheirRows, Id
  <2> QED
    BY <2>4, <2>6
\* Nothing was written.
<1>9. ASSUME ok[c] = {}, UNCHANGED <<bound, rows, edit, menu, ticked, rowErrs, missed, crashed>>,
             task[c] \in {"update", "insert", "delete"}
      PROVE  Quiet'
  <2>1. \A d \in Calls : \A o, x : Wrote(d, o, x)' <=> Wrote(d, o, x)
    BY <1>5, <1>9 DEF Wrote
  <2>2. \A d \in Outstanding : ok[d] # {} => val'[d] = val[d]
    BY <1>2, <1>9 DEF Same, Outstanding
  <2>3. Copied' /\ Unseen'
    BY <1>2, <1>9, <2>1, <2>2, CopiedStays, UnseenStays DEF Quiet
  <2>4. CASE task[c] = "delete"
    <3>1. Outstanding' = {}
      BY <1>2, <1>3, <2>4, Crowd
    <3>2. Aimed'
      BY <3>1 DEF Aimed
    <3>3. Marked'
      BY <1>7, <1>9 DEF Quiet, Marked, OnTheirRows, Id
    <3> QED
      BY <1>4, <2>3, <3>2, <3>3 DEF Quiet
  <2>5. CASE task[c] # "delete"
    <3>1. task[c] \in {"update", "insert"}
      BY <1>9, <2>5
    <3>2. Aimed' /\ Marked'
      BY <1>8, <1>9, <3>1
    <3> QED
      BY <1>4, <2>3, <3>2 DEF Quiet
  <2> QED
    BY <2>4, <2>5
<1>10. CASE CellFailed(c)
  BY <1>9, <1>10 DEF CellFailed, TaskAnswered
<1>11. CASE CellSaved(c)
  <2>1. PICK i \in ok[c] :
          /\ task[c] = "update" /\ UNCHANGED <<bound, edit, menu, ticked, rowErrs, missed>>
          /\ IF i \in DOMAIN rows
             THEN rows' = [rows EXCEPT ![i].value = val[c]] /\ UNCHANGED crashed
             ELSE crashed' = TRUE /\ UNCHANGED rows
    BY <1>11 DEF CellSaved, TaskAnswered
  <2>2. ok[c] = {i} /\ i \in DOMAIN rows
    BY <1>2, <2>1 DEF Quiet, Aimed, Typed
  <2>3. /\ DOMAIN rows' = DOMAIN rows /\ UNCHANGED crashed
        /\ \A j \in DOMAIN rows : /\ rows'[j].of = rows[j].of /\ rows'[j].key = rows[j].key
                                  /\ rows'[j].value = IF j = i THEN val[c] ELSE rows[j].value
                                  /\ rows'[j].known = rows[j].known
    BY <2>1, <2>2, RowFacts DEF Row
  <2>4. \A j \in DOMAIN rows : There(j)' = There(j)
    BY <1>2, <2>1, <2>3 DEF There
  <2>5. There(i) = val[c] /\ \A x : Wrote(c, "update", x) <=> x = i
    <3>1. \A x : Wrote(c, "update", x) <=> x = i
      BY <1>2, <2>1, <2>2 DEF Wrote
    <3> QED
      BY <2>2, <3>1 DEF Quiet, Copied
  <2>6. /\ \A d \in Calls : d # c => val'[d] = val[d]
        /\ val[c] # None
    BY <1>2, <2>1, GridValsAssumption DEF Same, Typed
  <2>7. \A d \in Calls : \A x : ~Wrote(d, "delete", x) /\ ~Wrote(c, "insert", x)
    BY <1>2, <2>1, Crowd DEF Wrote
  <2>8. Copied'
    <3>1. /\ \A j \in DOMAIN rows' : rows'[j].of = bound'
          /\ \A j, l \in DOMAIN rows' : rows'[j].key = rows'[l].key => j = l
      BY <2>1, <2>3 DEF Quiet, Copied
    <3>2. \A x \in Present(bound)' :
             \/ \E j \in DOMAIN rows' : rows'[j].key = x
             \/ \E d \in Calls : Wrote(d, "insert", x)'
             \/ x \in missed'
      BY <1>5, <1>6, <2>1, <2>3, <2>7 DEF Quiet, Copied
    <3>3. \A j \in DOMAIN rows' :
             (There(j)' # None /\ Shows(rows[j])') \/ \E d \in Calls : Wrote(d, "update", j)'
      <4>1. There(i)' # None /\ Shows(rows[i])'
        BY <2>2, <2>3, <2>4, <2>5, <2>6 DEF Shows, There
      <4>2. \A j \in DOMAIN rows : j # i => (Shows(rows[j])' <=> Shows(rows[j]))
        BY <1>2, <2>1, <2>3 DEF Shows
      <4> QED
        BY <1>5, <2>3, <2>4, <2>5, <2>7, <4>1, <4>2 DEF Quiet, Copied
    <3>4. \A d \in Calls, j \in DOMAIN rows' :
             (Wrote(d, "update", j)' => There(j)' = val'[d]) /\ ~Wrote(d, "delete", j)'
      BY <1>5, <2>3, <2>4, <2>6, <2>7 DEF Quiet, Copied
    <3>5. \A d \in Calls, x \in Keys : Wrote(d, "insert", x)' =>
             /\ table'[bound'][x] # None /\ val'[d] \in {table'[bound'][x], None}
             /\ \A j \in DOMAIN rows' : rows'[j].key # x
             /\ \A e \in Calls : Wrote(e, "insert", x)' => e = d
      BY <1>2, <1>5, <2>1, <2>3, <2>6 DEF Quiet, Copied
    <3> QED
      BY <3>1, <3>2, <3>3, <3>4, <3>5 DEF Copied
  <2>9. Unseen'
    BY <1>2, <1>5, <2>1, <2>3 DEF Quiet, Unseen
  <2> QED
    BY <1>4, <1>8, <2>1, <2>3, <2>8, <2>9 DEF Quiet
<1>12. CASE RowInserted(c)
  <2>1. /\ rows' = (IF ok[c] = {} THEN rows ELSE rows \o from[c])
        /\ UNCHANGED <<bound, edit, menu, ticked, rowErrs, missed, crashed>>
        /\ task[c] = "insert"
    BY <1>12 DEF RowInserted, TaskAnswered
  <2>2. CASE ok[c] = {}
    BY <1>9, <2>1, <2>2
  <2>3. ASSUME NEW r \in Row, NEW k \in Keys, from[c] = <<r>>, ok[c] = {k},
               r.key = k, r.of = bound, Shows(r)
        PROVE  Quiet'
    <3>3. PICK n \in Nat : rows \in Seq(Row) /\ n = Len(rows) /\ DOMAIN rows = 1..n
      BY RowFacts DEF Typed, GridTypeOK
    <3>4. /\ DOMAIN rows' = 1..(n + 1)
          /\ \A j \in DOMAIN rows : rows'[j] = rows[j]
          /\ rows'[n + 1] = r
      <4>1. rows' = rows \o <<r>>
        BY <2>1, <2>3
      <4> QED
        BY <3>3, <4>1
    <3>5. \A j \in DOMAIN rows' : j = n + 1 \/ j \in DOMAIN rows
      BY <3>3, <3>4
    <3>6. n + 1 \notin DOMAIN rows /\ n + 1 \in DOMAIN rows' /\ DOMAIN rows \subseteq DOMAIN rows'
      BY <3>3, <3>4
    <3>7. Wrote(c, "insert", k)
      BY <1>2, <2>1, <2>3 DEF Wrote
    <3>8. table[bound][k] # None /\ (\A j \in DOMAIN rows : rows[j].key # k)
          /\ \A d \in Calls : Wrote(d, "insert", k) => d = c
      BY <3>7 DEF Quiet, Copied
    <3>9. \A j \in DOMAIN rows : There(j)' = There(j)
      BY <1>2, <2>1, <3>4 DEF There
    <3>10. There(n + 1)' # None /\ Shows(r)' /\ r.key = k /\ r.of = bound
      <4>1. Shows(r)' /\ r.key = k /\ r.of = bound
        BY <1>2, <2>1, <2>3, ShowsStays
      <4>2. There(n + 1)' = table'[bound'][rows'[n + 1].key]
        BY DEF There
      <4> QED
        BY <1>2, <2>1, <3>4, <3>8, <4>1, <4>2
    <3>11. \A d \in Calls : d # c => val'[d] = val[d]
      BY <1>2 DEF Same
    <3>12. \A d \in Calls : \A x : ~Wrote(d, "delete", x) /\ ~Wrote(c, "update", x)
      BY <1>2, <2>1, Crowd DEF Wrote
    <3>13. \A x : Wrote(c, "insert", x) => x = k
      BY <2>3 DEF Wrote
    <3>14. \A d \in Calls : ~Wrote(d, "update", n + 1)
      <4>1. \A d \in Outstanding : task[d] = "update" => ok[d] \subseteq DOMAIN rows
        BY DEF Quiet, Aimed, Typed
      <4> QED
        BY <3>6, <4>1 DEF Wrote
    <3>15. Copied'
      <4>1. \A j \in DOMAIN rows' : rows'[j].of = bound'
        BY <2>1, <3>4, <3>5, <3>10 DEF Quiet, Copied
      <4>2. \A j, l \in DOMAIN rows' : rows'[j].key = rows'[l].key => j = l
        BY <3>4, <3>5, <3>8, <3>10 DEF Quiet, Copied
      <4>3. \A x \in Present(bound)' :
               \/ \E j \in DOMAIN rows' : rows'[j].key = x
               \/ \E d \in Calls : Wrote(d, "insert", x)'
               \/ x \in missed'
        <5>1. ASSUME NEW x \in Present(bound), x # k
              PROVE  \/ \E j \in DOMAIN rows : rows[j].key = x
                     \/ \E d \in Calls : Wrote(d, "insert", x)'
                     \/ x \in missed
          BY <1>5, <3>13, <5>1 DEF Quiet, Copied
        <5>2. rows'[n + 1].key = k
          BY <3>4, <3>10
        <5>3. Present(bound)' = Present(bound) /\ missed' = missed
          BY <1>6, <2>1
        <5>4. \A j \in DOMAIN rows : rows'[j].key = rows[j].key /\ j \in DOMAIN rows'
          BY <3>4, <3>6
        <5>5. n + 1 \in DOMAIN rows'
          BY <3>6
        <5> QED
          BY <5>1, <5>2, <5>3, <5>4, <5>5, Zenon
      <4>4. \A j \in DOMAIN rows' :
               (There(j)' # None /\ Shows(rows[j])') \/ \E d \in Calls : Wrote(d, "update", j)'
        <5>1. \A j \in DOMAIN rows :
                 (There(j) # None /\ Shows(rows[j])) \/ \E d \in Calls : d # c /\ Wrote(d, "update", j)
          BY <3>12 DEF Quiet, Copied
        <5>2. \A j \in DOMAIN rows : There(j)' = There(j) /\ (Shows(rows[j])' <=> Shows(rows[j]))
          BY <1>2, <2>1, <3>4, <3>9 DEF Shows
        <5>3. There(n + 1)' # None /\ Shows(rows[n + 1])'
          BY <3>4, <3>10 DEF Shows
        <5>4. ASSUME NEW j \in DOMAIN rows
              PROVE  (There(j)' # None /\ Shows(rows[j])') \/ \E d \in Calls : Wrote(d, "update", j)'
          BY <1>5, <5>1, <5>2
        <5> QED
          BY <3>5, <5>3, <5>4
      <4>5. \A d \in Calls, j \in DOMAIN rows' :
               (Wrote(d, "update", j)' => There(j)' = val'[d]) /\ ~Wrote(d, "delete", j)'
        BY <1>5, <3>5, <3>9, <3>11, <3>12, <3>14 DEF Quiet, Copied
      <4>6. \A d \in Calls, x \in Keys : Wrote(d, "insert", x)' =>
               /\ table'[bound'][x] # None /\ val'[d] \in {table'[bound'][x], None}
               /\ \A j \in DOMAIN rows' : rows'[j].key # x
               /\ \A e \in Calls : Wrote(e, "insert", x)' => e = d
        <5>1. \A d \in Calls, x \in Keys : Wrote(d, "insert", x)' => d # c /\ x # k /\ Wrote(d, "insert", x)
          BY <1>5, <3>8
        <5>2. \A d \in Calls, x \in Keys : Wrote(d, "insert", x) =>
                 /\ table[bound][x] # None /\ val[d] \in {table[bound][x], None}
                 /\ \A j \in DOMAIN rows : rows[j].key # x
                 /\ \A e \in Calls : Wrote(e, "insert", x) => e = d
          BY DEF Quiet, Copied
        <5>3. \A x : x # k /\ (\A j \in DOMAIN rows : rows[j].key # x) =>
                 \A j \in DOMAIN rows' : rows'[j].key # x
          BY <3>4, <3>5, <3>10
        <5>4. ASSUME NEW d \in Calls, NEW x \in Keys, Wrote(d, "insert", x)'
              PROVE  /\ table'[bound'][x] # None /\ val'[d] \in {table'[bound'][x], None}
                     /\ \A j \in DOMAIN rows' : rows'[j].key # x
                     /\ \A e \in Calls : Wrote(e, "insert", x)' => e = d
          <6>1. d # c /\ x # k /\ Wrote(d, "insert", x)
            BY <5>1, <5>4
          <6>2. val'[d] = val[d] /\ table'[bound'][x] = table[bound][x]
            BY <1>2, <2>1, <3>11, <6>1
          <6> QED
            BY <5>1, <5>2, <5>3, <6>1, <6>2
        <5> QED
          BY <5>4
      <4> QED
        BY <4>1, <4>2, <4>3, <4>4, <4>5, <4>6 DEF Copied
    <3>16. Unseen'
      <4>1. \A x \in missed : x # k
        BY <3>7 DEF Quiet, Unseen
      <4> QED
        BY <1>2, <1>5, <2>1, <3>4, <3>5, <3>10, <4>1 DEF Quiet, Unseen
    <3> QED
      BY <1>4, <1>8, <2>1, <3>4, <3>6, <3>15, <3>16 DEF Quiet
  <2>4. CASE ok[c] # {}
    <3>1. PICK r \in Row : /\ from[c] = <<r>> /\ ok[c] = {r.key} /\ r.of = bound
                           /\ Shows(r)
      BY <1>2, <2>1, <2>4 DEF Quiet, Aimed
    <3> QED
      BY <2>3, <3>1 DEF Row
  <2> QED
    BY <2>2, <2>4
<1>13. CASE RowsDeleted(c)
  <2>1. /\ rows' = Without(from[c], ok[c]) /\ ticked' = {}
        /\ UNCHANGED <<bound, edit, menu, missed, crashed>> /\ task[c] = "delete"
        /\ rowErrs' = {[at |-> NewIndex(i, ok[c]), id |-> Id(from[c][i])] : i \in picks[c] \ ok[c]}
    BY <1>13 DEF RowsDeleted, TaskAnswered
  <2>2. from[c] = rows /\ ok[c] \subseteq picks[c] /\ picks[c] \subseteq DOMAIN rows
    BY <1>2, <2>1 DEF Quiet, Aimed, Typed
  <2>3. rows \in Seq(Row) /\ ok[c] \in SUBSET DOMAIN rows
    BY <2>2 DEF Typed, GridTypeOK
  <2>4. /\ \E left : /\ \A i \in DOMAIN rows' : /\ left[i] \in DOMAIN rows \ ok[c]
                                               /\ rows'[i] = rows[left[i]]
                     /\ \A i, j \in DOMAIN rows' : left[i] = left[j] => i = j
        /\ \A i \in DOMAIN rows \ ok[c] : /\ NewIndex(i, ok[c]) \in DOMAIN rows'
                                          /\ rows'[NewIndex(i, ok[c])] = rows[i]
    <3> DEFINE w == Without(rows, ok[c])
    <3>1. /\ \E left : /\ \A i \in DOMAIN w : left[i] \in DOMAIN rows \ ok[c] /\ w[i] = rows[left[i]]
                       /\ \A i, j \in DOMAIN w : left[i] = left[j] => i = j
          /\ \A i \in DOMAIN rows \ ok[c] : /\ NewIndex(i, ok[c]) \in DOMAIN w
                                            /\ w[NewIndex(i, ok[c])] = rows[i]
      BY <2>3, WithoutFacts
    <3>2. rows' = w
      BY <2>1, <2>2
    <3> HIDE DEF w
    <3> QED
      BY <3>1, <3>2
  <2>5. PICK left : /\ \A i \in DOMAIN rows' : /\ left[i] \in DOMAIN rows \ ok[c]
                                               /\ rows'[i] = rows[left[i]]
                    /\ \A i, j \in DOMAIN rows' : left[i] = left[j] => i = j
    BY <2>4
  <2>6. Outstanding' = {}
    BY <1>2, <1>3, <2>1, Crowd
  <2>7. \A d \in Calls : \A o, x : ~Wrote(d, o, x)' /\ (Wrote(d, o, x) => d = c /\ o = "delete")
    BY <1>2, <1>5, <2>1, <2>6, Crowd DEF Wrote
  <2>8. \A i \in DOMAIN rows : Wrote(c, "delete", i) <=> i \in ok[c]
    BY <1>2, <2>1 DEF Wrote
  <2>9. Aimed' /\ edit = None /\ menu = None /\ ~crashed
    BY <1>2, <2>1, <2>6 DEF Aimed, Quiet, Marked, Deleting
  <2>10. \A m \in rowErrs' : m.at \in DOMAIN rows' /\ Id(rows'[m.at]) = m.id
    <3>1. ASSUME NEW i \in picks[c] \ ok[c]
          PROVE  /\ NewIndex(i, ok[c]) \in DOMAIN rows' /\ Id(rows'[NewIndex(i, ok[c])]) = Id(rows[i])
      BY <2>2, <2>4
    <3> QED
      BY <2>1, <2>2, <3>1
  <2>11. Marked'
    <3>1. OnTheirRows(ticked \cup rowErrs \cup ({edit, menu} \ {None}))'
      BY <2>1, <2>9, <2>10 DEF OnTheirRows, Id
    <3> QED
      BY <2>1, <2>9, <3>1 DEF Marked
  <2>12. \A j \in DOMAIN rows' : There(j)' = There(left[j])
    BY <1>2, <2>1, <2>5 DEF There
  <2>13. Copied'
    <3>1. /\ \A j \in DOMAIN rows' : rows'[j].of = bound'
          /\ \A j, l \in DOMAIN rows' : rows'[j].key = rows'[l].key => j = l
      BY <2>1, <2>5 DEF Quiet, Copied
    <3>2. \A x \in Present(bound)' : (\E j \in DOMAIN rows' : rows'[j].key = x) \/ x \in missed'
      <4>1. ASSUME NEW x \in Present(bound), x \notin missed
            PROVE  \E i \in DOMAIN rows \ ok[c] : rows[i].key = x
        <5>1. PICK i \in DOMAIN rows : rows[i].key = x
          BY <2>7, <4>1 DEF Quiet, Copied
        <5>2. There(i) # None
          BY <5>1 DEF There, Present
        <5>3. i \notin ok[c]
          BY <2>8, <5>2 DEF Quiet, Copied
        <5> QED
          BY <5>1, <5>3
      <4> QED
        BY <1>6, <2>1, <2>4, <4>1
    <3>3. \A j \in DOMAIN rows' : There(j)' # None /\ Shows(rows[j])'
      <4>1. \A i \in DOMAIN rows \ ok[c] : There(i) # None /\ Shows(rows[i])
        BY <2>7, <2>8 DEF Quiet, Copied
      <4>2. \A j \in DOMAIN rows' : Shows(rows[j])' <=> Shows(rows[left[j]])
        BY <1>2, <2>1, <2>5 DEF Shows
      <4> QED
        BY <2>5, <2>12, <4>1, <4>2
    <3> QED
      BY <2>7, <3>1, <3>2, <3>3 DEF Copied
  <2>14. Unseen'
    BY <1>2, <2>1, <2>5, <2>7 DEF Quiet, Unseen
  <2> QED
    BY <1>4, <2>9, <2>11, <2>13, <2>14 DEF Quiet
<1>14. CASE Reloaded(c)
  <2>1. /\ bound' = tab[c] /\ rows' = from[c] /\ edit' = None /\ menu' = None /\ ticked' = {}
        /\ rowErrs' = {} /\ missed' = {} /\ UNCHANGED crashed /\ task[c] = "reload"
    BY <1>14 DEF Reloaded, TaskAnswered
  <2>2. tab[c] \in Tables /\ rows' = Listing(tab[c])
    BY <1>2, <2>1 DEF Quiet, Aimed, Typed
  <2>3. \A d \in Outstanding : task[d] = "reload"
    BY <1>2, <2>1, Crowd
  <2>4. \A d \in Calls : \A x : /\ ~Wrote(d, "insert", x)' /\ ~Wrote(d, "update", x)'
                               /\ ~Wrote(d, "delete", x)'
    BY <1>5, <2>3 DEF Wrote
  <2>5. Aimed'
    <3>1. ASSUME NEW d \in Outstanding'
          PROVE  task'[d] = "reload" /\ (stage'[d] = "served" => from'[d] = Listing(tab'[d]))
      BY <1>3, <2>3 DEF Quiet, Aimed, Same
    <3> QED
      BY <1>6, <3>1 DEF Aimed
  <2>6. Marked'
    <3>1. ~Deleting'
      BY <1>3, <2>3 DEF Deleting, Same
    <3> QED
      BY <2>1, <3>1 DEF Quiet, Marked, OnTheirRows
  <2>7. Copied'
    <3>1. /\ \A i \in DOMAIN rows' : /\ rows'[i].key \in Present(tab[c])
                                     /\ rows'[i] = RowOf(tab[c], rows'[i].key)
          /\ \A i, j \in DOMAIN rows' : rows'[i].key = rows'[j].key => i = j
          /\ \A k \in Present(tab[c]) : \E i \in DOMAIN rows' : rows'[i].key = k
      <4> DEFINE L == Listing(tab[c])
      <4>1. /\ \A i \in DOMAIN L : L[i].key \in Present(tab[c]) /\ L[i] = RowOf(tab[c], L[i].key)
            /\ \A i, j \in DOMAIN L : L[i].key = L[j].key => i = j
            /\ \A k \in Present(tab[c]) : \E i \in DOMAIN L : L[i].key = k
        BY <2>2, ListingFacts DEF Typed, GridTypeOK
      <4>2. rows' = L
        BY <2>2
      <4> HIDE DEF L
      <4> QED
        BY <4>1, <4>2
    <3>2. \A t, k : RowOf(t, k).of = t /\ RowOf(t, k).value = table[t][k]
      BY DEF RowOf
    <3>3. \A i \in DOMAIN rows' : rows'[i].of = bound' /\ There(i)' # None /\ Shows(rows[i])'
      BY <1>2, <2>1, <3>1, <3>2 DEF There, Shows, Present
    <3>4. Present(bound)' = Present(tab[c])
      BY <1>2, <2>1 DEF Present
    <3> QED
      BY <2>4, <3>1, <3>3, <3>4 DEF Copied
  <2>8. Unseen'
    BY <2>1 DEF Unseen
  <2> QED
    BY <1>4, <2>5, <2>6, <2>7, <2>8 DEF Quiet
<1>15. CASE DeletionFailed(c)
  BY <1>9, <1>15 DEF DeletionFailed, TaskAnswered
<1> QED
  BY <1>10, <1>11, <1>12, <1>13, <1>14, <1>15

-----------------------------------------------------------------------------
LEMMA GridStep == GridInv /\ [GridNext]_tableVars => GridInv'
<1> SUFFICES ASSUME Typed, ~crossed => Quiet, [GridNext]_tableVars
             PROVE  Typed' /\ (~crossed' => Quiet')
  BY DEF GridInv, Quiet
<1>1. Typed'
  BY TypedStep
<1>2. SUFFICES ASSUME ~crossed'
               PROVE  Quiet'
  BY <1>1
<1>3. ASSUME NEW c \in Calls,
             \/ DeleteSelected(c) \/ DeleteMenuRow(c)
             \/ \E v \in Vals \ Early : CommitEdit(c, v)
             \/ \E v \in (Vals \ Early) \cup {None} : SaveNewRow(c, v)
             \/ \E t \in Tables : Reload(c, t)
      PROVE  Quiet'
  <2>1. PICK o, t, at, v, chosen : Asks(c, o, t, at, v, chosen)
    BY <1>3, ClickAsks
  <2>2. ~crossed
    BY <1>2, <2>1, Sends DEF Asks
  <2> QED
    BY <1>2, <2>1, <2>2, SendQuiet
<1>4. ASSUME NEW c \in Calls,
             \/ Refused(c) \/ UpdateTableRow(c) \/ InsertTableRow(c)
             \/ DeleteTableRows(c) \/ BrowseTableRows(c)
      PROVE  Quiet'
  <2>1. (\E o : Served(c, o)) \/ InsertTableRow(c)
    BY <1>4 DEF Refused, UpdateTableRow, DeleteTableRows, BrowseTableRows
  <2>2. ~crossed
    BY <1>2, <2>1, Serves, Inserts
  <2> QED
    BY <1>2, <1>4, <2>2, ServeQuiet
<1>5. ASSUME NEW c \in Calls,
             \/ CellSaved(c) \/ CellFailed(c) \/ RowInserted(c)
             \/ RowsDeleted(c) \/ DeletionFailed(c) \/ Reloaded(c)
      PROVE  Quiet'
  <2>1. \E o : TaskAnswered(c, o)
    BY <1>5 DEF CellSaved, CellFailed, RowInserted, RowsDeleted, DeletionFailed, Reloaded
  <2>2. ~crossed
    BY <1>2, <2>1, Answers
  <2> QED
    BY <1>2, <1>5, <2>2, AnswerQuiet
<1>6. ASSUME \/ \E i \in DOMAIN rows : StartEdit(i) \/ OpenMenu(i) \/ ToggleRow(i)
             \/ Dismiss \/ GridIdle \/ UNCHANGED tableVars
      PROVE  Quiet'
  <2>1. ~crossed
    <3>1. ASSUME NEW i \in DOMAIN rows, StartEdit(i) \/ OpenMenu(i) \/ ToggleRow(i)
          PROVE  ~crossed
      BY <1>2, <3>1 DEF StartEdit, OpenMenu, ToggleRow
    <3>2. CASE Dismiss \/ GridIdle \/ UNCHANGED tableVars
      BY <1>2, <3>2 DEF Dismiss, GridIdle, tableVars
    <3> QED
      BY <1>6, <3>1, <3>2
  <2> QED
    BY <1>2, <1>6, <2>1, MarksQuiet
<1>7. ASSUME NEW c \in Calls, RowReadBack(c) \/ RowSubmitted(c) \/ RowUnread(c)
      PROVE  Quiet'
  <2>1. ~crossed
    BY <1>2, <1>7, Resolves
  <2> QED
    BY <1>7, <2>1, ResolveQuiet
<1> QED
  BY <1>3, <1>4, <1>5, <1>6, <1>7 DEF GridNext, GridClicks, GridServer, GridAnswers

LEMMA GridStart == GridInit => GridInv
<1> SUFFICES ASSUME GridInit
             PROVE  Typed /\ Quiet
  BY DEF GridInv, Quiet
<1> USE DEF GridInit
<1>1. Outstanding = {} /\ \A c \in Calls : \A o, x : ~Wrote(c, o, x)
  BY DEF Outstanding, Wrote
<1>2. GridTypeOK
  <2>1. table \in [Tables -> [Keys -> Vals \cup {None}]]
    BY GridValsAssumption
  <2>2. rows \in Seq(Row)
    BY <2>1, ListingFacts
  <2>3. <<>> \in Seq(Row)
    BY EmptySeq
  <2> QED
    BY <2>1, <2>2, <2>3 DEF GridTypeOK
<1>3. Typed
  BY <1>1, <1>2 DEF Typed
<1>4. Apart /\ Aimed
  BY <1>1 DEF Apart, Aimed
<1>5. Marked
  BY <1>1 DEF Marked, OnTheirRows, Deleting
<1>6. Copied
  <2>1. /\ \A i \in DOMAIN rows : rows[i].key \in Present(bound) /\ rows[i] = RowOf(bound, rows[i].key)
        /\ \A i, j \in DOMAIN rows : rows[i].key = rows[j].key => i = j
        /\ \A k \in Present(bound) : \E i \in DOMAIN rows : rows[i].key = k
    BY <1>2, ListingFacts DEF GridTypeOK
  <2>2. \A t, k : RowOf(t, k).of = t /\ RowOf(t, k).value = table[t][k]
    BY DEF RowOf
  <2> QED
    BY <1>1, <2>1, <2>2 DEF Copied, There, Shows, Present
<1>7. Unseen
  BY DEF Unseen
<1> QED
  BY <1>3, <1>4, <1>5, <1>6, <1>7 DEF Quiet

LEMMA GridIsInv == GridSpec => []GridInv
<1> QED
  BY GridStart, GridStep, PTL DEF GridSpec

-----------------------------------------------------------------------------
\* The statements a call sends are about the rows, of the table, that the
\* user chose, if no deletion or reload was in flight beside something else:
\* commitCellEdit, performDeleteRows and what moves the rows under them.
LEMMA WritesHit == GridInv => WritesHitChosenRows
<1> SUFFICES ASSUME GridInv, NEW c \in Outstanding, ~crossed, task[c] \in {"update", "delete"}
             PROVE  /\ picks[c] \subseteq DOMAIN from[c]
                    /\ {<<tab[c], KeyAt(c, i)>> : i \in picks[c]} = meant[c]
  BY DEF WritesHitChosenRows
<1>1. picks[c] \subseteq DOMAIN from[c] /\ tab[c] = bound
  BY DEF GridInv, Typed, Aimed
<1>2. \A i \in DOMAIN rows : rows[i].of = bound /\ Id(rows[i]) = <<bound, rows[i].key>>
  BY DEF GridInv, Copied, Id
<1>3. CASE task[c] = "update"
  <2>1. PICK i \in DOMAIN rows : /\ picks[c] = {i} /\ meant[c] = {Id(rows[i])}
                                 /\ Id(from[c][i]) = Id(rows[i])
    BY <1>3 DEF GridInv, Aimed
  <2>2. <<tab[c], KeyAt(c, i)>> = Id(rows[i])
    BY <1>1, <1>2, <2>1 DEF KeyAt, Id
  <2> QED
    BY <1>1, <2>1, <2>2
<1>4. CASE task[c] = "delete"
  <2>1. from[c] = rows /\ meant[c] = {Id(rows[i]) : i \in picks[c]}
    BY <1>4 DEF GridInv, Aimed
  <2>2. \A i \in picks[c] : <<tab[c], KeyAt(c, i)>> = Id(rows[i])
    BY <1>1, <1>2, <2>1 DEF KeyAt
  <2> QED
    BY <1>1, <2>1, <2>2
<1> QED
  BY <1>3, <1>4

\* At rest the grid's own copy of the rows has each row of the table once, but
\* for those that were inserted under an error.
LEMMA GridShows == GridInv => GridShowsTable
<1> SUFFICES ASSUME GridInv
             PROVE  GridShowsTable
  OBVIOUS
<1>1. GridTypeOK
  BY DEF GridInv, Typed
<1> DEFINE expected == Present(bound) \ missed
<1>2. ASSUME ~crossed, Outstanding = {}
      PROVE  /\ {Id(rows[i]) : i \in DOMAIN rows} = {bound} \X expected
             /\ Len(rows) = Cardinality(expected)
             /\ \A i \in DOMAIN rows : Shows(rows[i])
  <2>1. /\ \A i \in DOMAIN rows : rows[i].of = bound /\ There(i) # None /\ Shows(rows[i])
        /\ \A i, j \in DOMAIN rows : rows[i].key = rows[j].key => i = j
        /\ \A k \in expected : \E i \in DOMAIN rows : rows[i].key = k
    BY <1>2 DEF GridInv, Copied, Wrote
  <2>2. \A i \in DOMAIN rows : rows[i] \in Row
    BY RowFacts DEF GridInv
  <2>3. \A i \in DOMAIN rows : rows[i].key \in expected
    <3>1. \A i \in DOMAIN rows : rows[i].key \in Present(bound)
      BY <2>1, <2>2 DEF There, Present, Row
    <3>2. \A i \in DOMAIN rows : rows[i].key \notin missed
      BY <1>2 DEF GridInv, Unseen
    <3> QED
      BY <3>1, <3>2
  <2>4. \A i \in DOMAIN rows : Id(rows[i]) = <<bound, rows[i].key>>
    BY <2>1 DEF Id
  <2> HIDE DEF expected
  <2>5. {Id(rows[i]) : i \in DOMAIN rows} = {bound} \X expected
    BY <2>1, <2>3, <2>4
  <2> DEFINE f == [i \in DOMAIN rows |-> rows[i].key]
  <2>6. f \in [DOMAIN rows -> expected]
    BY <2>3
  <2>7. \A i \in DOMAIN rows : f[i] = rows[i].key
    OBVIOUS
  <2> HIDE DEF f
  <2>8. f \in Bijection(DOMAIN rows, expected)
    BY <2>1, <2>6, <2>7 DEF Bijection, Injection, Surjection, IsInjective
  <2>9. IsFiniteSet(DOMAIN rows) /\ Cardinality(DOMAIN rows) = Len(rows)
    <3>1. PICK n \in Nat : n = Len(rows) /\ DOMAIN rows = 1..n
      BY RowFacts DEF GridInv
    <3>2. IsFiniteSet(1..n) /\ Cardinality(1..n) = IF 1 > n THEN 0 ELSE n - 1 + 1
      BY FS_Interval
    <3> QED
      BY <3>1, <3>2
  <2>10. Cardinality(expected) = Cardinality(DOMAIN rows)
    BY <2>8, <2>9, FS_Bijection DEF ExistsBijection
  <2> QED
    BY <2>1, <2>5, <2>9, <2>10
<1>3. ~crossed => ~crashed /\ OnTheirRows(rowErrs)
  BY DEF GridInv, Marked, OnTheirRows
<1> QED
  BY <1>1, <1>2, <1>3 DEF GridShowsTable

\* Each write of the grid goes to the rows the user chose.
THEOREM GridWritesHit == GridSpec => []WritesHitChosenRows
<1> QED
  BY WritesHit, GridIsInv, PTL

\* At rest the grid shows what the table holds, and each error at its row.
THEOREM GridIsTrue == GridSpec => []GridShowsTable
<1> QED
  BY GridShows, GridIsInv, PTL

=============================================================================
