---------------------------- MODULE FilesProofs -----------------------------
(***************************************************************************)
(* The files the app writes of the target database.  For tables of any     *)
(* size, pages of any length and whatever other sessions do meanwhile: an  *)
(* export read back is the table, and validation agrees with the database. *)
(* For schemas of any tables, names and keys: the Prisma schema, the       *)
(* Drizzle schema and the diagram resolve, and tell the keys as they are.  *)
(***************************************************************************)
EXTENDS TableFiles, SchemaFiles, FiniteSetTheorems, SequenceTheorems,
        WellFoundedInduction, TLAPS

\* A row the database may hold in columns `cs`.
RowsOf(cs) == {r \in [DOMAIN cs -> Cells] : \A i \in DOMAIN cs : Accepts(cs[i], r[i])}

-----------------------------------------------------------------------------
(***************************************************************************)
(* Rows by name.  The columns' names are distinct, so nothing is lost.     *)
(***************************************************************************)
LEMMA ListingFacts ==
  ASSUME NEW cs, Listing(cs)
  PROVE  /\ Len(cs) \in Nat /\ DOMAIN cs = 1..Len(cs)
         /\ \A i \in DOMAIN cs : cs[i] \in Column
         /\ NameSet(cs) = {cs[i].name : i \in DOMAIN cs}
         /\ \A i \in DOMAIN cs : ColumnNamed(cs, cs[i].name) = cs[i]
<1>1. /\ Len(cs) \in Nat /\ DOMAIN cs = 1..Len(cs)
      /\ \A i \in DOMAIN cs : cs[i] \in Column
  BY DEF Listing
<1>2. NameSet(cs) = {cs[i].name : i \in DOMAIN cs}
  BY DEF NameSet, NamesOf, ToSet
<1>3. ASSUME NEW i \in DOMAIN cs
      PROVE  ColumnNamed(cs, cs[i].name) = cs[i]
  BY DEF ColumnNamed, Listing
<1> QED
  BY <1>1, <1>2, <1>3

LEMMA NamedValue ==
  ASSUME NEW cs, Listing(cs), NEW r, NEW i \in DOMAIN cs
  PROVE  Named(NamesOf(cs), r)[cs[i].name] = IF i \in DOMAIN r THEN r[i] ELSE "null"
<1> DEFINE IsIt(j) == /\ NamesOf(cs)[j] = cs[i].name
                      /\ \A k \in DOMAIN NamesOf(cs) : NamesOf(cs)[k] = cs[i].name => k <= j
<1>1. /\ DOMAIN NamesOf(cs) = DOMAIN cs
      /\ \A k \in DOMAIN cs : NamesOf(cs)[k] = cs[k].name
  BY DEF NamesOf
<1>2. \A j \in DOMAIN cs : IsIt(j) <=> j = i
  <2>1. DOMAIN cs \subseteq Nat
    BY ListingFacts
  <2> QED
    BY <1>1, <2>1 DEF Listing
<1>3. cs[i].name \in ToSet(NamesOf(cs))
  BY <1>1 DEF ToSet
<1>4. (CHOOSE j \in DOMAIN NamesOf(cs) : IsIt(j)) = i
  BY <1>1, <1>2
<1> QED
  BY <1>3, <1>4 DEF Named

\* The rows of a table by name are told apart by their values alone.
LEMMA NamedEqual ==
  ASSUME NEW cs, Listing(cs), NEW r, NEW s,
         \A i \in DOMAIN cs : (IF i \in DOMAIN r THEN r[i] ELSE "null") =
                              (IF i \in DOMAIN s THEN s[i] ELSE "null")
  PROVE  Named(NamesOf(cs), r) = Named(NamesOf(cs), s)
<1>1. DOMAIN Named(NamesOf(cs), r) = NameSet(cs) /\ DOMAIN Named(NamesOf(cs), s) = NameSet(cs)
  BY DEF Named, NameSet
<1>2. ASSUME NEW n \in NameSet(cs)
      PROVE  Named(NamesOf(cs), r)[n] = Named(NamesOf(cs), s)[n]
  <2>1. PICK i \in DOMAIN cs : n = cs[i].name
    BY ListingFacts
  <2> QED
    BY <2>1, NamedValue
<1>3. /\ Named(NamesOf(cs), r) = [n \in NameSet(cs) |-> Named(NamesOf(cs), r)[n]]
      /\ Named(NamesOf(cs), s) = [n \in NameSet(cs) |-> Named(NamesOf(cs), s)[n]]
  BY DEF Named, NameSet
<1> QED
  BY <1>1, <1>2, <1>3

-----------------------------------------------------------------------------
(***************************************************************************)
(* A file is read as it was written.                                       *)
(***************************************************************************)
\* Without a blank line, all records are kept.
LEMMA RecordsKept ==
  ASSUME NEW n \in Nat, NEW S, NEW body \in [1..n -> S],
         \A i \in 1..n : body[i] # <<[text |-> Blank, quoted |-> FALSE]>>
  PROVE  Records(body) = body
<1> DEFINE kept == {i \in DOMAIN body : body[i] # <<[text |-> Blank, quoted |-> FALSE]>>}
<1> DEFINE Nth(m) == CHOOSE i \in kept : Cardinality({k \in kept : k <= i}) = m
<1>1. DOMAIN body = 1..n
  OBVIOUS
<1>2. ASSUME NEW m \in Nat
      PROVE  Cardinality(1..m) = m
  <2>1. Cardinality(1..m) = IF 1 > m THEN 0 ELSE m - 1 + 1
    BY FS_Interval
  <2> QED
    BY <2>1
<1>3. kept = 1..n
  BY <1>1
<1>4. Cardinality(kept) = n
  BY <1>2, <1>3
<1>5. ASSUME NEW i \in 1..n
      PROVE  Cardinality({k \in kept : k <= i}) = i
  <2>1. {k \in kept : k <= i} = 1..i
    BY <1>3
  <2>2. i \in Nat
    OBVIOUS
  <2> HIDE DEF kept
  <2> QED
    BY <1>2, <2>1, <2>2
<1>6. ASSUME NEW m \in 1..n
      PROVE  Nth(m) = m
  <2> HIDE DEF kept
  <2> QED
    BY <1>3, <1>5
<1>7. Records(body) = [m \in 1..Cardinality(kept) |-> body[Nth(m)]]
  BY DEF Records
<1> HIDE DEF kept, Nth
<1>8. Records(body) = [m \in 1..n |-> body[m]]
  BY <1>4, <1>6, <1>7
<1> QED
  BY <1>8

LEMMA CSVReadsBack ==
  ASSUME NEW cs, Listing(cs), NEW got \in Seq([DOMAIN cs -> Cells]),
         \A i \in DOMAIN got : got[i] # <<"null">>
  PROVE  ParseCSV(ToCSV(NamesOf(cs), got)) =
            [columns |-> NameSet(cs),
             rows |-> [i \in DOMAIN got |-> Named(NamesOf(cs), got[i])]]
<1> DEFINE names == NamesOf(cs)
<1> DEFINE f == ToCSV(names, got)
<1> DEFINE Cell(field) == IF field.text # Blank THEN field.text
                          ELSE IF field.quoted THEN "empty" ELSE "null"
<1> DEFINE Read(record) == [k \in DOMAIN record |-> Cell(record[k])]
<1>1. /\ DOMAIN names = DOMAIN cs /\ DOMAIN cs = 1..Len(cs) /\ Len(cs) \in Nat
      /\ \A k \in DOMAIN cs : names[k] = cs[k].name
  BY ListingFacts DEF NamesOf
<1>2. /\ f.names = names
      /\ f.body = [i \in DOMAIN got |->
                     [k \in DOMAIN names |-> EncodeCSVField(Named(names, got[i])[names[k]])]]
  BY DEF ToCSV
<1>3. /\ DOMAIN got = 1..Len(got) /\ Len(got) \in Nat
      /\ \A i \in DOMAIN got : got[i] \in [DOMAIN cs -> Cells]
  OBVIOUS
<1>4. ASSUME NEW v \in Cells
      PROVE  Cell(EncodeCSVField(v)) = v
  BY DEF Cells, EncodeCSVField, Blank
<1> HIDE DEF Cell, f
<1>5. ASSUME NEW i \in DOMAIN got
      PROVE  /\ DOMAIN f.body[i] = DOMAIN cs
             /\ \A k \in DOMAIN cs : Cell(f.body[i][k]) = got[i][k]
  <2>1. /\ DOMAIN f.body[i] = DOMAIN cs
        /\ \A k \in DOMAIN cs : f.body[i][k] = EncodeCSVField(Named(names, got[i])[names[k]])
    BY <1>1, <1>2, <1>5
  <2>2. ASSUME NEW k \in DOMAIN cs
        PROVE  Named(names, got[i])[names[k]] = got[i][k] /\ got[i][k] \in Cells
    BY <1>1, <1>3, <1>5, NamedValue
  <2> QED
    BY <1>4, <2>1, <2>2
<1>6. Records(f.body) = f.body
  <2> DEFINE S == {f.body[i] : i \in DOMAIN got}
  <2>1. f.body \in [1..Len(got) -> S]
    BY <1>2, <1>3
  <2>2. ASSUME NEW i \in 1..Len(got)
        PROVE  f.body[i] # <<[text |-> Blank, quoted |-> FALSE]>>
    <3> DEFINE blank == [text |-> Blank, quoted |-> FALSE]
    <3>1. i \in DOMAIN got
      BY <1>3
    <3>2. Cell(blank) = "null"
      BY DEF Cell
    <3> HIDE DEF blank
    <3> SUFFICES ASSUME f.body[i] = <<blank>>
                 PROVE  FALSE
      BY DEF blank
    <3>3. DOMAIN f.body[i] = 1..1 /\ f.body[i][1] = blank
      OBVIOUS
    <3>4. DOMAIN cs = 1..1 /\ Cell(f.body[i][1]) = got[i][1]
      <4>1. DOMAIN f.body[i] = DOMAIN cs
        BY <1>5, <3>1
      <4>2. DOMAIN cs = 1..1 /\ 1 \in DOMAIN cs
        BY <3>3, <4>1
      <4> QED
        BY <1>5, <3>1, <4>2, Zenon
    <3>5. got[i] \in [1..1 -> Cells] /\ got[i][1] = "null"
      BY <1>3, <3>1, <3>2, <3>3, <3>4
    <3>6. got[i] = <<"null">>
      BY <3>5
    <3> QED
      BY <3>1, <3>6
  <2> HIDE DEF S
  <2> QED
    BY <1>3, <2>1, <2>2, RecordsKept
<1>7. DOMAIN f.body = DOMAIN got
  BY <1>2
<1>8. ASSUME NEW i \in DOMAIN got
      PROVE  Named(names, Read(f.body[i])) = Named(names, got[i])
  <2>1. DOMAIN got[i] = DOMAIN cs
    BY <1>3, <1>8
  <2>2. DOMAIN Read(f.body[i]) = DOMAIN cs /\ \A k \in DOMAIN cs : Read(f.body[i])[k] = got[i][k]
    BY <1>5, <1>8
  <2> HIDE DEF Read, names
  <2>3. Named(NamesOf(cs), Read(f.body[i])) = Named(NamesOf(cs), got[i])
    BY <2>1, <2>2, NamedEqual
  <2> QED
    BY <2>3 DEF names
<1>9. ParseCSV(f) = [columns |-> ToSet(f.names),
                     rows |-> [i \in DOMAIN Records(f.body) |->
                                 Named(f.names, Read(Records(f.body)[i]))]]
  BY DEF ParseCSV, Cell
<1>10. ToSet(f.names) = NameSet(cs)
  BY <1>2 DEF NameSet
<1> HIDE DEF Read, names
<1>11. DOMAIN Records(f.body) = DOMAIN got
  BY <1>6, <1>7
<1>12. ASSUME NEW i \in DOMAIN got
       PROVE  Named(f.names, Read(Records(f.body)[i])) = Named(names, got[i])
  BY <1>2, <1>6, <1>8, <1>12
<1>13. ParseCSV(f) = [columns |-> NameSet(cs), rows |-> [i \in DOMAIN got |-> Named(names, got[i])]]
  BY <1>9, <1>10, <1>11, <1>12
<1> QED
  BY <1>13 DEF f, names

LEMMA JSONReadsBack ==
  ASSUME NEW cs, Listing(cs), NEW got \in Seq(RowsOf(cs))
  PROVE  /\ ParseJSON(ToJSON(NamesOf(cs), got)).columns \subseteq NameSet(cs)
         /\ ParseJSON(ToJSON(NamesOf(cs), got)).rows =
              [i \in DOMAIN got |-> Named(NamesOf(cs), got[i])]
<1>1. \A i \in DOMAIN got : DOMAIN Named(NamesOf(cs), got[i]) = NameSet(cs)
  BY DEF Named, NameSet
<1> QED
  BY <1>1 DEF ParseJSON, ToJSON

-----------------------------------------------------------------------------
(***************************************************************************)
(* The table.  Whoever writes to it, its rows are what its columns accept. *)
(***************************************************************************)
TableTyped == Listing(cols) /\ lines \in Seq(RowsOf(cols))

LEMMA RemovedAt ==
  ASSUME NEW S, NEW s \in Seq(S), NEW i \in 1..Len(s)
  PROVE  /\ RemoveAt(s, i) \in Seq(S)
         /\ Len(RemoveAt(s, i)) = Len(s) - 1
         /\ \A k \in 1..Len(s) - 1 : RemoveAt(s, i)[k] = IF k < i THEN s[k] ELSE s[k + 1]
<1> DEFINE a == SubSeq(s, 1, i - 1)
<1> DEFINE b == SubSeq(s, i + 1, Len(s))
<1>1. /\ a \in Seq(S) /\ Len(a) = i - 1
      /\ \A k \in 1..i - 1 : a[k] = s[k]
  BY SubSeqProperties
<1>2. /\ b \in Seq(S) /\ Len(b) = Len(s) - i
      /\ \A k \in 1..Len(s) - i : b[k] = s[i + k]
  BY SubSeqProperties
<1>3. RemoveAt(s, i) = a \o b
  BY DEF RemoveAt
<1>4. Len(s) \in Nat /\ i \in Nat /\ 1 <= i /\ i <= Len(s)
  OBVIOUS
<1> HIDE DEF a, b
<1>5. /\ a \o b \in Seq(S) /\ Len(a \o b) = Len(s) - 1
      /\ \A k \in 1..Len(s) - 1 : (a \o b)[k] = IF k <= i - 1 THEN a[k] ELSE b[k - (i - 1)]
  <2>1. /\ a \o b \in Seq(S) /\ Len(a \o b) = Len(a) + Len(b)
        /\ \A k \in 1..Len(a) + Len(b) :
              (a \o b)[k] = IF k <= Len(a) THEN a[k] ELSE b[k - Len(a)]
    BY <1>1, <1>2, ConcatProperties
  <2>2. Len(a) + Len(b) = Len(s) - 1
    BY <1>1, <1>2, <1>4
  <2> QED
    BY <1>1, <2>1, <2>2
<1>6. ASSUME NEW k \in 1..Len(s) - 1
      PROVE  (a \o b)[k] = IF k < i THEN s[k] ELSE s[k + 1]
  <2>1. CASE k < i
    BY <1>1, <1>4, <1>5, <2>1
  <2>2. CASE ~(k < i)
    <3>1. k - (i - 1) \in 1..Len(s) - i /\ i + (k - (i - 1)) = k + 1 /\ ~(k <= i - 1)
      BY <1>4, <2>2
    <3>2. (a \o b)[k] = b[k - (i - 1)]
      BY <1>5, <3>1
    <3>3. b[k - (i - 1)] = s[k + 1]
      BY <1>2, <3>1
    <3> QED
      BY <2>2, <3>2, <3>3
  <2> QED
    BY <2>1, <2>2
<1> QED
  BY <1>3, <1>5, <1>6

LEMMA InsertedAt ==
  ASSUME NEW S, NEW s \in Seq(S), NEW i \in 1..Len(s) + 1, NEW e \in S
  PROVE  /\ InsertAt(s, i, e) \in Seq(S)
         /\ i > Len(s) => InsertAt(s, i, e) = Append(s, e)
<1> DEFINE a == SubSeq(s, 1, i - 1)
<1> DEFINE b == SubSeq(s, i, Len(s))
<1>1. /\ a \in Seq(S) /\ Len(a) = i - 1
      /\ \A k \in 1..i - 1 : a[k] = s[k]
  BY SubSeqProperties
<1>2. b \in Seq(S) /\ (i > Len(s) => b = <<>>)
  BY SubSeqProperties
<1>3. InsertAt(s, i, e) = (a \o <<e>>) \o b
  BY DEF InsertAt
<1>4. i > Len(s) => a = s
  BY <1>1, SeqEqual
<1> HIDE DEF a, b
<1> QED
  BY <1>1, <1>2, <1>3, <1>4

\* What a column accepts is a cell.
LEMMA AcceptedIsCell ==
  ASSUME NEW c \in Column, NEW v, Accepts(c, v)
  PROVE  v \in Cells
<1>1. c.type \in {"integer", "numeric", "boolean", "datetime", "text"}
  BY DEF Column
<1> QED
  BY <1>1 DEF Accepts, Literals, Cells

LEMMA TypicalIsAccepted ==
  ASSUME Listing(cols), NEW r \in TypicalRows
  PROVE  r \in RowsOf(cols)
<1>1. ASSUME NEW i \in DOMAIN cols
      PROVE  Accepts(cols[i], r[i])
  <2>1. cols[i].type \in {"integer", "numeric", "boolean", "datetime", "text"}
    BY ListingFacts DEF Column
  <2>2. r[i] \in Typical(cols[i])
    BY DEF TypicalRows
  <2> QED
    BY <2>1, <2>2 DEF Typical, Accepts, Literals, Cells
<1>2. \A i \in DOMAIN cols : r[i] \in Cells
  BY <1>1, AcceptedIsCell, ListingFacts
<1>3. r \in [DOMAIN cols -> Cells]
  BY <1>2 DEF TypicalRows
<1> QED
  BY <1>1, <1>3 DEF RowsOf

LEMMA TableInit == FilesInit => TableTyped
<1> SUFFICES ASSUME FilesInit
             PROVE  TableTyped
  OBVIOUS
<1>1. Listing(cols)
  BY FilesAssumption DEF FilesInit
<1>2. PICK n \in 0..MaxLines : lines \in [1..n -> TypicalRows]
  BY DEF FilesInit
<1>3. n \in Nat
  BY FilesAssumption
<1>4. lines \in [1..n -> RowsOf(cols)]
  BY <1>1, <1>2, TypicalIsAccepted
<1> QED
  BY <1>1, <1>3, <1>4 DEF TableTyped

\* The rows of an import are added as the database has taken them.
LEMMA ImportTyped ==
  ASSUME TableTyped, NEW j, BulkInsert(j), IsList(j.parsed.rows)
  PROVE  TableTyped'
<1>1. CASE lines' = lines
  BY <1>1 DEF TableTyped, BulkInsert
<1>2. CASE DatabaseTakes(j.parsed, cols) /\
           lines' = lines \o [k \in DOMAIN j.parsed.rows |->
                                Inserted(j.parsed.rows[k], cols, j.parsed)]
  <2> DEFINE new == [k \in DOMAIN j.parsed.rows |-> Inserted(j.parsed.rows[k], cols, j.parsed)]
  <2>1. ASSUME NEW k \in DOMAIN j.parsed.rows
        PROVE  Inserted(j.parsed.rows[k], cols, j.parsed) \in RowsOf(cols)
    <3> DEFINE r == Inserted(j.parsed.rows[k], cols, j.parsed)
    <3>1. \A i \in DOMAIN cols : Accepts(cols[i], r[i])
      BY <1>2 DEF DatabaseTakes
    <3>2. \A i \in DOMAIN cols : r[i] \in Cells
      <4> HIDE DEF r
      <4> QED
        BY <3>1, AcceptedIsCell, ListingFacts DEF TableTyped
    <3>3. r \in [DOMAIN cols -> Cells]
      BY <3>2 DEF Inserted
    <3> QED
      BY <3>1, <3>3 DEF RowsOf
  <2>2. new \in [1..Len(j.parsed.rows) -> RowsOf(cols)] /\ Len(j.parsed.rows) \in Nat
    BY <2>1 DEF IsList
  <2>3. new \in Seq(RowsOf(cols))
    BY <2>2
  <2> HIDE DEF new
  <2>4. lines' \in Seq(RowsOf(cols)) /\ cols' = cols
    BY <1>2, <2>3 DEF TableTyped, BulkInsert, new
  <2> QED
    BY <2>4 DEF TableTyped
<1> QED
  BY <1>1, <1>2 DEF BulkInsert

LEMMA OthersTyped ==
  ASSUME TableTyped,
         \/ \E i \in 1..Len(lines) + 1 : OtherInserts(i)
         \/ \E i \in DOMAIN lines : OtherDeletes(i)
         \/ OtherAddsColumn
         \/ \E c \in DOMAIN cols : OtherDropsColumn(c)
  PROVE  TableTyped'
<1> USE DEF Others
<1>1. ASSUME NEW i \in 1..Len(lines) + 1, OtherInserts(i)
      PROVE  TableTyped'
  <2>1. PICK r \in TypicalRows : lines' = InsertAt(lines, i, r) /\ cols' = cols
    BY <1>1 DEF OtherInserts
  <2>2. r \in RowsOf(cols)
    BY <2>1, TypicalIsAccepted DEF TableTyped
  <2> QED
    BY <2>1, <2>2, InsertedAt DEF TableTyped
<1>2. ASSUME NEW i \in DOMAIN lines, OtherDeletes(i)
      PROVE  TableTyped'
  <2>1. lines' = RemoveAt(lines, i) /\ cols' = cols /\ i \in 1..Len(lines)
    BY <1>2 DEF OtherDeletes, TableTyped
  <2> QED
    BY <2>1, RemovedAt DEF TableTyped
<1>3. ASSUME OtherAddsColumn
      PROVE  TableTyped'
  <2> DEFINE n == Len(cols)
  <2>1. /\ cols' = Append(cols, Spare)
        /\ lines' = [k \in DOMAIN lines |-> Append(lines[k], Default(Spare))]
        /\ Spare.name \notin NameSet(cols)
    BY <1>3 DEF OtherAddsColumn
  <2>2. cols \in Seq(Column) /\ n \in Nat /\ DOMAIN cols = 1..n
    BY DEF TableTyped, Listing
  <2>3. Spare \in Column /\ (Spare.default => Spare.type = "text")
    <3>1. <<Spare>>[1] = Spare /\ 1 \in DOMAIN <<Spare>>
      OBVIOUS
    <3> QED
      BY <3>1, FilesAssumption, ListingFacts DEF Listing
  <2>4. /\ cols' \in Seq(Column) /\ DOMAIN cols' = 1..n + 1
        /\ cols'[n + 1] = Spare /\ \A i \in 1..n : cols'[i] = cols[i]
    BY <2>1, <2>2, <2>3
  <2>5. \A i \in 1..n : cols[i].name # Spare.name
    BY <2>1, <2>2, ListingFacts DEF TableTyped
  <2>6. Listing(cols')
    <3>1. ASSUME NEW i \in 1..n + 1, NEW k \in 1..n + 1, cols'[i].name = cols'[k].name
          PROVE  i = k
      <4>1. CASE i \in 1..n /\ k \in 1..n
        BY <2>2, <2>4, <3>1, <4>1 DEF TableTyped, Listing
      <4>2. CASE i = n + 1 \/ k = n + 1
        BY <2>2, <2>4, <2>5, <3>1, <4>2
      <4> QED
        BY <2>2, <4>1, <4>2
    <3>2. \A i \in 1..n + 1 : cols'[i].default => cols'[i].type = "text"
      BY <2>2, <2>3, <2>4 DEF TableTyped, Listing
    <3> QED
      BY <2>4, <3>1, <3>2 DEF Listing
  <2>7. Accepts(Spare, Default(Spare))
    BY <2>3, FilesAssumption DEF Accepts, Default, Literals, Cells, Column
  <2>8. ASSUME NEW r \in RowsOf(cols)
        PROVE  Append(r, Default(Spare)) \in RowsOf(cols')
    <3> DEFINE x == Default(Spare)
    <3>1. x \in Cells
      BY <2>3, <2>7, AcceptedIsCell
    <3>2. r \in [1..n -> Cells] /\ \A i \in 1..n : Accepts(cols[i], r[i])
      BY <2>2 DEF RowsOf
    <3>3. r \in Seq(Cells) /\ Len(r) = n
      BY <2>2, <3>2
    <3> HIDE DEF x
    <3>4. /\ Append(r, x) \in [1..n + 1 -> Cells]
          /\ Append(r, x)[n + 1] = x /\ \A i \in 1..n : Append(r, x)[i] = r[i]
      <4>1. /\ Append(r, x) \in Seq(Cells) /\ Len(Append(r, x)) = n + 1
            /\ Append(r, x)[n + 1] = x /\ \A i \in 1..n : Append(r, x)[i] = r[i]
        BY <2>2, <3>1, <3>3, AppendProperties
      <4>2. Append(r, x) \in [1..Len(Append(r, x)) -> Cells]
        BY <4>1, LenProperties
      <4> QED
        BY <4>1, <4>2
    <3>5. \A i \in 1..n + 1 : Accepts(cols'[i], Append(r, x)[i])
      BY <2>2, <2>4, <2>7, <3>2, <3>4 DEF x
    <3> QED
      BY <2>4, <3>4, <3>5 DEF RowsOf, x
  <2>9. lines' \in [1..Len(lines) -> RowsOf(cols')] /\ Len(lines) \in Nat
    BY <2>1, <2>8 DEF TableTyped
  <2> QED
    BY <2>6, <2>9 DEF TableTyped
<1>4. ASSUME NEW c \in DOMAIN cols, OtherDropsColumn(c)
      PROVE  TableTyped'
  <2> DEFINE n == Len(cols)
  <2> DEFINE At(i) == IF i < c THEN i ELSE i + 1
  <2>1. /\ cols' = RemoveAt(cols, c)
        /\ lines' = [k \in DOMAIN lines |-> RemoveAt(lines[k], c)]
    BY <1>4 DEF OtherDropsColumn
  <2>2. cols \in Seq(Column) /\ n \in Nat /\ DOMAIN cols = 1..n /\ c \in 1..n
    BY DEF TableTyped, Listing
  <2>3. \A i \in 1..n - 1 : At(i) \in 1..n /\ \A k \in 1..n - 1 : At(i) = At(k) => i = k
    BY <2>2
  <2>4. /\ cols' \in Seq(Column) /\ DOMAIN cols' = 1..n - 1
        /\ \A i \in 1..n - 1 : cols'[i] = cols[At(i)]
    <3>1. /\ cols' \in Seq(Column) /\ Len(cols') = n - 1
          /\ \A i \in 1..n - 1 : cols'[i] = IF i < c THEN cols[i] ELSE cols[i + 1]
      <4>1. /\ RemoveAt(cols, c) \in Seq(Column) /\ Len(RemoveAt(cols, c)) = Len(cols) - 1
            /\ \A i \in 1..Len(cols) - 1 :
                  RemoveAt(cols, c)[i] = IF i < c THEN cols[i] ELSE cols[i + 1]
        <5>1. cols \in Seq(Column) /\ c \in 1..Len(cols)
          BY <2>2
        <5> QED
          BY <5>1, RemovedAt
      <4> QED
        BY <2>1, <4>1
    <3> HIDE DEF n
    <3> QED
      BY <2>2, <3>1 DEF At
  <2> HIDE DEF At
  <2>5. Listing(cols')
    <3>1. \A i, k \in 1..n - 1 : cols'[i].name = cols'[k].name => i = k
      BY <2>2, <2>3, <2>4 DEF TableTyped, Listing
    <3>2. \A i \in 1..n - 1 : cols'[i].default => cols'[i].type = "text"
      BY <2>2, <2>3, <2>4 DEF TableTyped, Listing
    <3> QED
      BY <2>4, <3>1, <3>2 DEF Listing
  <2>6. ASSUME NEW r \in RowsOf(cols)
        PROVE  RemoveAt(r, c) \in RowsOf(cols')
    <3>1. r \in [1..n -> Cells] /\ \A i \in 1..n : Accepts(cols[i], r[i])
      BY <2>2 DEF RowsOf
    <3>2. r \in Seq(Cells) /\ Len(r) = n
      BY <2>2, <3>1
    <3>3. /\ RemoveAt(r, c) \in Seq(Cells) /\ Len(RemoveAt(r, c)) = n - 1
          /\ \A i \in 1..n - 1 : RemoveAt(r, c)[i] = IF i < c THEN r[i] ELSE r[i + 1]
      <4>1. c \in 1..Len(r)
        BY <2>2, <3>2
      <4>2. /\ RemoveAt(r, c) \in Seq(Cells) /\ Len(RemoveAt(r, c)) = Len(r) - 1
            /\ \A i \in 1..Len(r) - 1 : RemoveAt(r, c)[i] = IF i < c THEN r[i] ELSE r[i + 1]
        BY <3>2, <4>1, RemovedAt
      <4> QED
        BY <3>2, <4>2
    <3>4. /\ RemoveAt(r, c) \in [1..n - 1 -> Cells]
          /\ \A i \in 1..n - 1 : RemoveAt(r, c)[i] = r[At(i)]
      BY <2>2, <3>3 DEF At
    <3>5. \A i \in 1..n - 1 : Accepts(cols'[i], RemoveAt(r, c)[i])
      BY <2>3, <2>4, <3>1, <3>4
    <3> QED
      BY <2>4, <3>4, <3>5 DEF RowsOf
  <2>7. lines' \in [1..Len(lines) -> RowsOf(cols')] /\ Len(lines) \in Nat
    BY <2>1, <2>6 DEF TableTyped
  <2> QED
    BY <2>5, <2>7 DEF TableTyped
<1> QED
  BY <1>1, <1>2, <1>3, <1>4

-----------------------------------------------------------------------------
(***************************************************************************)
(* The jobs.  What an export has read is the beginning of the table, as    *)
(* long as the others have at most added rows at the end (`steady`).       *)
(***************************************************************************)
StagesOf(what) ==
    CASE what \in {"csv", "json"} -> {"page", "save"}
      [] what = "sql" -> {"info", "types", "page", "save"}
      [] what \in {"csv-result", "json-result"} -> {"save"}
      [] what \in {"check", "import"} -> {"info", "parse", "insert"}

JobTyped(j) ==
    /\ j = [what |-> j.what, pc |-> j.pc, seen |-> j.seen, names |-> j.names, got |-> j.got,
            parsed |-> j.parsed, count |-> j.count, steady |-> j.steady]
    /\ j.what \in {"csv", "json", "sql", "csv-result", "json-result", "check", "import"}
    /\ j.pc \in StagesOf(j.what)
    /\ j.got \in Seq(Seq(Cells))
    /\ j.steady \in BOOLEAN

ReadInOrder(j) ==
    /\ Len(j.got) <= Len(lines)
    /\ \A i \in 1..Len(j.got) : j.got[i] = lines[i]
    /\ j.count \in Nat /\ j.count <= Len(lines)
    /\ j.pc = "save" => j.count <= Len(j.got)
    /\ j.got # <<>> \/ j.pc = "save" => j.names = NamesOf(cols)
    /\ j.what = "sql" /\ j.pc # "info" => j.seen = cols
    /\ j.what = "csv-result" => j.seen = cols

JobInv(j) ==
    /\ JobTyped(j)
    /\ j.steady => ReadInOrder(j)
    /\ j.pc = "insert" => /\ Validate(j.parsed, j.seen) = {} /\ IsList(j.parsed.rows)
                          /\ \A f \in disk : j.parsed = ParseImportFile(f)

FilesInv ==
    /\ TableTyped
    /\ \A f \in disk : IsList(f.body) /\ \A g \in disk : g = f
    /\ \A j \in job : JobInv(j)

LEMMA RowsAreLists == TableTyped => lines \in Seq(Seq(Cells))
<1> SUFFICES ASSUME TableTyped
             PROVE  lines \in Seq(Seq(Cells))
  OBVIOUS
<1>1. Len(cols) \in Nat /\ DOMAIN cols = 1..Len(cols)
  BY ListingFacts DEF TableTyped
<1>2. RowsOf(cols) \subseteq Seq(Cells)
  BY <1>1 DEF RowsOf
<1> QED
  BY <1>2 DEF TableTyped

\* A step that leaves the table and the file alone.
LEMMA OneJob ==
  ASSUME FilesInv, UNCHANGED <<cols, lines, disk>>, NEW k, job' = {k}, JobInv(k)
  PROVE  FilesInv'
  BY DEF FilesInv, TableTyped, JobInv, ReadInOrder

LEMMA NoJob ==
  ASSUME FilesInv, UNCHANGED <<cols, lines, disk>>, job' = {}
  PROVE  FilesInv'
  BY DEF FilesInv, TableTyped

LEMMA JobBegins ==
  ASSUME FilesInv,
         \/ \E format \in {"csv", "json", "sql"} : ExportTable(format)
         \/ \E format \in {"csv", "json"} : ExportQueryResult(format)
         \/ \E what \in {"check", "import"} : ImportFile(what)
  PROVE  FilesInv'
<1>1. Len(lines) \in Nat /\ lines \in Seq(Seq(Cells)) /\ <<>> \in Seq(Seq(Cells))
  BY RowsAreLists DEF FilesInv, TableTyped
<1>2. ASSUME NEW format \in {"csv", "json", "sql"}, ExportTable(format)
      PROVE  FilesInv'
  <2> DEFINE k == Job(format, IF format = "sql" THEN "info" ELSE "page", <<>>, <<>>)
  <2>1. JobTyped(k)
    BY <1>1, <1>2 DEF JobTyped, Job, StagesOf
  <2>2. ReadInOrder(k) /\ k.pc # "insert"
    BY <1>1, <1>2 DEF ReadInOrder, Job
  <2>3. JobInv(k)
    BY <2>1, <2>2 DEF JobInv
  <2> HIDE DEF k
  <2> QED
    BY <1>2, <2>3, OneJob DEF ExportTable, k
<1>3. ASSUME NEW format \in {"csv", "json"}, ExportQueryResult(format)
      PROVE  FilesInv'
  <2> DEFINE begun == Job(ResultOf(format), "save", NamesOf(cols), lines)
  <2> DEFINE k == [begun EXCEPT !.seen = cols]
  <2>0. PICK what, pc, none, names, rows, parsed, count, b :
            /\ what = ResultOf(format) /\ pc = "save" /\ names = NamesOf(cols) /\ rows = lines
            /\ count = Len(lines) /\ b = TRUE
            /\ begun = [what |-> what, pc |-> pc, seen |-> none, names |-> names, got |-> rows,
                        parsed |-> parsed, count |-> count, steady |-> b]
    BY Zenon DEF Job
  <2> HIDE DEF begun
  <2>4. k = [what |-> what, pc |-> pc, seen |-> cols, names |-> names, got |-> rows,
             parsed |-> parsed, count |-> count, steady |-> b]
    <3>1. PICK e : e = begun /\ k = [e EXCEPT !.seen = cols]
      OBVIOUS
    <3>2. e = [what |-> what, pc |-> pc, seen |-> none, names |-> names, got |-> rows,
               parsed |-> parsed, count |-> count, steady |-> b]
      BY <2>0, <3>1
    <3>3. [e EXCEPT !.seen = cols] =
            [what |-> what, pc |-> pc, seen |-> cols, names |-> names, got |-> rows,
             parsed |-> parsed, count |-> count, steady |-> b]
      BY <3>2
    <3> HIDE DEF k
    <3> QED
      BY <3>1, <3>3
  <2>1. JobTyped(k)
    <3> HIDE DEF k
    <3> QED
      BY <1>1, <1>3, <2>0, <2>4 DEF JobTyped, StagesOf, ResultOf
  <2>2. ReadInOrder(k) /\ k.pc # "insert"
    <3> HIDE DEF k
    <3> QED
      BY <1>1, <1>3, <2>0, <2>4 DEF ReadInOrder, ResultOf
  <2>3. JobInv(k)
    BY <2>1, <2>2 DEF JobInv
  <2> HIDE DEF k
  <2> QED
    BY <1>3, <2>3, OneJob DEF ExportQueryResult, k, begun
<1>4. ASSUME NEW what \in {"check", "import"}, ImportFile(what)
      PROVE  FilesInv'
  <2> DEFINE k == Job(what, "info", <<>>, <<>>)
  <2>1. JobTyped(k)
    BY <1>1, <1>4 DEF JobTyped, Job, StagesOf
  <2>2. ReadInOrder(k) /\ k.pc # "insert"
    BY <1>1, <1>4 DEF ReadInOrder, Job
  <2>3. JobInv(k)
    BY <2>1, <2>2 DEF JobInv
  <2> HIDE DEF k
  <2> QED
    BY <1>4, <2>3, OneJob DEF ImportFile, k
<1> QED
  BY <1>2, <1>3, <1>4

\* A job that has gone on to another place.
Goes(j, pc, seen, names, got, parsed) ==
    [what |-> j.what, pc |-> pc, seen |-> seen, names |-> names, got |-> got,
     parsed |-> parsed, count |-> j.count, steady |-> j.steady]

LEMMA GoesTyped ==
  ASSUME NEW j, JobTyped(j), NEW pc \in StagesOf(j.what), NEW seen, NEW names,
         NEW got \in Seq(Seq(Cells)), NEW parsed
  PROVE  JobTyped(Goes(j, pc, seen, names, got, parsed))
  BY DEF JobTyped, Goes

\* What the steps of a job change of it.
AtStage(j, pc) == [j EXCEPT !.pc = pc]
WithColumns(j, pc, seen) == [j EXCEPT !.pc = pc, !.seen = seen]
WithParsed(j, pc, parsed) == [j EXCEPT !.pc = pc, !.parsed = parsed]
WithRows(j, pc, names, got) == [j EXCEPT !.got = got, !.names = names, !.pc = pc]
Beside(j, steady) == [j EXCEPT !.steady = steady]

LEMMA AtStageGoes ==
  ASSUME NEW j, JobTyped(j), NEW pc
  PROVE  AtStage(j, pc) = Goes(j, pc, j.seen, j.names, j.got, j.parsed)
<1>1. PICK a, b, c, d, e, f, g, h :
         j = [what |-> a, pc |-> b, seen |-> c, names |-> d, got |-> e,
              parsed |-> f, count |-> g, steady |-> h]
  BY DEF JobTyped
<1> QED
  BY <1>1 DEF AtStage, Goes

LEMMA WithColumnsGoes ==
  ASSUME NEW j, JobTyped(j), NEW pc, NEW seen
  PROVE  WithColumns(j, pc, seen) = Goes(j, pc, seen, j.names, j.got, j.parsed)
<1>1. PICK a, b, c, d, e, f, g, h :
         j = [what |-> a, pc |-> b, seen |-> c, names |-> d, got |-> e,
              parsed |-> f, count |-> g, steady |-> h]
  BY DEF JobTyped
<1>2. /\ j.what = a /\ j.seen = c /\ j.names = d /\ j.got = e
      /\ j.parsed = f /\ j.count = g /\ j.steady = h
  BY <1>1
<1> DEFINE k == [j EXCEPT !.pc = pc]
<1>3. k = [what |-> a, pc |-> pc, seen |-> c, names |-> d, got |-> e,
           parsed |-> f, count |-> g, steady |-> h]
  BY <1>1
<1> HIDE DEF k
<1>4. [k EXCEPT !.seen = seen] =
         [what |-> a, pc |-> pc, seen |-> seen, names |-> d, got |-> e,
          parsed |-> f, count |-> g, steady |-> h]
  BY <1>3
<1> QED
  BY <1>2, <1>4 DEF k, WithColumns, Goes

LEMMA WithParsedGoes ==
  ASSUME NEW j, JobTyped(j), NEW pc, NEW parsed
  PROVE  WithParsed(j, pc, parsed) = Goes(j, pc, j.seen, j.names, j.got, parsed)
<1>1. PICK a, b, c, d, e, f, g, h :
         j = [what |-> a, pc |-> b, seen |-> c, names |-> d, got |-> e,
              parsed |-> f, count |-> g, steady |-> h]
  BY DEF JobTyped
<1>2. /\ j.what = a /\ j.seen = c /\ j.names = d /\ j.got = e
      /\ j.parsed = f /\ j.count = g /\ j.steady = h
  BY <1>1
<1> DEFINE k == [j EXCEPT !.pc = pc]
<1>3. k = [what |-> a, pc |-> pc, seen |-> c, names |-> d, got |-> e,
           parsed |-> f, count |-> g, steady |-> h]
  BY <1>1
<1> HIDE DEF k
<1>4. [k EXCEPT !.parsed = parsed] =
         [what |-> a, pc |-> pc, seen |-> c, names |-> d, got |-> e,
          parsed |-> parsed, count |-> g, steady |-> h]
  BY <1>3
<1> QED
  BY <1>2, <1>4 DEF k, WithParsed, Goes

LEMMA WithRowsGoes ==
  ASSUME NEW j, JobTyped(j), NEW pc, NEW names, NEW got
  PROVE  WithRows(j, pc, names, got) = Goes(j, pc, j.seen, names, got, j.parsed)
<1>1. PICK a, b, c, d, e, f, g, h :
         j = [what |-> a, pc |-> b, seen |-> c, names |-> d, got |-> e,
              parsed |-> f, count |-> g, steady |-> h]
  BY DEF JobTyped
<1>2. /\ j.what = a /\ j.seen = c /\ j.names = d /\ j.got = e
      /\ j.parsed = f /\ j.count = g /\ j.steady = h
  BY <1>1
<1> DEFINE l == [j EXCEPT !.got = got]
<1>3. l = [what |-> a, pc |-> b, seen |-> c, names |-> d, got |-> got,
           parsed |-> f, count |-> g, steady |-> h]
  BY <1>1
<1> HIDE DEF l
<1> DEFINE m == [l EXCEPT !.names = names]
<1>4. m = [what |-> a, pc |-> b, seen |-> c, names |-> names, got |-> got,
           parsed |-> f, count |-> g, steady |-> h]
  BY <1>3
<1> HIDE DEF m
<1>5. [m EXCEPT !.pc = pc] =
         [what |-> a, pc |-> pc, seen |-> c, names |-> names, got |-> got,
          parsed |-> f, count |-> g, steady |-> h]
  BY <1>4
<1> QED
  BY <1>2, <1>5 DEF l, m, WithRows, Goes

LEMMA BesideIs ==
  ASSUME NEW j, JobTyped(j), NEW steady
  PROVE  Beside(j, steady) =
            [what |-> j.what, pc |-> j.pc, seen |-> j.seen, names |-> j.names, got |-> j.got,
             parsed |-> j.parsed, count |-> j.count, steady |-> steady]
<1>1. PICK a, b, c, d, e, f, g, h :
         j = [what |-> a, pc |-> b, seen |-> c, names |-> d, got |-> e,
              parsed |-> f, count |-> g, steady |-> h]
  BY DEF JobTyped
<1> QED
  BY <1>1 DEF Beside

LEMMA ColumnsRead ==
  ASSUME FilesInv, NEW j \in job, TableInfo(j) \/ ColumnTypes(j)
  PROVE  FilesInv'
<1>1. JobInv(j) /\ JobTyped(j) /\ j.got \in Seq(Seq(Cells))
  BY DEF FilesInv, JobInv, JobTyped
<1>2. ASSUME TableInfo(j)
      PROVE  FilesInv'
  <2> DEFINE pc == IF j.what = "sql" THEN "types" ELSE "parse"
  <2> DEFINE k == Goes(j, pc, cols, j.names, j.got, j.parsed)
  <2>1. JobStep(j, k)
    <3>1. JobStep(j, WithColumns(j, pc, cols))
      BY <1>2 DEF TableInfo, WithColumns
    <3> HIDE DEF pc
    <3>2. WithColumns(j, pc, cols) = Goes(j, pc, cols, j.names, j.got, j.parsed)
      BY <1>1, WithColumnsGoes
    <3> QED
      BY <3>1, <3>2
  <2>2. pc \in StagesOf(j.what) /\ j.what \in {"sql", "check", "import"}
    BY <1>1, <1>2 DEF JobTyped, TableInfo, StagesOf
  <2>3. JobTyped(k)
    <3> HIDE DEF pc
    <3> QED
      BY <1>1, <2>2, GoesTyped
  <2>4. j.steady => ReadInOrder(k)
    BY <1>1, <1>2, <2>2 DEF JobInv, Goes, ReadInOrder, TableInfo
  <2>5. k.steady = j.steady /\ k.pc # "insert"
    BY DEF Goes
  <2>6. JobInv(k)
    BY <2>3, <2>4, <2>5 DEF JobInv
  <2> HIDE DEF k
  <2> QED
    BY <2>1, <2>6, OneJob DEF JobStep
<1>3. ASSUME ColumnTypes(j)
      PROVE  FilesInv'
  <2> DEFINE Typed(i) == IF j.seen[i].name \in NameSet(cols)
                         THEN ColumnNamed(cols, j.seen[i].name).type ELSE j.seen[i].type
  <2> DEFINE again == [i \in DOMAIN j.seen |-> [j.seen[i] EXCEPT !.type = Typed(i)]]
  <2> DEFINE k(seen) == Goes(j, "page", seen, j.names, j.got, j.parsed)
  <2>1. \E seen \in {j.seen, again} : JobStep(j, k(seen))
    <3>1. AtStage(j, "page") = k(j.seen)
      BY <1>1, AtStageGoes
    <3>2. WithColumns(j, "page", again) = k(again)
      <4> HIDE DEF again
      <4> QED
        BY <1>1, WithColumnsGoes
    <3>3. JobStep(j, AtStage(j, "page")) \/ JobStep(j, WithColumns(j, "page", again))
      BY <1>3 DEF ColumnTypes, AtStage, WithColumns
    <3> QED
      BY <3>1, <3>2, <3>3
  <2>2. j.pc = "types" /\ j.what = "sql"
    BY <1>1, <1>3 DEF ColumnTypes, JobTyped, StagesOf
  <2>3. j.steady => j.seen = cols
    BY <1>1, <2>2 DEF JobInv, ReadInOrder
  <2>4. j.steady => again = cols
    <3> SUFFICES ASSUME j.steady
                 PROVE  again = cols
      OBVIOUS
    <3>1. ASSUME NEW i \in DOMAIN cols
          PROVE  [j.seen[i] EXCEPT !.type = Typed(i)] = cols[i]
      <4>1. cols[i].name \in NameSet(cols) /\ ColumnNamed(cols, cols[i].name) = cols[i]
            /\ cols[i] \in Column
        BY ListingFacts DEF FilesInv, TableTyped
      <4>2. j.seen[i] = cols[i] /\ Typed(i) = cols[i].type
        BY <2>3, <4>1
      <4> HIDE DEF Typed
      <4> QED
        BY <4>1, <4>2 DEF Column
    <3>2. cols = [i \in DOMAIN cols |-> cols[i]]
      BY DEF FilesInv, TableTyped, Listing
    <3> HIDE DEF Typed
    <3> QED
      BY <2>3, <3>1, <3>2
  <2> HIDE DEF again
  <2>5. ASSUME NEW seen \in {j.seen, again}
        PROVE  JobInv(k(seen))
    <3>1. JobTyped(k(seen))
      BY <1>1, <2>2, GoesTyped DEF StagesOf
    <3>2. j.steady => ReadInOrder(k(seen))
      BY <1>1, <2>2, <2>3, <2>4 DEF JobInv, Goes, ReadInOrder
    <3>3. k(seen).steady = j.steady /\ k(seen).pc # "insert"
      BY DEF Goes
    <3> HIDE DEF k
    <3> QED
      BY <3>1, <3>2, <3>3 DEF JobInv
  <2> HIDE DEF k
  <2> QED
    BY <2>1, <2>5, OneJob DEF JobStep
<1> QED
  BY <1>2, <1>3

\* A page is the rows that follow.
LEMMA PageFacts ==
  ASSUME NEW S, lines \in Seq(S), NEW offset \in Nat
  PROVE  /\ PageAt(offset) \in Seq(S)
         /\ offset <= Len(lines) =>
               /\ offset + Len(PageAt(offset)) <= Len(lines)
               /\ Len(PageAt(offset)) < Page => offset + Len(PageAt(offset)) = Len(lines)
               /\ \A i \in 1..Len(PageAt(offset)) : PageAt(offset)[i] = lines[offset + i]
<1> DEFINE last == IF offset + Page < Len(lines) THEN offset + Page ELSE Len(lines)
<1>1. /\ last \in Nat /\ Len(lines) \in Nat /\ Page \in Nat
      /\ last <= Len(lines) /\ last <= offset + Page
      /\ (last = Len(lines) \/ last = offset + Page)
  BY FilesAssumption
<1>2. PageAt(offset) = SubSeq(lines, offset + 1, last)
  BY DEF PageAt
<1> HIDE DEF last
<1>3. /\ PageAt(offset) \in Seq(S)
      /\ Len(PageAt(offset)) = IF offset + 1 <= last THEN last - offset ELSE 0
      /\ \A i \in 1..last - offset : PageAt(offset)[i] = lines[offset + i]
  BY <1>1, <1>2, SubSeqProperties
<1> SUFFICES ASSUME offset <= Len(lines)
             PROVE  /\ offset + Len(PageAt(offset)) <= Len(lines)
                    /\ Len(PageAt(offset)) < Page => offset + Len(PageAt(offset)) = Len(lines)
                    /\ \A i \in 1..Len(PageAt(offset)) : PageAt(offset)[i] = lines[offset + i]
  BY <1>3
<1>4. offset <= last
  BY <1>1
<1>5. Len(PageAt(offset)) = last - offset
  BY <1>1, <1>3, <1>4
<1> QED
  BY <1>1, <1>3, <1>5

LEMMA PageFetched ==
  ASSUME FilesInv, NEW j \in job, FetchPage(j)
  PROVE  FilesInv'
<1> DEFINE n == Len(j.got)
<1> DEFINE page == PageAt(n)
<1> DEFINE names == IF n = 0 THEN NamesOf(cols) ELSE j.names
<1> DEFINE pc == IF Len(page) < Page THEN "save" ELSE "page"
<1> DEFINE k == Goes(j, pc, j.seen, names, j.got \o page, j.parsed)
<1>1. /\ JobInv(j) /\ JobTyped(j) /\ j.got \in Seq(Seq(Cells)) /\ n \in Nat
      /\ lines \in Seq(Seq(Cells)) /\ Len(lines) \in Nat
  <2>1. JobInv(j) /\ JobTyped(j) /\ j.got \in Seq(Seq(Cells))
    BY DEF FilesInv, JobInv, JobTyped
  <2>2. lines \in Seq(Seq(Cells))
    BY RowsAreLists DEF FilesInv
  <2> QED
    BY <2>1, <2>2
<1>2. JobStep(j, k)
  <2> DEFINE got == j.got \o page
  <2>1. JobStep(j, WithRows(j, pc, names, got))
    BY DEF FetchPage, WithRows
  <2> HIDE DEF got, names, pc
  <2>2. WithRows(j, pc, names, got) = Goes(j, pc, j.seen, names, got, j.parsed)
    BY <1>1, WithRowsGoes
  <2> QED
    BY <2>1, <2>2 DEF got
<1>3. /\ page \in Seq(Seq(Cells)) /\ Len(page) \in Nat
      /\ n <= Len(lines) =>
            /\ n + Len(page) <= Len(lines)
            /\ Len(page) < Page => n + Len(page) = Len(lines)
            /\ \A i \in 1..Len(page) : page[i] = lines[n + i]
  <2>1. lines \in Seq(Seq(Cells)) /\ n \in Nat
    BY <1>1
  <2> DEFINE S == Seq(Cells)
  <2> HIDE DEF n, S
  <2>2. /\ page \in Seq(S)
        /\ n <= Len(lines) =>
              /\ n + Len(page) <= Len(lines)
              /\ Len(page) < Page => n + Len(page) = Len(lines)
              /\ \A i \in 1..Len(page) : page[i] = lines[n + i]
    BY <2>1, PageFacts DEF S
  <2> QED
    BY <2>2 DEF S
<1> HIDE DEF page
<1>4. /\ j.got \o page \in Seq(Seq(Cells)) /\ Len(j.got \o page) = n + Len(page)
      /\ \A i \in 1..n + Len(page) :
            (j.got \o page)[i] = IF i <= n THEN j.got[i] ELSE page[i - n]
  BY <1>1, <1>3, ConcatProperties
<1>5. j.pc = "page" /\ pc \in StagesOf(j.what) /\ j.what \in {"csv", "json", "sql"}
  BY <1>1 DEF FetchPage, JobTyped, StagesOf
<1>6. JobTyped(k)
  <2> HIDE DEF pc, names
  <2> QED
    BY <1>1, <1>4, <1>5, GoesTyped
<1>7. ASSUME j.steady
      PROVE  ReadInOrder(k)
  <2>1. ReadInOrder(j)
    BY <1>1, <1>7 DEF JobInv
  <2>2. /\ n <= Len(lines) /\ \A i \in 1..n : j.got[i] = lines[i]
        /\ j.count \in Nat /\ j.count <= Len(lines)
        /\ n # 0 => j.names = NamesOf(cols)
        /\ j.what = "sql" => j.seen = cols
        /\ j.what = "csv-result" => j.seen = cols
    BY <1>1, <1>5, <2>1 DEF ReadInOrder
  <2>3. ASSUME NEW i \in 1..n + Len(page)
        PROVE  (j.got \o page)[i] = lines[i]
    <3>1. CASE i <= n
      <4>1. i \in 1..n
        BY <1>1, <1>3, <3>1
      <4>2. (j.got \o page)[i] = j.got[i]
        BY <1>4, <3>1
      <4> QED
        BY <2>2, <4>1, <4>2
    <3>2. CASE ~(i <= n)
      <4>1. i - n \in 1..Len(page) /\ n + (i - n) = i
        BY <1>1, <1>3, <3>2
      <4> QED
        BY <1>3, <1>4, <2>2, <3>2, <4>1
    <3> QED
      BY <3>1, <3>2
  <2>4. names = NamesOf(cols)
    BY <2>2
  <2>5. pc = "save" => n + Len(page) = Len(lines)
    BY <1>3, <2>2
  <2>6. /\ k.got = j.got \o page /\ k.count = j.count /\ k.pc = pc /\ k.names = names
        /\ k.what = j.what /\ k.seen = j.seen
    BY DEF Goes
  <2> HIDE DEF k, pc, names
  <2> QED
    BY <1>3, <1>4, <2>2, <2>3, <2>4, <2>5, <2>6 DEF ReadInOrder
<1>8. k.steady = j.steady /\ k.pc # "insert"
  BY DEF Goes
<1>9. JobInv(k)
  <2> HIDE DEF k
  <2> QED
    BY <1>6, <1>7, <1>8 DEF JobInv
<1> HIDE DEF k
<1> QED
  BY <1>2, <1>9, OneJob DEF JobStep

LEMMA MadeList ==
  ASSUME NEW n \in Nat, NEW S, NEW s \in [1..n -> S]
  PROVE  IsList(s)
<1>1. s \in Seq(S) /\ Len(s) = n /\ DOMAIN s = 1..n
  OBVIOUS
<1> QED
  BY <1>1 DEF IsList

\* Whatever the file, its rows are a list.
LEMMA ParsedRows ==
  ASSUME NEW f, IsList(f.body)
  PROVE  IsList(ParseImportFile(f).rows)
<1>1. CASE f.format # "csv"
  BY <1>1 DEF ParseImportFile, ParseJSON
<1>2. CASE f.format = "csv"
  <2> DEFINE body == f.body
  <2> DEFINE kept == {i \in DOMAIN body : body[i] # <<[text |-> Blank, quoted |-> FALSE]>>}
  <2>1. Cardinality(kept) \in Nat
    <3>1. IsFiniteSet(1..Len(body))
      BY FS_Interval DEF IsList
    <3>2. kept \subseteq 1..Len(body)
      BY DEF IsList
    <3> QED
      BY <3>1, <3>2, FS_Subset, FS_CardinalityType
  <2> DEFINE rows == ParseCSV(f).rows
  <2>2. DOMAIN rows = 1..Cardinality(kept)
    <3>1. DOMAIN rows = DOMAIN Records(body)
      BY DEF ParseCSV
    <3>2. DOMAIN Records(body) = 1..Cardinality(kept)
      BY DEF Records
    <3> QED
      BY <3>1, <3>2
  <2>3. rows = [i \in DOMAIN rows |-> rows[i]]
    BY DEF ParseCSV
  <2> DEFINE S == {rows[i] : i \in DOMAIN rows}
  <2> HIDE DEF rows, kept
  <2>4. rows \in [1..Cardinality(kept) -> S]
    BY <2>2, <2>3
  <2> HIDE DEF S
  <2>5. IsList(rows)
    BY <2>1, <2>4, MadeList
  <2> QED
    BY <1>2, <2>5 DEF ParseImportFile, rows
<1> QED
  BY <1>1, <1>2

LEMMA FileRead ==
  ASSUME FilesInv, NEW j \in job, ReadFile(j)
  PROVE  FilesInv'
<1>1. JobInv(j) /\ JobTyped(j) /\ j.got \in Seq(Seq(Cells))
  BY DEF FilesInv, JobInv, JobTyped
<1>2. PICK f \in disk :
         IF /\ j.what = "import"
            /\ f.format # "sql"
            /\ Validate(ParseImportFile(f), j.seen) = {}
            /\ ParseImportFile(f).rows # <<>>
         THEN job' = {WithParsed(j, "insert", ParseImportFile(f))}
         ELSE job' = {}
  BY Zenon DEF ReadFile, WithParsed
<1>3. UNCHANGED <<cols, lines, disk>> /\ j.pc = "parse"
  BY DEF ReadFile
<1>4. CASE job' = {}
  BY <1>3, <1>4, NoJob
<1>5. CASE job' # {}
  <2> DEFINE parsed == ParseImportFile(f)
  <2> DEFINE k == WithParsed(j, "insert", parsed)
  <2>1. job' = {k} /\ j.what = "import" /\ Validate(parsed, j.seen) = {}
    BY <1>2, <1>5
  <2>2. IsList(parsed.rows) /\ \A g \in disk : parsed = ParseImportFile(g)
    BY ParsedRows DEF FilesInv
  <2> HIDE DEF parsed
  <2>3. k = Goes(j, "insert", j.seen, j.names, j.got, parsed)
    BY <1>1, WithParsedGoes
  <2> HIDE DEF k
  <2>4. JobTyped(k)
    BY <1>1, <2>1, <2>3, GoesTyped DEF StagesOf
  <2>5. j.steady => ReadInOrder(k)
    BY <1>1, <2>1, <2>3 DEF JobInv, ReadInOrder, Goes
  <2>6. k.steady = j.steady /\ k.parsed = parsed /\ k.seen = j.seen
    BY <2>3 DEF Goes
  <2>7. JobInv(k)
    BY <2>1, <2>2, <2>4, <2>5, <2>6 DEF JobInv
  <2> QED
    BY <1>3, <2>1, <2>7, OneJob
<1> QED
  BY <1>4, <1>5

LEMMA FileSaved ==
  ASSUME FilesInv, NEW j \in job, SaveFile(j)
  PROVE  FilesInv'
<1>1. /\ j.what \in {"csv", "json", "sql", "csv-result", "json-result"}
      /\ DOMAIN j.got = 1..Len(j.got) /\ Len(j.got) \in Nat
  BY DEF FilesInv, JobInv, JobTyped, SaveFile, StagesOf
<1> DEFINE body == FileOf(j).body
<1>2. DOMAIN body = DOMAIN j.got /\ body = [i \in DOMAIN body |-> body[i]]
  <2>1. CASE j.what = "csv"
    BY <2>1 DEF FileOf, ToCSV
  <2>2. CASE j.what = "csv-result"
    <3> DEFINE written == [i \in DOMAIN j.got |->
                             [c \in DOMAIN j.got[i] |->
                                FormatValue(j.seen[c].type, j.got[i][c])]]
    <3>1. FileOf(j) = ToCSV(j.names, written) /\ DOMAIN written = DOMAIN j.got
      BY <2>2 DEF FileOf
    <3> HIDE DEF written
    <3> QED
      BY <3>1 DEF ToCSV
  <2>3. CASE j.what \in {"json", "json-result"}
    BY <2>3 DEF FileOf, ToJSON
  <2>4. CASE j.what = "sql"
    BY <2>4 DEF FileOf, ToSQLDump
  <2> QED
    BY <1>1, <2>1, <2>2, <2>3, <2>4
<1> DEFINE S == {body[i] : i \in DOMAIN body}
<1> HIDE DEF body
<1>3. body \in [1..Len(j.got) -> S]
  BY <1>1, <1>2
<1> HIDE DEF S
<1>4. IsList(FileOf(j).body)
  BY <1>1, <1>3, MadeList DEF body
<1> QED
  BY <1>4 DEF FilesInv, SaveFile, TableTyped

\* What other sessions do leaves what an export has read at the beginning of
\* the table, or the export is not steady from then on.
LEMMA OthersWrite ==
  ASSUME FilesInv,
         \/ \E i \in 1..Len(lines) + 1 : OtherInserts(i)
         \/ \E i \in DOMAIN lines : OtherDeletes(i)
         \/ OtherAddsColumn
         \/ \E c \in DOMAIN cols : OtherDropsColumn(c)
  PROVE  FilesInv'
<1>1. TableTyped'
  BY OthersTyped DEF FilesInv
<1>2. PICK newCols, newLines : \E calm \in BOOLEAN :
         /\ Others(newCols, newLines, calm)
         /\ calm => \E r : newCols = cols /\ newLines = Append(lines, r)
  <2>1. ASSUME NEW i \in 1..Len(lines) + 1, OtherInserts(i)
        PROVE  \E newCols, newLines : \E calm \in BOOLEAN :
                  /\ Others(newCols, newLines, calm)
                  /\ calm => \E r : newCols = cols /\ newLines = Append(lines, r)
    <3>1. PICK r \in TypicalRows : Others(cols, InsertAt(lines, i, r), i > Len(lines))
      BY <2>1 DEF OtherInserts
    <3>2. lines \in Seq(RowsOf(cols)) /\ r \in RowsOf(cols)
      BY TypicalIsAccepted DEF FilesInv, TableTyped
    <3>3. i > Len(lines) => InsertAt(lines, i, r) = Append(lines, r)
      BY <3>2, InsertedAt
    <3> DEFINE calm == i > Len(lines)
    <3> DEFINE more == InsertAt(lines, i, r)
    <3>4. calm \in BOOLEAN /\ Others(cols, more, calm) /\ (calm => more = Append(lines, r))
      BY <3>1, <3>3
    <3> HIDE DEF calm, more
    <3> QED
      BY <3>4
  <2>2. ASSUME \/ \E i \in DOMAIN lines : OtherDeletes(i)
               \/ OtherAddsColumn
               \/ \E c \in DOMAIN cols : OtherDropsColumn(c)
        PROVE  \E newCols, newLines : \E calm \in BOOLEAN :
                  Others(newCols, newLines, calm) /\ ~calm
    <3>1. \E newCols, newLines : Others(newCols, newLines, FALSE)
      BY <2>2 DEF OtherDeletes, OtherAddsColumn, OtherDropsColumn
    <3> QED
      BY <3>1
  <2> QED
    BY <2>1, <2>2
<1>3. PICK calm \in BOOLEAN :
         /\ Others(newCols, newLines, calm)
         /\ calm => \E r : newCols = cols /\ newLines = Append(lines, r)
  BY <1>2
<1>4. job' = {Beside(j, j.steady /\ calm) : j \in job} /\ lines' = newLines /\ cols' = newCols
      /\ disk' = disk
  BY <1>3 DEF Others, Beside
<1>5. ASSUME NEW j \in job
      PROVE  JobInv(Beside(j, j.steady /\ calm))'
  <2> DEFINE k == Beside(j, j.steady /\ calm)
  <2>1. JobInv(j) /\ JobTyped(j) /\ j.steady \in BOOLEAN /\ j.got \in Seq(Seq(Cells))
    BY DEF FilesInv, JobInv, JobTyped
  <2>2. k = [what |-> j.what, pc |-> j.pc, seen |-> j.seen, names |-> j.names, got |-> j.got,
             parsed |-> j.parsed, count |-> j.count, steady |-> j.steady /\ calm]
    BY <2>1, BesideIs
  <2>3. k.steady = (j.steady /\ calm) /\ (j.steady /\ calm) \in BOOLEAN
    BY <2>2
  <2>4. /\ k.what = j.what /\ k.pc = j.pc /\ k.seen = j.seen /\ k.names = j.names
        /\ k.got = j.got /\ k.parsed = j.parsed /\ k.count = j.count
    BY <2>2
  <2>5. k = [what |-> k.what, pc |-> k.pc, seen |-> k.seen, names |-> k.names, got |-> k.got,
             parsed |-> k.parsed, count |-> k.count, steady |-> k.steady]
    BY <2>2
  <2> HIDE DEF k
  <2>6. JobTyped(k)
    BY <2>1, <2>3, <2>4, <2>5 DEF JobTyped
  <2>7. ASSUME j.steady, calm
        PROVE  ReadInOrder(k)'
    <3>1. PICK r : cols' = cols /\ lines' = Append(lines, r)
      BY <1>3, <1>4, <2>7
    <3>2. ReadInOrder(j)
      BY <2>1, <2>7 DEF JobInv
    <3>3. lines \in Seq(RowsOf(cols)) /\ Len(lines) \in Nat
      BY DEF FilesInv, TableTyped
    <3>4. Len(lines') = Len(lines) + 1 /\ \A i \in 1..Len(lines) : lines'[i] = lines[i]
      BY <3>1, <3>3
    <3>5. Len(j.got) \in Nat
      BY <2>1
    <3> QED
      BY <2>4, <3>1, <3>2, <3>3, <3>4, <3>5 DEF ReadInOrder
  <2>8. k.steady => ReadInOrder(k)'
    BY <2>3, <2>7
  <2>9. k.pc = "insert" => /\ Validate(k.parsed, k.seen) = {} /\ IsList(k.parsed.rows)
                           /\ \A f \in disk' : k.parsed = ParseImportFile(f)
    BY <1>4, <2>1, <2>4 DEF JobInv
  <2>10. JobInv(k)'
    BY <2>6, <2>8, <2>9 DEF JobInv
  <2> QED
    BY <2>10 DEF k
<1> QED
  BY <1>1, <1>4, <1>5 DEF FilesInv

LEMMA FilesStart == FilesInit => FilesInv
  BY TableInit DEF FilesInit, FilesInv

LEMMA FilesStep == FilesInv /\ [FilesNext]_filesVars => FilesInv'
<1> SUFFICES ASSUME FilesInv, [FilesNext]_filesVars
             PROVE  FilesInv'
  OBVIOUS
<1>1. CASE \/ \E format \in {"csv", "json", "sql"} : ExportTable(format)
           \/ \E format \in {"csv", "json"} : ExportQueryResult(format)
           \/ \E what \in {"check", "import"} : ImportFile(what)
  BY <1>1, JobBegins
<1>2. ASSUME NEW j \in job,
             \/ TableInfo(j) \/ ColumnTypes(j) \/ FetchPage(j) \/ SaveFile(j)
             \/ ReadFile(j) \/ BulkInsert(j) \/ JobFails(j)
      PROVE  FilesInv'
  <2>1. CASE TableInfo(j) \/ ColumnTypes(j)
    BY <2>1, ColumnsRead
  <2>2. CASE FetchPage(j)
    BY <2>2, PageFetched
  <2>3. CASE SaveFile(j)
    BY <2>3, FileSaved
  <2>4. CASE ReadFile(j)
    BY <2>4, FileRead
  <2>5. CASE BulkInsert(j)
    <3>1. IsList(j.parsed.rows)
      BY <2>5 DEF FilesInv, JobInv, BulkInsert
    <3>2. TableTyped'
      BY <2>5, <3>1, ImportTyped DEF FilesInv
    <3> QED
      BY <2>5, <3>2 DEF FilesInv, BulkInsert
  <2>6. CASE JobFails(j)
    BY <2>6, NoJob DEF JobFails
  <2> QED
    BY <1>2, <2>1, <2>2, <2>3, <2>4, <2>5, <2>6
<1>3. CASE \/ \E i \in 1..Len(lines) + 1 : OtherInserts(i)
           \/ \E i \in DOMAIN lines : OtherDeletes(i)
           \/ OtherAddsColumn
           \/ \E c \in DOMAIN cols : OtherDropsColumn(c)
  BY <1>3, OthersWrite
<1>4. ASSUME NEW i \in DOMAIN Foreign, OtherFile(i)
      PROVE  FilesInv'
  BY <1>4, FilesAssumption DEF OtherFile, FilesInv, TableTyped
<1>5. CASE UNCHANGED filesVars
  BY <1>5 DEF filesVars, FilesInv, TableTyped, JobInv, ReadInOrder
<1> QED
  BY <1>1, <1>2, <1>3, <1>4, <1>5 DEF FilesNext

-----------------------------------------------------------------------------
(***************************************************************************)
(* What an export has written.                                             *)
(***************************************************************************)
\* An export about to be saved has read the beginning of the table.
LEMMA ExportedRead ==
  ASSUME FilesInv, NEW j \in Exported
  PROVE  /\ j.what \in {"csv", "json", "sql", "csv-result", "json-result"}
         /\ j.got \in Seq(RowsOf(cols))
         /\ Len(j.got) <= Len(lines) /\ \A i \in 1..Len(j.got) : j.got[i] = lines[i]
         /\ j.count \in Nat /\ j.count <= Len(j.got)
         /\ j.names = NamesOf(cols)
         /\ j.what \in {"sql", "csv-result"} => j.seen = cols
<1>1. j \in job /\ j.pc = "save" /\ j.steady
  BY DEF Exported, Ready
<1>2. JobTyped(j) /\ ReadInOrder(j)
  BY <1>1 DEF FilesInv, JobInv
<1>3. j.what \in {"csv", "json", "sql", "csv-result", "json-result"} /\ j.got \in Seq(Seq(Cells))
  BY <1>1, <1>2 DEF JobTyped, StagesOf
<1>4. j.got \in Seq(RowsOf(cols))
  <2>1. /\ Len(j.got) \in Nat /\ Len(lines) \in Nat
        /\ \A i \in 1..Len(lines) : lines[i] \in RowsOf(cols)
    BY <1>3 DEF FilesInv, TableTyped
  <2>2. Len(j.got) <= Len(lines) /\ \A i \in 1..Len(j.got) : j.got[i] = lines[i]
    BY <1>2 DEF ReadInOrder
  <2>3. \A i \in 1..Len(j.got) : j.got[i] \in RowsOf(cols)
    BY <2>1, <2>2
  <2> DEFINE S == RowsOf(cols)
  <2>4. j.got = [i \in 1..Len(j.got) |-> j.got[i]]
    <3> DEFINE T == Seq(Cells)
    <3>1. j.got \in Seq(T)
      BY <1>3
    <3> HIDE DEF T
    <3>2. j.got \in [1..Len(j.got) -> T]
      BY <3>1, LenProperties
    <3> QED
      BY <3>2
  <2> HIDE DEF S
  <2>5. j.got \in [1..Len(j.got) -> S]
    BY <2>3, <2>4 DEF S
  <2>6. j.got \in Seq(S)
    BY <2>1, <2>5
  <2> QED
    BY <2>6 DEF S
<1> QED
  BY <1>1, <1>2, <1>3, <1>4 DEF ReadInOrder

\* A row as it is written.
Written(j, r) ==
    IF j.what = "csv-result" THEN [c \in DOMAIN r |-> FormatValue(cols[c].type, r[c])] ELSE r

LEMMA GotRow ==
  ASSUME FilesInv, NEW j \in Exported, NEW k \in DOMAIN j.got
  PROVE  j.got[k] \in RowsOf(cols)
<1> DEFINE S == RowsOf(cols)
<1>1. j.got \in Seq(S)
  BY ExportedRead
<1> HIDE DEF S
<1>2. j.got[k] \in S
  BY <1>1
<1> QED
  BY <1>2 DEF S

\* A column reads its own literals as they are.
LEMMA LiteralReads ==
  ASSUME NEW type \in {"integer", "numeric", "boolean", "datetime", "text"},
         NEW v \in Literals(type)
  PROVE  v \in Cells /\ v # "null" /\ Reads(type, v) = v /\ Plausible(v, type)
<1>1. CASE type = "integer"
  BY <1>1 DEF Literals, Reads, Plausible, Cells
<1>2. CASE type = "numeric"
  BY <1>2 DEF Literals, Reads, Plausible, Cells
<1>3. CASE type = "boolean"
  BY <1>3 DEF Literals, Reads, Plausible, Cells
<1>4. CASE type = "datetime"
  BY <1>4 DEF Literals, Reads, Plausible, Cells
<1>5. CASE type = "text"
  BY <1>5 DEF Literals, Reads, Plausible, Cells
<1> QED
  BY <1>1, <1>2, <1>3, <1>4, <1>5

\* What is written of a value is plausible and is read as the value it was; it
\* is NULL only where the value is, in a column that may be.
LEMMA WrittenRead ==
  ASSUME FilesInv, NEW j \in Exported, NEW k \in DOMAIN j.got, NEW i \in DOMAIN cols
  PROVE  /\ Written(j, j.got[k])[i] \in Cells
         /\ Reads(cols[i].type, Written(j, j.got[k])[i]) = j.got[k][i]
         /\ IF Written(j, j.got[k])[i] = "null" THEN cols[i].nullable
            ELSE Plausible(Written(j, j.got[k])[i], cols[i].type)
<1> DEFINE r == j.got[k]
<1> DEFINE w == Written(j, r)[i]
<1>1. r \in RowsOf(cols) /\ (j.what = "csv-result" => j.seen = cols)
  BY ExportedRead, GotRow
<1>2. i \in DOMAIN r /\ r[i] \in Cells /\ Accepts(cols[i], r[i])
  BY <1>1 DEF RowsOf
<1>3. cols[i].type \in {"integer", "numeric", "boolean", "datetime", "text"}
  BY ListingFacts DEF Column, FilesInv, TableTyped
<1>4. w = IF j.what = "csv-result" THEN FormatValue(cols[i].type, r[i]) ELSE r[i]
  BY <1>2 DEF Written
<1>5. j.what = "csv-result" => ~(cols[i].type = "integer" /\ r[i] = "1000000")
  BY <1>1, <1>2 DEF Exported, HasExponent
<1> HIDE DEF r
<1>6. ASSUME NEW v, v = r[i], NEW type, type = cols[i].type
      PROVE  /\ FormatValue(type, v) # v => type \in {"numeric", "integer"} /\ v = "1000000"
             /\ v \in Cells /\ (v \in Literals(type) \/ (v = "null" /\ cols[i].nullable))
  BY <1>2, <1>3, <1>6 DEF Accepts, FormatValue
<1>7. CASE w = r[i]
  <2> HIDE DEF w
  <2>1. CASE r[i] \in Literals(cols[i].type)
    <3>1. /\ r[i] \in Cells /\ r[i] # "null" /\ Reads(cols[i].type, r[i]) = r[i]
          /\ Plausible(r[i], cols[i].type)
      BY <1>3, <2>1, LiteralReads
    <3>2. w \in Cells /\ w # "null" /\ Reads(cols[i].type, w) = r[i] /\ Plausible(w, cols[i].type)
      BY <1>7, <3>1
    <3> QED
      BY <3>2 DEF r, w
  <2>2. CASE r[i] = "null" /\ cols[i].nullable
    <3>1. w \in Cells /\ Reads(cols[i].type, w) = r[i] /\ w = "null" /\ cols[i].nullable
      BY <1>7, <2>2 DEF Reads, Cells
    <3> QED
      BY <3>1 DEF r, w
  <2> QED
    BY <1>6, <2>1, <2>2
<1>8. CASE w # r[i]
  <2>1. cols[i].type = "numeric" /\ r[i] = "1000000" /\ w = "1e+06"
    BY <1>3, <1>4, <1>5, <1>6, <1>8 DEF FormatValue
  <2>2. Plausible("1e+06", "numeric") /\ Reads("numeric", "1e+06") = "1000000"
    BY DEF Plausible, Reads
  <2>3. w \in Cells /\ Reads(cols[i].type, w) = r[i] /\ w # "null" /\ Plausible(w, cols[i].type)
    <3> HIDE DEF w
    <3> QED
      BY <2>1, <2>2 DEF Cells
  <2> QED
    BY <2>3 DEF r, w
<1> QED
  BY <1>7, <1>8

LEMMA WrittenRow ==
  ASSUME FilesInv, NEW j \in Exported, NEW k \in DOMAIN j.got
  PROVE  Written(j, j.got[k]) \in [DOMAIN cols -> Cells]
<1>1. j.got[k] \in [DOMAIN cols -> Cells]
  BY GotRow DEF RowsOf
<1>2. Written(j, j.got[k]) = [c \in DOMAIN cols |-> Written(j, j.got[k])[c]]
  BY <1>1 DEF Written
<1>3. \A c \in DOMAIN cols : Written(j, j.got[k])[c] \in Cells
  BY WrittenRead
<1> QED
  BY <1>2, <1>3

\* The file, parsed.
LEMMA ExportParsed ==
  ASSUME FilesInv, NEW j \in Exported, j.what # "sql"
  PROVE  /\ ParseImportFile(FileOf(j)).rows =
              [i \in DOMAIN j.got |-> Named(NamesOf(cols), Written(j, j.got[i]))]
         /\ ParseImportFile(FileOf(j)).columns \subseteq NameSet(cols)
<1>1. /\ j.what \in {"csv", "json", "csv-result", "json-result"}
      /\ j.got \in Seq(RowsOf(cols)) /\ j.names = NamesOf(cols)
      /\ j.what = "csv-result" => j.seen = cols
      /\ Listing(cols)
  BY ExportedRead DEF FilesInv, TableTyped
<1>2. CASE j.what \in {"json", "json-result"}
  <2>1. FileOf(j) = ToJSON(NamesOf(cols), j.got)
    BY <1>1, <1>2 DEF FileOf
  <2>2. FileOf(j).format = "json"
    BY <2>1 DEF ToJSON
  <2>3. ParseImportFile(FileOf(j)) = ParseJSON(ToJSON(NamesOf(cols), j.got))
    BY <2>1, <2>2 DEF ParseImportFile
  <2>4. \A i \in DOMAIN j.got : Written(j, j.got[i]) = j.got[i]
    BY <1>2 DEF Written
  <2> QED
    BY <1>1, <2>3, <2>4, JSONReadsBack
<1>3. CASE j.what \in {"csv", "csv-result"}
  <2> DEFINE written == [i \in DOMAIN j.got |-> Written(j, j.got[i])]
  <2>1. FileOf(j) = ToCSV(NamesOf(cols), written)
    <3>1. CASE j.what = "csv"
      <4>1. j.got = [i \in DOMAIN j.got |-> j.got[i]]
        BY <1>1
      <4>2. written = [i \in DOMAIN j.got |-> j.got[i]]
        BY <3>1 DEF Written
      <4> HIDE DEF written
      <4> QED
        BY <1>1, <3>1, <4>1, <4>2 DEF FileOf
    <3>2. CASE j.what = "csv-result"
      <4> DEFINE formatted == [i \in DOMAIN j.got |->
                                 [c \in DOMAIN j.got[i] |->
                                    FormatValue(j.seen[c].type, j.got[i][c])]]
      <4>1. FileOf(j) = ToCSV(j.names, formatted)
        BY <3>2 DEF FileOf
      <4>2. formatted = written
        BY <1>1, <3>2 DEF Written
      <4> HIDE DEF written, formatted
      <4> QED
        BY <1>1, <4>1, <4>2
    <3> QED
      BY <1>3, <3>1, <3>2
  <2>2. FileOf(j).format = "csv"
    BY <2>1 DEF ToCSV
  <2>3. written \in Seq([DOMAIN cols -> Cells]) /\ DOMAIN written = DOMAIN j.got
    <3> DEFINE S == [DOMAIN cols -> Cells]
    <3>1. \A i \in DOMAIN j.got : written[i] \in S
      BY WrittenRow
    <3>2. DOMAIN j.got = 1..Len(j.got) /\ Len(j.got) \in Nat
      BY <1>1
    <3>3. written = [i \in 1..Len(j.got) |-> written[i]]
      BY <3>2
    <3> HIDE DEF S, written
    <3>4. written \in [1..Len(j.got) -> S]
      BY <3>1, <3>2, <3>3
    <3>5. written \in Seq(S) /\ DOMAIN written = 1..Len(j.got)
      BY <3>2, <3>4
    <3> QED
      BY <3>2, <3>5 DEF S
  <2>4. ASSUME NEW i \in DOMAIN j.got
        PROVE  written[i] # <<"null">>
    <3> SUFFICES ASSUME written[i] = <<"null">>
                 PROVE  FALSE
      OBVIOUS
    <3>1. Written(j, j.got[i]) \in [DOMAIN cols -> Cells] /\ Written(j, j.got[i]) = <<"null">>
      BY WrittenRow
    <3>2. DOMAIN cols = 1..1 /\ Written(j, j.got[i])[1] = "null"
      BY <3>1
    <3>3. Reads(cols[1].type, "null") = j.got[i][1]
      BY <3>2, WrittenRead
    <3>4. j.got[i][1] = "null"
      BY <3>3 DEF Reads
    <3>5. j.got[i] \in [1..1 -> Cells]
      BY <1>1, <3>2 DEF RowsOf
    <3>6. j.got[i] = <<"null">>
      BY <3>4, <3>5
    <3> QED
      BY <1>3, <3>6 DEF Exported, HasBlankLine
  <2> HIDE DEF written
  <2>5. ParseCSV(FileOf(j)) =
           [columns |-> NameSet(cols),
            rows |-> [i \in DOMAIN written |-> Named(NamesOf(cols), written[i])]]
    BY <1>1, <2>1, <2>3, <2>4, CSVReadsBack
  <2>6. [i \in DOMAIN written |-> Named(NamesOf(cols), written[i])] =
           [i \in DOMAIN j.got |-> Named(NamesOf(cols), Written(j, j.got[i]))]
    BY <2>3 DEF written
  <2> QED
    BY <2>2, <2>5, <2>6 DEF ParseImportFile
<1> QED
  BY <1>1, <1>2, <1>3

\* The rows of the file, read back, by name.
RowsBack(j) ==
    IF j.what = "sql" THEN FileOf(j).body
    ELSE [k \in DOMAIN ParseImportFile(FileOf(j)).rows |->
             AsRead(ParseImportFile(FileOf(j)).rows[k])]

LEMMA ExportReadsBack ==
  ASSUME FilesInv, NEW j \in Exported
  PROVE  RowsBack(j) = [i \in DOMAIN j.got |-> Named(NamesOf(cols), j.got[i])]
<1>1. CASE j.what = "sql"
  <2>1. FileOf(j) = ToSQLDump(cols, j.got)
    BY <1>1, ExportedRead DEF FileOf
  <2> QED
    BY <1>1, <2>1 DEF RowsBack, ToSQLDump
<1>2. CASE j.what # "sql"
  <2> DEFINE rows == ParseImportFile(FileOf(j)).rows
  <2>1. rows = [i \in DOMAIN j.got |-> Named(NamesOf(cols), Written(j, j.got[i]))]
    BY <1>2, ExportParsed
  <2> HIDE DEF rows
  <2>2. ASSUME NEW k \in DOMAIN j.got
        PROVE  AsRead(rows[k]) = Named(NamesOf(cols), j.got[k])
    <3> DEFINE w == Written(j, j.got[k])
    <3>1. /\ DOMAIN rows[k] = NameSet(cols) /\ rows[k] = Named(NamesOf(cols), w)
          /\ Named(NamesOf(cols), j.got[k]) =
               [n \in NameSet(cols) |-> Named(NamesOf(cols), j.got[k])[n]]
      BY <2>1 DEF Named, NameSet
    <3>2. Listing(cols) /\ DOMAIN j.got[k] = DOMAIN cols /\ DOMAIN w = DOMAIN cols
      BY GotRow, WrittenRow DEF FilesInv, TableTyped, RowsOf
    <3> HIDE DEF w
    <3>3. ASSUME NEW n \in NameSet(cols)
          PROVE  Reads(ColumnNamed(cols, n).type, rows[k][n]) = Named(NamesOf(cols), j.got[k])[n]
      <4>1. PICK i \in DOMAIN cols : n = cols[i].name
        BY <3>2, ListingFacts
      <4>2. ColumnNamed(cols, n) = cols[i]
        BY <3>2, <4>1, ListingFacts
      <4>3. rows[k][n] = w[i] /\ Named(NamesOf(cols), j.got[k])[n] = j.got[k][i]
        BY <3>1, <3>2, <4>1, NamedValue
      <4>4. Reads(cols[i].type, w[i]) = j.got[k][i]
        BY WrittenRead DEF w
      <4> QED
        BY <4>2, <4>3, <4>4
    <3> QED
      BY <3>1, <3>3 DEF AsRead
  <2>3. DOMAIN rows = DOMAIN j.got
    BY <2>1
  <2>4. RowsBack(j) = [k \in DOMAIN rows |-> AsRead(rows[k])]
    BY <1>2 DEF RowsBack, rows
  <2> QED
    BY <2>2, <2>3, <2>4
<1> QED
  BY <1>1, <1>2

LEMMA PrefixByRows ==
  ASSUME NEW S, NEW s \in Seq(S), NEW t \in Seq(S), Len(s) <= Len(t),
         \A i \in 1..Len(s) : s[i] = t[i]
  PROVE  IsPrefix(s, t)
<1> DEFINE n == Len(s)
<1>1. n \in Nat /\ Len(t) \in Nat
  OBVIOUS
<1>2. /\ SubSeq(s, 1, n) \in Seq(S) /\ Len(SubSeq(s, 1, n)) = n
      /\ \A i \in 1..n : SubSeq(s, 1, n)[i] = s[i]
  BY <1>1, SubSeqProperties
<1>3. /\ SubSeq(t, 1, n) \in Seq(S) /\ Len(SubSeq(t, 1, n)) = n
      /\ \A i \in 1..n : SubSeq(t, 1, n)[i] = t[i]
  BY <1>1, SubSeqProperties
<1> DEFINE a == SubSeq(s, 1, n)
<1> DEFINE b == SubSeq(t, 1, n)
<1>4. a = b
  <2>1. a \in Seq(S) /\ b \in Seq(S) /\ Len(a) = Len(b) /\ \A i \in 1..Len(a) : a[i] = b[i]
    BY <1>1, <1>2, <1>3
  <2> HIDE DEF a, b
  <2> QED
    BY <2>1, SeqEqual
<1> QED
  BY <1>4 DEF IsPrefix

LEMMA ExportIsValid ==
  ASSUME FilesInv, NEW j \in Exported, j.what # "sql"
  PROVE  Validate(ParseImportFile(FileOf(j)), cols) = {}
<1> DEFINE parsed == ParseImportFile(FileOf(j))
<1>1. j.got \in Seq(RowsOf(cols)) /\ Listing(cols)
  BY ExportedRead DEF FilesInv, TableTyped
<1>2. /\ parsed.rows = [i \in DOMAIN j.got |-> Named(NamesOf(cols), Written(j, j.got[i]))]
      /\ parsed.columns \subseteq NameSet(cols)
  BY ExportParsed
<1> HIDE DEF parsed
<1>3. ASSUME NEW p \in (DOMAIN parsed.rows) \X (parsed.columns \cap NameSet(cols))
      PROVE  LET column == ColumnNamed(cols, p[2])
                 v == ValueOf(parsed.rows[p[1]], p[2])
             IN  IF v = "null" THEN column.nullable ELSE Plausible(v, column.type)
  <2>1. p[1] \in DOMAIN j.got /\ p[2] \in NameSet(cols)
    BY <1>2
  <2>2. PICK i \in DOMAIN cols : p[2] = cols[i].name
    BY <1>1, <2>1, ListingFacts
  <2> DEFINE r == Written(j, j.got[p[1]])
  <2>3. DOMAIN r = DOMAIN cols
    BY <2>1, WrittenRow
  <2>4. ValueOf(parsed.rows[p[1]], p[2]) = r[i]
    <3>1. parsed.rows[p[1]] = Named(NamesOf(cols), r)
      BY <1>2, <2>1
    <3>2. DOMAIN Named(NamesOf(cols), r) = NameSet(cols)
      BY DEF Named, NameSet
    <3> HIDE DEF r
    <3>3. Named(NamesOf(cols), r)[cols[i].name] = IF i \in DOMAIN r THEN r[i] ELSE "null"
      BY <1>1, NamedValue
    <3> QED
      BY <2>1, <2>2, <2>3, <3>1, <3>2, <3>3 DEF ValueOf
  <2>5. IF r[i] = "null" THEN cols[i].nullable ELSE Plausible(r[i], cols[i].type)
    BY <2>1, WrittenRead
  <2>6. ColumnNamed(cols, p[2]) = cols[i]
    BY <1>1, <2>2, ListingFacts
  <2> HIDE DEF r
  <2> QED
    BY <2>4, <2>5, <2>6
<1>4. parsed.columns \ NameSet(cols) = {}
  BY <1>2
<1>5. Validate(parsed, cols) = {}
  BY <1>3, <1>4 DEF Validate
<1> QED
  BY <1>5 DEF parsed

LEMMA ExactExport == FilesInv => ExportIsExact
<1> SUFFICES ASSUME FilesInv, NEW j \in Exported
             PROVE  /\ Len(RowsBack(j)) >= j.count
                    /\ IsPrefix(RowsBack(j), Lines)
                    /\ IF j.what = "sql"
                       THEN FileOf(j).names = [i \in DOMAIN cols |-> ColumnDumpInfo(cols[i])]
                       ELSE Validate(ParseImportFile(FileOf(j)), cols) = {}
  BY DEF ExportIsExact, RowsBack
<1>1. /\ j.got \in Seq(RowsOf(cols)) /\ lines \in Seq(RowsOf(cols))
      /\ Len(j.got) <= Len(lines) /\ \A i \in 1..Len(j.got) : j.got[i] = lines[i]
      /\ j.count \in Nat /\ j.count <= Len(j.got)
      /\ j.what = "sql" => j.seen = cols
  BY ExportedRead DEF FilesInv, TableTyped
<1>2. RowsBack(j) = [i \in DOMAIN j.got |-> Named(NamesOf(cols), j.got[i])]
  BY ExportReadsBack
<1> DEFINE rows == RowsBack(j)
<1> DEFINE S == {Named(NamesOf(cols), r) : r \in RowsOf(cols)}
<1>3. /\ Len(j.got) \in Nat /\ DOMAIN j.got = 1..Len(j.got)
      /\ Len(lines) \in Nat /\ DOMAIN lines = 1..Len(lines)
  BY <1>1
<1>4. /\ \A i \in 1..Len(j.got) : Named(NamesOf(cols), j.got[i]) \in S
      /\ \A i \in 1..Len(lines) : Named(NamesOf(cols), lines[i]) \in S
  BY <1>1, <1>3
<1> HIDE DEF S
<1>5. rows \in [1..Len(j.got) -> S] /\ Lines \in [1..Len(lines) -> S]
  BY <1>2, <1>3, <1>4 DEF Lines
<1>6. \A i \in 1..Len(j.got) : rows[i] = Lines[i]
  BY <1>1, <1>2, <1>3 DEF Lines
<1> HIDE DEF rows
<1>7. rows \in Seq(S) /\ Len(rows) = Len(j.got) /\ Lines \in Seq(S) /\ Len(Lines) = Len(lines)
  BY <1>3, <1>5
<1>8. IsPrefix(rows, Lines)
  BY <1>1, <1>6, <1>7, PrefixByRows
<1>9. Len(rows) >= j.count
  BY <1>1, <1>3, <1>7
<1>10. j.what = "sql" => FileOf(j).names = [i \in DOMAIN cols |-> ColumnDumpInfo(cols[i])]
  BY <1>1 DEF FileOf, ToSQLDump
<1>11. j.what # "sql" => Validate(ParseImportFile(FileOf(j)), cols) = {}
  BY ExportIsValid
<1> QED
  BY <1>8, <1>9, <1>10, <1>11 DEF rows

\* Unless another session inserts, deletes or updates rows before the end or
\* alters the table in the meantime, the file an export is about to write,
\* read back (ParseImportFile; a dump, by the database), holds the rows of
\* the table in their order, all there were at its beginning, for pages and
\* tables of any size, the importer finds nothing wrong with it, and a dump has
\* the columns but for their defaults (fetchAllTableRows, ToCSV, ToJSON,
\* ToSQLDump).  Two files are left out, which CSVKeepsTheRows and CSVIsAccepted
\* are about: a CSV file of one column with a NULL in it, and a query's result
\* written to CSV with a large number in a column of integers.
THEOREM ExportExact == FilesSpec => []ExportIsExact
<1>1. FilesInv /\ [FilesNext]_filesVars => FilesInv'
  BY FilesStep
<1> QED
  BY <1>1, FilesStart, ExactExport, PTL DEF FilesSpec

-----------------------------------------------------------------------------
(***************************************************************************)
(* What validation finds, and what the database takes.                     *)
(***************************************************************************)
\* What no finding of Validate means for a value of a known column.
LEMMA NothingFound ==
  ASSUME NEW cs, Listing(cs), NEW parsed, Validate(parsed, cs) = {}
  PROVE  /\ parsed.columns \subseteq NameSet(cs)
         /\ \A k \in DOMAIN parsed.rows : \A i \in DOMAIN cs :
               /\ cs[i].name \in parsed.columns
               /\ ~(cs[i].type # "text" /\ ValueOf(parsed.rows[k], cs[i].name) \in {"huge", "noon"})
               => Accepts(cs[i], Reads(cs[i].type, ValueOf(parsed.rows[k], cs[i].name)))
<1>1. parsed.columns \subseteq NameSet(cs)
  <2>1. \A n \in parsed.columns \ NameSet(cs) : <<0, n>> \in Validate(parsed, cs)
    BY DEF Validate
  <2> QED
    BY <2>1
<1>2. ASSUME NEW k \in DOMAIN parsed.rows, NEW i \in DOMAIN cs, cs[i].name \in parsed.columns,
             ~(cs[i].type # "text" /\ ValueOf(parsed.rows[k], cs[i].name) \in {"huge", "noon"})
      PROVE  Accepts(cs[i], Reads(cs[i].type, ValueOf(parsed.rows[k], cs[i].name)))
  <2> DEFINE n == cs[i].name
  <2> DEFINE v == ValueOf(parsed.rows[k], n)
  <2> DEFINE p == <<k, n>>
  <2>1. n \in NameSet(cs) /\ ColumnNamed(cs, n) = cs[i]
    BY ListingFacts
  <2>2. p \in (DOMAIN parsed.rows) \X (parsed.columns \cap NameSet(cs)) /\ p[1] = k /\ p[2] = n
    BY <1>2, <2>1
  <2> HIDE DEF p
  <2>3. ~ LET column == ColumnNamed(cs, p[2])
              w == ValueOf(parsed.rows[p[1]], p[2])
          IN  IF w = "null" THEN ~column.nullable ELSE ~Plausible(w, column.type)
    BY <2>2 DEF Validate
  <2>4. IF v = "null" THEN cs[i].nullable ELSE Plausible(v, cs[i].type)
    BY <2>1, <2>2, <2>3
  <2>5. cs[i].type \in {"integer", "numeric", "boolean", "datetime", "text"}
    BY ListingFacts DEF Column
  <2>6. ~(cs[i].type # "text" /\ v \in {"huge", "noon"})
    BY <1>2
  <2> HIDE DEF v
  <2>7. Accepts(cs[i], Reads(cs[i].type, v))
    BY <2>4, <2>5, <2>6 DEF Accepts, Reads, Literals, Plausible, Cells
  <2> QED
    BY <2>7 DEF v
<1> QED
  BY <1>1, <1>2

LEMMA DatabaseAgrees ==
  ASSUME Listing(cols), NEW parsed, Validate(parsed, cols) = {},
         \A c \in ToSet(cols) : c.nullable \/ c.default \/ c.name \in parsed.columns,
         ~OnlyLooksRight(parsed)
  PROVE  DatabaseTakes(parsed, cols)
<1>1. parsed.columns \subseteq NameSet(cols)
  BY NothingFound
<1>2. ASSUME NEW k \in DOMAIN parsed.rows, NEW i \in DOMAIN cols
      PROVE  Accepts(cols[i], Inserted(parsed.rows[k], cols, parsed)[i])
  <2>1. CASE cols[i].name \in parsed.columns
    <3>1. Inserted(parsed.rows[k], cols, parsed)[i]
            = Reads(cols[i].type, ValueOf(parsed.rows[k], cols[i].name))
      BY <2>1 DEF Inserted
    <3>2. parsed.rows[k] \in ToSet(parsed.rows)
      BY DEF ToSet
    <3>3. ~(cols[i].type # "text" /\ ValueOf(parsed.rows[k], cols[i].name) \in {"huge", "noon"})
      BY <3>2 DEF OnlyLooksRight
    <3> QED
      BY <2>1, <3>1, <3>3, NothingFound
  <2>2. CASE cols[i].name \notin parsed.columns
    <3>1. Inserted(parsed.rows[k], cols, parsed)[i] = Default(cols[i])
      BY <2>2 DEF Inserted
    <3>2. cols[i].nullable \/ cols[i].default
      BY <2>2 DEF ToSet
    <3>3. cols[i].default => cols[i].type = "text"
      BY DEF Listing
    <3>4. Accepts(cols[i], Default(cols[i]))
      BY <3>2, <3>3 DEF Default, Accepts, Literals, Cells
    <3> QED
      BY <3>1, <3>4
  <2> QED
    BY <2>1, <2>2
<1> QED
  BY <1>1, <1>2 DEF DatabaseTakes

\* The rows an INSERT has added are those of the file on the disk.
LEMMA AddedWhole ==
  ASSUME FilesInv, NEW j \in job, BulkInsert(j), lines' # lines, NEW f \in disk
  PROVE  /\ ParseImportFile(f).columns \subseteq NameSet(cols)
         /\ Len(lines') = Len(lines) + Len(ParseImportFile(f).rows)
         /\ \A k \in DOMAIN lines : lines'[k] = lines[k]
         /\ \A k \in DOMAIN ParseImportFile(f).rows : \A i \in DOMAIN cols :
               cols[i].name \in ParseImportFile(f).columns =>
                 lines'[Len(lines) + k][i]
                   = Reads(cols[i].type, ValueOf(ParseImportFile(f).rows[k], cols[i].name))
<1> DEFINE parsed == ParseImportFile(f)
<1>1. j.parsed = parsed /\ IsList(j.parsed.rows)
  BY DEF FilesInv, JobInv, BulkInsert
<1> HIDE DEF parsed
<1> DEFINE new == [k \in DOMAIN parsed.rows |-> Inserted(parsed.rows[k], cols, parsed)]
<1>2. DatabaseTakes(parsed, cols) /\ lines' = lines \o new
  BY <1>1 DEF BulkInsert
<1>3. parsed.columns \subseteq NameSet(cols)
  BY <1>2 DEF DatabaseTakes
<1>4. DOMAIN parsed.rows = 1..Len(parsed.rows) /\ Len(parsed.rows) \in Nat
  BY <1>1 DEF IsList
<1> DEFINE S == {new[k] : k \in DOMAIN parsed.rows} \cup RowsOf(cols)
<1>5. new \in [1..Len(parsed.rows) -> S]
  BY <1>4
<1>6. ASSUME NEW k \in DOMAIN parsed.rows, NEW i \in DOMAIN cols, cols[i].name \in parsed.columns
      PROVE  new[k][i] = Reads(cols[i].type, ValueOf(parsed.rows[k], cols[i].name))
  BY <1>6 DEF Inserted
<1> HIDE DEF new
<1>7. RowsOf(cols) \subseteq S
  OBVIOUS
<1> HIDE DEF S
<1>8. lines \in Seq(S)
  <2>1. lines \in Seq(RowsOf(cols))
    BY DEF FilesInv, TableTyped
  <2> DEFINE R == RowsOf(cols)
  <2>2. lines \in Seq(R) /\ R \subseteq S
    BY <1>7, <2>1
  <2> HIDE DEF R
  <2> QED
    BY <2>2
<1>9. new \in Seq(S) /\ Len(new) = Len(parsed.rows)
  BY <1>4, <1>5
<1>10. /\ Len(lines \o new) = Len(lines) + Len(parsed.rows)
       /\ \A k \in 1..Len(lines) + Len(parsed.rows) :
             (lines \o new)[k] = IF k <= Len(lines) THEN lines[k] ELSE new[k - Len(lines)]
  <2>1. /\ Len(lines \o new) = Len(lines) + Len(new)
        /\ \A k \in 1..Len(lines) + Len(new) :
              (lines \o new)[k] = IF k <= Len(lines) THEN lines[k] ELSE new[k - Len(lines)]
    BY <1>8, <1>9, ConcatProperties, Zenon
  <2> QED
    BY <1>9, <2>1
<1>11. Len(lines) \in Nat /\ DOMAIN lines = 1..Len(lines)
  BY <1>8
<1>12. ASSUME NEW k \in DOMAIN lines
       PROVE  lines'[k] = lines[k]
  <2>1. k \in 1..Len(lines) + Len(parsed.rows) /\ k <= Len(lines)
    BY <1>4, <1>11
  <2> QED
    BY <1>2, <1>10, <2>1
<1>13. ASSUME NEW k \in DOMAIN parsed.rows
       PROVE  lines'[Len(lines) + k] = new[k]
  <2>1. /\ Len(lines) + k \in 1..Len(lines) + Len(parsed.rows)
        /\ ~(Len(lines) + k <= Len(lines)) /\ Len(lines) + k - Len(lines) = k
    BY <1>4, <1>11
  <2> QED
    BY <1>2, <1>10, <2>1
<1>14. Len(lines') = Len(lines) + Len(parsed.rows)
  BY <1>2, <1>10
<1> QED
  BY <1>3, <1>6, <1>12, <1>13, <1>14 DEF parsed

\* An import adds every row of the file on the disk, each value in the column it
\* names and as the column reads it, or nothing (ImportFile,
\* BuildBulkInsertRows); and of what validation has let through, the database
\* refuses only what cannot be seen by looking (Validate, isValuePlausible),
\* whatever the columns, the rows, the other programs' files and what other
\* sessions do meanwhile.
THEOREM ImportsAreWhole == FilesSpec => ImportIsWhole
<1> DEFINE Whole ==
      \A j \in job, f \in disk :
        j.pc = "insert" /\ job' = {} /\ lines' # lines =>
        LET parsed == ParseImportFile(f)
        IN  /\ parsed.columns \subseteq NameSet(cols)
            /\ Len(lines') = Len(lines) + Len(parsed.rows)
            /\ \A k \in DOMAIN lines : lines'[k] = lines[k]
            /\ \A k \in DOMAIN parsed.rows : \A i \in DOMAIN cols :
                  cols[i].name \in parsed.columns =>
                    lines'[Len(lines) + k][i]
                      = Reads(cols[i].type, ValueOf(parsed.rows[k], cols[i].name))
<1>1. FilesInv /\ [FilesNext]_filesVars => FilesInv'
  BY FilesStep
<1>2. ASSUME FilesInv
      PROVE  ValidationAgrees
  <2>1. ASSUME NEW j \in job, j.pc = "insert", j.seen = cols, ~OnlyLooksRight(j.parsed),
               \A c \in ToSet(cols) : c.nullable \/ c.default \/ c.name \in j.parsed.columns
        PROVE  DatabaseTakes(j.parsed, cols)
    BY <1>2, <2>1, DatabaseAgrees DEF FilesInv, TableTyped, JobInv
  <2> QED
    BY <2>1 DEF ValidationAgrees
<1>3. FilesInv => ValidationAgrees
  BY <1>2
<1>4. ASSUME FilesInv, [FilesNext]_filesVars
      PROVE  [Whole]_filesVars
  <2> SUFFICES ASSUME NEW j \in job, NEW f \in disk, job' = {}, lines' # lines
               PROVE  LET parsed == ParseImportFile(f)
                      IN  /\ parsed.columns \subseteq NameSet(cols)
                          /\ Len(lines') = Len(lines) + Len(parsed.rows)
                          /\ \A k \in DOMAIN lines : lines'[k] = lines[k]
                          /\ \A k \in DOMAIN parsed.rows : \A i \in DOMAIN cols :
                                cols[i].name \in parsed.columns =>
                                  lines'[Len(lines) + k][i]
                                    = Reads(cols[i].type, ValueOf(parsed.rows[k], cols[i].name))
    OBVIOUS
  <2>1. ASSUME NEW newCols, NEW newLines, NEW calm
        PROVE  ~Others(newCols, newLines, calm)
    BY DEF Others
  <2>2. \E k \in job : BulkInsert(k)
    BY <1>4, <2>1 DEF FilesNext, filesVars, ExportTable, ExportQueryResult, ImportFile,
       TableInfo, ColumnTypes, FetchPage, JobStep, SaveFile, ReadFile, JobFails,
       OtherInserts, OtherDeletes, OtherAddsColumn, OtherDropsColumn, OtherFile
  <2> QED
    BY <1>4, <2>2, AddedWhole
<1>5. FilesSpec => []FilesInv
  BY <1>1, FilesStart, PTL DEF FilesSpec
<1>6. FilesSpec => []ValidationAgrees
  BY <1>3, <1>5, PTL
<1>7. FilesSpec => [][Whole]_filesVars
  BY <1>4, <1>5, PTL DEF FilesSpec
<1> QED
  BY <1>6, <1>7 DEF ImportIsWhole

-----------------------------------------------------------------------------
(***************************************************************************)
(* computeRelationFieldNames ends with a name nobody has: there are more   *)
(* numbers of "Ref" to append than names taken.                            *)
(***************************************************************************)
LEMMA LeastNumber ==
  ASSUME NEW T \in SUBSET Nat, T # {}
  PROVE  \E x \in T : \A y \in T : x <= y
<1>1. PICK x \in T : \A y \in T : ~(<<y, x>> \in OpToRel(<, Nat))
  BY NatLessThanWellFounded, WFMin
<1>2. ASSUME NEW y \in T
      PROVE  x <= y
  <2>1. x \in Nat /\ y \in Nat
    OBVIOUS
  <2>2. ~(y < x)
    BY <1>1, <2>1 DEF OpToRel
  <2> QED
    BY <2>1, <2>2
<1> QED
  BY <1>2

LEMMA ImageIsFinite ==
  ASSUME NEW S, IsFiniteSet(S), NEW f, DOMAIN f = S, NEW T, T = {f[x] : x \in S}
  PROVE  IsFiniteSet(T)
<1>1. [x \in S |-> f[x]] \in Surjection(S, T)
  BY DEF Surjection
<1> QED
  BY <1>1, FS_Surjection

\* A name with "Ref" appended n times.
Lengthened(name, n) == name \o [i \in 1..n |-> "Ref"]

LEMMA RefIsWord == "Ref" \in Words
  BY SchemaFilesAssumption

LEMMA Repeated ==
  ASSUME NEW S, NEW x \in S, NEW n \in Nat
  PROVE  [i \in 1..n |-> x] \in Seq(S) /\ Len([i \in 1..n |-> x]) = n
<1> DEFINE s == [i \in 1..n |-> x]
<1>1. s \in Seq(S)
  OBVIOUS
<1>2. Len(s) = n
  BY <1>1, LenProperties
<1> QED
  BY <1>1, <1>2

LEMMA LengthenedFacts ==
  ASSUME NEW name \in WordSeqs, NEW n \in Nat
  PROVE  /\ Lengthened(name, n) \in WordSeqs
         /\ Len(Lengthened(name, n)) = Len(name) + n
<1> DEFINE refs == [i \in 1..n |-> "Ref"]
<1>2. refs \in WordSeqs /\ Len(refs) = n
  BY RefIsWord, Repeated, Zenon DEF WordSeqs
<1>3. Lengthened(name, n) = name \o refs
  BY DEF Lengthened
<1> HIDE DEF refs
<1>4. name \o refs \in WordSeqs /\ Len(name \o refs) = Len(name) + Len(refs)
  BY <1>2, ConcatProperties DEF WordSeqs
<1> QED
  BY <1>2, <1>3, <1>4

LEMMA FreshIsFresh ==
  ASSUME NEW name \in WordSeqs, NEW taken, IsFiniteSet(taken)
  PROVE  Fresh(name, taken) \in WordSeqs \ taken
<1> DEFINE c == Cardinality(taken)
<1> DEFINE T == {n \in 0..c : Lengthened(name, n) \notin taken}
<1>1. c \in Nat
  BY FS_CardinalityType
<1>2. T # {}
  <2> SUFFICES ASSUME \A n \in 0..c : Lengthened(name, n) \in taken
               PROVE  FALSE
    OBVIOUS
  <2> DEFINE g == [n \in 0..c |-> Lengthened(name, n)]
  <2>1. IsFiniteSet(0..c) /\ Cardinality(0..c) = c + 1
    BY <1>1, FS_Interval
  <2>2. g \in [0..c -> taken]
    OBVIOUS
  <2>3. \E m, n \in 0..c : m # n /\ g[m] = g[n]
    <3> HIDE DEF g
    <3> QED
      BY <1>1, <2>1, <2>2, FS_PigeonHole
  <2>4. PICK m, n \in 0..c : m # n /\ Lengthened(name, m) = Lengthened(name, n)
    BY <2>3
  <2>5. Len(Lengthened(name, m)) = Len(name) + m /\ Len(Lengthened(name, n)) = Len(name) + n
    BY <1>1, LengthenedFacts
  <2>6. Len(name) \in Nat
    BY LenProperties DEF WordSeqs
  <2> QED
    BY <1>1, <2>4, <2>5, <2>6
<1>3. PICK x \in T : \A y \in T : x <= y
  <2>1. T \in SUBSET Nat
    BY <1>1
  <2> HIDE DEF T
  <2> QED
    BY <1>2, <2>1, LeastNumber
<1>4. /\ x \in 0..c /\ Lengthened(name, x) \notin taken
      /\ \A m \in 0..x - 1 : Lengthened(name, m) \in taken
  BY <1>1, <1>3
<1> DEFINE n == CHOOSE n \in 0..c : /\ Lengthened(name, n) \notin taken
                                   /\ \A m \in 0..n - 1 : Lengthened(name, m) \in taken
<1>5. n \in 0..c /\ Lengthened(name, n) \notin taken
  BY <1>4
<1>6. Fresh(name, taken) = Lengthened(name, n)
  BY DEF Fresh, Lengthened
<1> QED
  BY <1>1, <1>5, <1>6, LengthenedFacts

LEMMA BaseIsName ==
  ASSUME NEW column \in SchemaNames
  PROVE  Base(column) \in WordSeqs
<1>1. column \in Seq(Words) /\ Len(column) \in Nat
  BY LenProperties DEF SchemaNames, WordSeqs
<1>2. Append(column, "Ref") \in Seq(Words)
  BY <1>1, RefIsWord, AppendProperties, Zenon
<1>3. ASSUME Len(column) > 1
      PROVE  Front(column) \in Seq(Words)
  BY <1>1, <1>3, SubSeqProperties DEF Front
<1> QED
  BY <1>2, <1>3 DEF Base, WordSeqs

-----------------------------------------------------------------------------
(***************************************************************************)
(* Its loop: the recursive function is the one that the keys before each   *)
(* determine.                                                              *)
(***************************************************************************)
\* What the key at i may not be called, when those before it are `named`.
Taken(ts, fks, named, i) ==
    ColumnNames(ts, fks[i].table)
    \cup {named[j] : j \in {k \in 1..i - 1 : fks[k].table = fks[i].table}}
NameAt(ts, fks, named, i) == Fresh(Base(fks[i].column), Taken(ts, fks, named, i))

LEMMA SameNamesBefore ==
  ASSUME NEW ts, NEW fks, NEW i \in Nat, NEW f, NEW g, \A j \in 1..i - 1 : f[j] = g[j]
  PROVE  NameAt(ts, fks, f, i) = NameAt(ts, fks, g, i)
<1>1. Taken(ts, fks, f, i) = Taken(ts, fks, g, i)
  BY DEF Taken
<1> QED
  BY <1>1 DEF NameAt

LEMMA NamesExist ==
  ASSUME NEW ts, NEW fks, NEW n \in Nat
  PROVE  \E f : f = [i \in 1..n |-> NameAt(ts, fks, f, i)]
<1> DEFINE T == {m \in Nat : ~ \E f : f = [i \in 1..m |-> NameAt(ts, fks, f, i)]}
<1> SUFFICES T = {}
  OBVIOUS
<1>1. SUFFICES ASSUME T # {}
               PROVE  FALSE
  OBVIOUS
<1>2. PICK m \in T : \A y \in T : m <= y
  <2>1. T \in SUBSET Nat
    OBVIOUS
  <2> HIDE DEF T
  <2> QED
    BY <1>1, <2>1, LeastNumber
<1>3. m \in Nat /\ ~ \E f : f = [i \in 1..m |-> NameAt(ts, fks, f, i)]
  OBVIOUS
<1>4. m # 0
  <2> DEFINE e == [i \in 1..0 |-> 0]
  <2>1. e = [i \in 1..0 |-> NameAt(ts, fks, e, i)]
    OBVIOUS
  <2> QED
    BY <1>3, <2>1
<1>5. PICK f : f = [i \in 1..m - 1 |-> NameAt(ts, fks, f, i)]
  <2>1. m - 1 \in Nat /\ ~(m <= m - 1)
    BY <1>3, <1>4
  <2>2. m - 1 \notin T
    BY <1>2, <2>1
  <2> QED
    BY <2>1, <2>2
<1> DEFINE g == [i \in 1..m |-> IF i < m THEN f[i] ELSE NameAt(ts, fks, f, m)]
<1>6. \A j \in 1..m - 1 : g[j] = f[j]
  BY <1>3
<1>7. ASSUME NEW i \in 1..m
      PROVE  g[i] = NameAt(ts, fks, g, i)
  <2>1. i \in Nat /\ \A j \in 1..i - 1 : f[j] = g[j]
    BY <1>3, <1>6
  <2>2. NameAt(ts, fks, f, i) = NameAt(ts, fks, g, i)
    <3> HIDE DEF g
    <3> QED
      BY <2>1, SameNamesBefore
  <2>3. g[i] = NameAt(ts, fks, f, i)
    <3>1. CASE i < m
      <4>1. i \in 1..m - 1
        BY <1>3, <3>1
      <4> QED
        BY <1>5, <3>1, <4>1
    <3>2. CASE i = m
      BY <3>2
    <3> QED
      BY <1>3, <3>1, <3>2
  <2> QED
    BY <2>2, <2>3
<1>8. g = [i \in 1..m |-> g[i]]
  OBVIOUS
<1>9. g = [i \in 1..m |-> NameAt(ts, fks, g, i)]
  <2> HIDE DEF g
  <2> QED
    BY <1>7, <1>8, Zenon
<1> QED
  BY <1>3, <1>9

LEMMA FirstNamesUnfold ==
  ASSUME NEW ts, NEW fks, NEW n \in Nat, DOMAIN fks = 1..n
  PROVE  /\ DOMAIN FirstNames(ts, fks) = DOMAIN fks
         /\ \A i \in DOMAIN fks :
               FirstNames(ts, fks)[i] = NameAt(ts, fks, FirstNames(ts, fks), i)
<1> DEFINE f == FirstNames(ts, fks)
<1>1. f = CHOOSE g : g = [i \in DOMAIN fks |-> NameAt(ts, fks, g, i)]
  BY Zenon DEF FirstNames, NameAt, Taken
<1>2. \E g : g = [i \in DOMAIN fks |-> NameAt(ts, fks, g, i)]
  <2>1. PICK g : g = [i \in 1..n |-> NameAt(ts, fks, g, i)]
    BY NamesExist
  <2>2. g = [i \in DOMAIN fks |-> NameAt(ts, fks, g, i)]
    BY <2>1, Zenon
  <2> QED
    BY <2>2
<1> HIDE DEF f
<1>3. f = [i \in DOMAIN fks |-> NameAt(ts, fks, f, i)]
  BY <1>1, <1>2, Zenon
<1>4. DOMAIN f = DOMAIN fks /\ \A i \in DOMAIN fks : f[i] = NameAt(ts, fks, f, i)
  BY <1>3
<1> QED
  BY <1>4 DEF f

\* The keys that ListForeignKeys may return, and the tables they are between.
NamedKeys(ts, fks) ==
    /\ IsFiniteSet(ts)
    /\ \A t \in ts : IsTable(t)
    /\ \E n \in Nat : DOMAIN fks = 1..n
    /\ \A i \in DOMAIN fks :
          {fks[i].table, fks[i].column, fks[i].to, fks[i].on} \subseteq SchemaNames

LEMMA ColumnNamesFinite ==
  ASSUME NEW ts, IsFiniteSet(ts), \A t \in ts : IsTable(t), NEW table
  PROVE  IsFiniteSet(ColumnNames(ts, table)) /\ ColumnNames(ts, table) \subseteq SchemaNames
<1> DEFINE U == {u \in ts : u.name = table}
<1>1. IsFiniteSet(U)
  BY FS_Subset
<1>2. ASSUME NEW t \in ts
      PROVE  IsFiniteSet(Names(t.columns)) /\ Names(t.columns) \subseteq SchemaNames
  <2>1. t.columns \in Seq(ToSet(t.columns)) /\ Names(t.columns) \subseteq SchemaNames
    BY <1>2 DEF IsTable
  <2>2. Len(t.columns) \in Nat /\ DOMAIN t.columns = 1..Len(t.columns)
    BY <2>1, LenProperties
  <2>3. IsFiniteSet(DOMAIN t.columns)
    <3> DEFINE n == Len(t.columns)
    <3>1. IsFiniteSet(1..n)
      <4>1. n \in Nat
        BY <2>2
      <4> HIDE DEF n
      <4> QED
        BY <4>1, FS_Interval
    <3> QED
      BY <2>2, <3>1
  <2> DEFINE g == [i \in DOMAIN t.columns |-> t.columns[i].name]
  <2>4. DOMAIN g = DOMAIN t.columns /\ Names(t.columns) = {g[i] : i \in DOMAIN t.columns}
    BY DEF Names
  <2> HIDE DEF g
  <2> QED
    BY <2>1, <2>3, <2>4, ImageIsFinite
<1> DEFINE h == [t \in U |-> Names(t.columns)]
<1>3. DOMAIN h = U /\ {Names(t.columns) : t \in U} = {h[t] : t \in U}
  OBVIOUS
<1>4. IsFiniteSet({Names(t.columns) : t \in U})
  <2> DEFINE T == {h[t] : t \in U}
  <2>1. T = {h[t] : t \in U}
    OBVIOUS
  <2> HIDE DEF h, U, T
  <2>2. IsFiniteSet(T)
    BY <1>1, <1>3, <2>1, ImageIsFinite
  <2> QED
    BY <1>3, <2>1, <2>2, Zenon
<1>5. \A S \in {Names(t.columns) : t \in U} : IsFiniteSet(S) /\ S \subseteq SchemaNames
  BY <1>2
<1>6. ColumnNames(ts, table) = UNION {Names(t.columns) : t \in U}
  BY DEF ColumnNames
<1>7. IsFiniteSet(UNION {Names(t.columns) : t \in U})
  <2> HIDE DEF U
  <2> QED
    BY <1>4, <1>5, FS_UNION
<1> QED
  BY <1>5, <1>6, <1>7

LEMMA FirstNamesAreFresh ==
  ASSUME NEW ts, NEW fks, NamedKeys(ts, fks)
  PROVE  /\ DOMAIN FirstNames(ts, fks) = DOMAIN fks
         /\ \A i \in DOMAIN fks :
               /\ FirstNames(ts, fks)[i] \in WordSeqs
               /\ FirstNames(ts, fks)[i] \notin ColumnNames(ts, fks[i].table)
               /\ \A j \in DOMAIN fks :
                     /\ fks[i].table = fks[j].table
                     /\ FirstNames(ts, fks)[i] = FirstNames(ts, fks)[j]
                     => i = j
<1> DEFINE f == FirstNames(ts, fks)
<1>1. PICK n \in Nat : DOMAIN fks = 1..n
  BY DEF NamedKeys
<1>2. DOMAIN f = DOMAIN fks /\ \A i \in DOMAIN fks : f[i] = NameAt(ts, fks, f, i)
  BY <1>1, FirstNamesUnfold
<1> HIDE DEF f
<1>3. ASSUME NEW i \in DOMAIN fks
      PROVE  f[i] \in WordSeqs \ Taken(ts, fks, f, i)
  <2> DEFINE before == {k \in 1..i - 1 : fks[k].table = fks[i].table}
  <2>1. IsFiniteSet(ColumnNames(ts, fks[i].table))
    BY ColumnNamesFinite DEF NamedKeys
  <2>2. IsFiniteSet(before)
    <3>1. IsFiniteSet(1..i - 1)
      BY <1>1, FS_Interval
    <3> QED
      BY <3>1, FS_Subset
  <2>3. IsFiniteSet({f[j] : j \in before})
    <3> DEFINE g == [j \in before |-> f[j]]
    <3>1. DOMAIN g = before /\ {f[j] : j \in before} = {g[j] : j \in before}
      OBVIOUS
    <3> HIDE DEF g, before
    <3> QED
      BY <2>2, <3>1, ImageIsFinite
  <2>4. IsFiniteSet(Taken(ts, fks, f, i))
    <3>1. Taken(ts, fks, f, i) = ColumnNames(ts, fks[i].table) \cup {f[j] : j \in before}
      BY DEF Taken
    <3> HIDE DEF before
    <3> QED
      BY <2>1, <2>3, <3>1, FS_Union
  <2>5. Base(fks[i].column) \in WordSeqs
    BY BaseIsName DEF NamedKeys
  <2>6. NameAt(ts, fks, f, i) \in WordSeqs \ Taken(ts, fks, f, i)
    BY <2>4, <2>5, FreshIsFresh DEF NameAt
  <2> QED
    BY <1>2, <2>6
<1>4. ASSUME NEW i \in DOMAIN fks, NEW j \in DOMAIN fks, fks[i].table = fks[j].table, j < i
      PROVE  f[i] # f[j]
  <2>1. j \in {k \in 1..i - 1 : fks[k].table = fks[i].table}
    BY <1>1, <1>4
  <2>2. f[j] \in Taken(ts, fks, f, i)
    BY <2>1 DEF Taken
  <2> QED
    BY <1>3, <2>2
<1>5. ASSUME NEW i \in DOMAIN fks, NEW j \in DOMAIN fks, fks[i].table = fks[j].table, f[i] = f[j]
      PROVE  i = j
  <2>1. ~(j < i) /\ ~(i < j)
    BY <1>4, <1>5
  <2> QED
    BY <1>1, <2>1
<1>6. \A i \in DOMAIN fks : f[i] \in WordSeqs /\ f[i] \notin ColumnNames(ts, fks[i].table)
  BY <1>3 DEF Taken
<1> QED
  BY <1>2, <1>5, <1>6 DEF f

-----------------------------------------------------------------------------
(***************************************************************************)
(* What the second query returns of plain keys: each of them once.         *)
(***************************************************************************)
KeyEntry(k) ==
    [table |-> k.table, column |-> k.columns[1], to |-> k.to, on |-> k.on[1], pos |-> 1]

KeyList(fks) ==
    /\ \E n \in Nat : DOMAIN fks = 1..n
    /\ \A i \in DOMAIN fks : \E k \in keys : fks[i] = KeyEntry(k)
    /\ \A k \in keys : \E i \in DOMAIN fks : fks[i] = KeyEntry(k)
    /\ \A i, j \in DOMAIN fks :
          fks[i].table = fks[j].table /\ fks[i].column = fks[j].column => i = j

LEMMA PlainKeyFacts ==
  ASSUME \A k \in keys : IsKey(k), PlainKeys, NEW k \in keys
  PROVE  /\ DOMAIN k.columns = {1} /\ DOMAIN k.on = {1}
         /\ k.columns = <<k.columns[1]>>
         /\ {k.table, k.to, k.columns[1], k.on[1]} \subseteq SchemaNames
<1>1. k.columns \in Seq(SchemaNames) /\ k.on \in Seq(SchemaNames)
  BY DEF IsKey
<1>2. Len(k.columns) = 1 /\ Len(k.on) = 1
  BY DEF IsKey, PlainKeys
<1>3. DOMAIN k.columns = 1..1 /\ DOMAIN k.on = 1..1
  BY <1>1, <1>2, LenProperties
<1>4. k.columns[1] \in SchemaNames /\ k.on[1] \in SchemaNames
  BY <1>1, <1>2, ElementOfSeq
<1>5. k.columns = <<k.columns[1]>>
  BY <1>1, <1>2
<1> QED
  BY <1>3, <1>4, <1>5 DEF IsKey

LEMMA PlainColumns ==
  ASSUME \A k \in keys : IsKey(k), PlainKeys
  PROVE  KeyColumns = {KeyEntry(k) : k \in keys}
<1> DEFINE Namesakes(k) == {l \in keys : l.name = k.name}
           Columns(k, l, m) ==
             {[table |-> k.table, column |-> l.columns[i], to |-> m.to, on |-> m.on[j], pos |-> i] :
                i \in DOMAIN l.columns, j \in DOMAIN m.on}
           Paired(k) ==
             {[table |-> k.table, column |-> k.columns[i], to |-> k.to, on |-> k.on[i], pos |-> i] :
                i \in DOMAIN k.columns}
           Of(k) == IF dialect = "mysql" THEN Paired(k)
                    ELSE UNION {Columns(k, l, m) : l, m \in Namesakes(k)}
<1>1. KeyColumns = UNION {Of(k) : k \in keys}
  BY DEF KeyColumns
<1>2. ASSUME NEW k \in keys
      PROVE  Of(k) = {KeyEntry(k)}
  <2>1. DOMAIN k.columns = {1} /\ DOMAIN k.on = {1}
    BY PlainKeyFacts
  <2>2. Paired(k) = {KeyEntry(k)} /\ Columns(k, k, k) = {KeyEntry(k)}
    BY <2>1 DEF KeyEntry
  <2>3. Namesakes(k) = {k}
    BY DEF PlainKeys
  <2>4. UNION {Columns(k, l, m) : l, m \in {k}} = {KeyEntry(k)}
    <3> HIDE DEF Columns
    <3> QED
      BY <2>2
  <2> HIDE DEF Columns, Paired, Namesakes
  <2> QED
    BY <2>2, <2>3, <2>4
<1> HIDE DEF Of
<1> QED
  BY <1>1, <1>2

LEMMA KeysListed ==
  ASSUME \A k \in keys : IsKey(k), IsFiniteSet(keys), PlainKeys,
         NEW fks \in SetToSeqs(KeyColumns)
  PROVE  KeyList(fks)
<1> DEFINE S == {KeyEntry(k) : k \in keys}
           n == Cardinality(S)
<1>1. KeyColumns = S
  BY PlainColumns
<1>2. IsFiniteSet(S)
  <2> DEFINE g == [k \in keys |-> KeyEntry(k)]
  <2>1. DOMAIN g = keys /\ S = {g[k] : k \in keys}
    OBVIOUS
  <2> HIDE DEF g, S
  <2> QED
    BY <2>1, ImageIsFinite
<1>3. n \in Nat
  <2> HIDE DEF S
  <2> QED
    BY <1>2, FS_CardinalityType
<1>4. fks \in [1..n -> S] /\ \A i, j \in 1..n : i # j => fks[i] # fks[j]
  <2> HIDE DEF S
  <2> QED
    BY <1>1 DEF SetToSeqs
<1>5. \A s \in S : \E i \in 1..n : fks[i] = s
  <2> HIDE DEF S
  <2>1. fks \in Injection(1..n, S)
    BY <1>4 DEF Injection, IsInjective
  <2>2. Cardinality(1..n) = Cardinality(S)
    <3>1. n \in Nat
      BY <1>3
    <3> HIDE DEF n
    <3>2. Cardinality(1..n) = n
      BY <3>1, FS_Interval
    <3> QED
      BY <3>2 DEF n
  <2>3. fks \in Surjection(1..n, S)
    BY <1>2, <2>1, <2>2, FS_Injection
  <2> QED
    BY <2>3 DEF Surjection
<1>6. DOMAIN fks = 1..n
  BY <1>4
<1>7. ASSUME NEW i \in 1..n, NEW j \in 1..n, fks[i].table = fks[j].table,
             fks[i].column = fks[j].column
      PROVE  i = j
  <2>1. PICK k \in keys : fks[i] = KeyEntry(k)
    BY <1>4
  <2>2. PICK l \in keys : fks[j] = KeyEntry(l)
    BY <1>4
  <2>3. k.table = l.table /\ k.columns = l.columns
    BY <1>7, <2>1, <2>2, PlainKeyFacts DEF KeyEntry
  <2>4. k = l
    BY <2>3 DEF PlainKeys
  <2> QED
    BY <1>4, <2>1, <2>2, <2>4
<1>8. \A i \in 1..n : \E k \in keys : fks[i] = KeyEntry(k)
  BY <1>4
<1>9. \A k \in keys : \E i \in 1..n : fks[i] = KeyEntry(k)
  BY <1>5
<1> HIDE DEF n, S
<1> QED
  BY <1>3, <1>6, <1>7, <1>8, <1>9 DEF KeyList

\* A description whose two queries have seen the same schema, of plain keys.
Told(ts, fks) ==
    /\ IsFiniteSet(ts)
    /\ \A t \in ts : IsTable(t) /\ \A u \in ts : u.name = t.name => u = t
    /\ \A k \in keys : IsKey(k) /\ Refers(ts, k)
    /\ PlainKeys
    /\ KeyList(fks)

LEMMA ToldFacts ==
  ASSUME NEW ts, NEW fks, Told(ts, fks)
  PROVE  /\ NamedKeys(ts, fks)
         /\ \A i \in DOMAIN fks :
               /\ fks[i].column \in ColumnNames(ts, fks[i].table)
               /\ fks[i].on \in ColumnNames(ts, fks[i].to)
<1>1. ASSUME NEW i \in DOMAIN fks
      PROVE  /\ {fks[i].table, fks[i].column, fks[i].to, fks[i].on} \subseteq SchemaNames
             /\ fks[i].column \in ColumnNames(ts, fks[i].table)
             /\ fks[i].on \in ColumnNames(ts, fks[i].to)
  <2>1. PICK k \in keys : fks[i] = KeyEntry(k)
    BY DEF Told, KeyList
  <2>2. /\ fks[i].table = k.table /\ fks[i].column = k.columns[1]
        /\ fks[i].to = k.to /\ fks[i].on = k.on[1]
    BY <2>1 DEF KeyEntry
  <2>3. /\ {k.table, k.to, k.columns[1], k.on[1]} \subseteq SchemaNames
        /\ 1 \in DOMAIN k.columns
    BY PlainKeyFacts DEF Told
  <2> QED
    BY <2>2, <2>3 DEF Told, Refers
<1> QED
  BY <1>1 DEF NamedKeys, Told, KeyList

LEMMA RelationFacts ==
  ASSUME NEW ts, NEW fks, Told(ts, fks)
  PROVE  /\ DOMAIN RelationNames(ts, fks) = DOMAIN fks
         /\ \A i \in DOMAIN fks :
               /\ RelationNames(ts, fks)[i] \in WordSeqs
               /\ RelationNames(ts, fks)[i] \notin ColumnNames(ts, fks[i].table)
               /\ \A j \in DOMAIN fks :
                     /\ fks[i].table = fks[j].table
                     /\ RelationNames(ts, fks)[i] = RelationNames(ts, fks)[j]
                     => i = j
<1> DEFINE Last1(i) == CHOOSE j \in DOMAIN fks :
              /\ <<fks[j].table, fks[j].column>> = <<fks[i].table, fks[i].column>>
              /\ \A k \in DOMAIN fks :
                    <<fks[k].table, fks[k].column>> = <<fks[i].table, fks[i].column>> => k <= j
<1>1. ASSUME NEW i \in DOMAIN fks
      PROVE  Last1(i) = i
  <2>1. DOMAIN fks \subseteq Nat
    BY DEF Told, KeyList
  <2>2. \A j \in DOMAIN fks :
          <<fks[j].table, fks[j].column>> = <<fks[i].table, fks[i].column>> <=> j = i
    BY DEF Told, KeyList
  <2> QED
    BY <2>1, <2>2
<1>2. RelationNames(ts, fks) = [i \in DOMAIN fks |-> FirstNames(ts, fks)[Last1(i)]]
  BY Zenon DEF RelationNames
<1> HIDE DEF Last1
<1>3. /\ DOMAIN RelationNames(ts, fks) = DOMAIN fks
      /\ \A i \in DOMAIN fks : RelationNames(ts, fks)[i] = FirstNames(ts, fks)[i]
  BY <1>1, <1>2
<1>4. NamedKeys(ts, fks)
  BY ToldFacts
<1> QED
  BY <1>3, <1>4, FirstNamesAreFresh

LEMMA ListedKeys ==
  ASSUME NEW fks, KeyList(fks)
  PROVE  /\ \A i \in DOMAIN fks : \E k \in keys :
               /\ fks[i].table = k.table /\ fks[i].column = k.columns[1]
               /\ fks[i].to = k.to /\ fks[i].on = k.on[1]
         /\ \A k \in keys : \E i \in DOMAIN fks :
               /\ fks[i].table = k.table /\ fks[i].column = k.columns[1]
               /\ fks[i].to = k.to /\ fks[i].on = k.on[1]
<1>1. \A k \in keys :
         /\ KeyEntry(k).table = k.table /\ KeyEntry(k).column = k.columns[1]
         /\ KeyEntry(k).to = k.to /\ KeyEntry(k).on = k.on[1]
  BY DEF KeyEntry
<1>2. ASSUME NEW i \in DOMAIN fks
      PROVE  \E k \in keys :
               /\ fks[i].table = k.table /\ fks[i].column = k.columns[1]
               /\ fks[i].to = k.to /\ fks[i].on = k.on[1]
  <2>1. PICK k \in keys : fks[i] = KeyEntry(k)
    BY DEF KeyList
  <2> QED
    BY <1>1, <2>1
<1>3. ASSUME NEW k \in keys
      PROVE  \E i \in DOMAIN fks :
               /\ fks[i].table = k.table /\ fks[i].column = k.columns[1]
               /\ fks[i].to = k.to /\ fks[i].on = k.on[1]
  <2>1. PICK i \in DOMAIN fks : fks[i] = KeyEntry(k)
    BY DEF KeyList
  <2> QED
    BY <1>1, <2>1
<1> QED
  BY <1>2, <1>3

LEMMA DiagramComplete ==
  ASSUME NEW d, KeyList(d.fks)
  PROVE  DiagramIsComplete(d)
<1> DEFINE fks == d.fks
<1>0. KeyList(fks)
  OBVIOUS
<1> HIDE DEF fks
<1>1. /\ \A i \in DOMAIN fks : \E k \in keys :
            fks[i].table = k.table /\ fks[i].column = k.columns[1] /\ fks[i].to = k.to
      /\ \A k \in keys : \E i \in DOMAIN fks :
            fks[i].table = k.table /\ fks[i].column = k.columns[1] /\ fks[i].to = k.to
  BY <1>0, ListedKeys
<1>2. Marked(fks) = {<<k.table, k.columns[1]>> : k \in keys}
  BY <1>1 DEF Marked
<1>3. DiagramLines(fks) = {<<k.to, k.table, k.columns[1]>> : k \in keys}
  BY <1>1 DEF DiagramLines
<1> QED
  BY <1>2, <1>3 DEF DiagramIsComplete, fks

-----------------------------------------------------------------------------
(***************************************************************************)
(* The Prisma schema: the fields of a model, and who they refer to.        *)
(***************************************************************************)
LEMMA ModelShape ==
  ASSUME NEW ts, NEW fks, NEW t
  PROVE  /\ PrismaModel(ts, fks, t).name = t.name
         /\ DOMAIN PrismaModel(ts, fks, t).fields = Places(fks, t)
  BY DEF PrismaModel

LEMMA FieldAt ==
  ASSUME NEW ts, NEW fks, NEW t, NEW kind, NEW i, <<kind, i>> \in Places(fks, t)
  PROVE  PrismaModel(ts, fks, t).fields[<<kind, i>>] = PrismaField(ts, fks, t, kind, i)
  BY DEF PrismaModel

LEMMA ColumnField ==
  ASSUME NEW ts, NEW fks, NEW t, NEW i, <<"column", i>> \in Places(fks, t)
  PROVE  /\ PrismaModel(ts, fks, t).fields[<<"column", i>>].name = t.columns[i].name
         /\ PrismaModel(ts, fks, t).fields[<<"column", i>>].by = <<>>
         /\ PrismaModel(ts, fks, t).fields[<<"column", i>>].to = <<>>
<1>1. PrismaModel(ts, fks, t).fields[<<"column", i>>] = PrismaField(ts, fks, t, "column", i)
  BY FieldAt
<1>2. PrismaField(ts, fks, t, "column", i) =
        [name |-> t.columns[i].name, to |-> <<>>, by |-> <<>>, on |-> <<>>]
  BY DEF PrismaField
<1> QED
  BY <1>1, <1>2

LEMMA RelationField ==
  ASSUME NEW ts, NEW fks, NEW t, NEW i, <<"relation", i>> \in Places(fks, t)
  PROVE  /\ PrismaModel(ts, fks, t).fields[<<"relation", i>>].name = RelationNames(ts, fks)[i]
         /\ PrismaModel(ts, fks, t).fields[<<"relation", i>>].to = fks[i].to
         /\ PrismaModel(ts, fks, t).fields[<<"relation", i>>].by = fks[i].column
         /\ PrismaModel(ts, fks, t).fields[<<"relation", i>>].on = fks[i].on
<1>1. PrismaModel(ts, fks, t).fields[<<"relation", i>>] = PrismaField(ts, fks, t, "relation", i)
  BY FieldAt
<1>2. PrismaField(ts, fks, t, "relation", i) =
        [name |-> RelationNames(ts, fks)[i], to |-> fks[i].to,
         by |-> fks[i].column, on |-> fks[i].on]
  BY DEF PrismaField
<1> DEFINE f == PrismaModel(ts, fks, t).fields[<<"relation", i>>]
<1>3. f = [name |-> RelationNames(ts, fks)[i], to |-> fks[i].to,
           by |-> fks[i].column, on |-> fks[i].on]
  BY <1>1, <1>2, Zenon
<1> HIDE DEF f
<1>4. f.name = RelationNames(ts, fks)[i] /\ f.to = fks[i].to
  BY <1>3
<1>5. f.by = fks[i].column /\ f.on = fks[i].on
  BY <1>3
<1> QED
  BY <1>4, <1>5 DEF f

LEMMA EndField ==
  ASSUME NEW ts, NEW fks, NEW t, NEW i, <<"end", i>> \in Places(fks, t)
  PROVE  /\ PrismaModel(ts, fks, t).fields[<<"end", i>>].name =
              OtherEnd(ts, fks, i)
         /\ PrismaModel(ts, fks, t).fields[<<"end", i>>].by = <<>>
         /\ PrismaModel(ts, fks, t).fields[<<"end", i>>].to = fks[i].table
<1>1. PrismaModel(ts, fks, t).fields[<<"end", i>>] = PrismaField(ts, fks, t, "end", i)
  BY FieldAt
<1>2. PrismaField(ts, fks, t, "end", i) =
        [name |-> OtherEnd(ts, fks, i), to |-> fks[i].table,
         by |-> <<>>, on |-> <<>>]
  BY DEF PrismaField
<1> DEFINE f == PrismaModel(ts, fks, t).fields[<<"end", i>>]
           name == OtherEnd(ts, fks, i)
<1>3. f = [name |-> name, to |-> fks[i].table, by |-> <<>>, on |-> <<>>]
  BY <1>1, <1>2, Zenon
<1> HIDE DEF f, name
<1>4. f.name = name /\ f.by = <<>> /\ f.to = fks[i].table
  BY <1>3
<1> QED
  BY <1>4 DEF f, name

LEMMA PlaceKinds ==
  ASSUME NEW fks, NEW t
  PROVE  /\ \A p \in Places(fks, t) : \E i :
               \/ p = <<"column", i>> /\ i \in DOMAIN t.columns
               \/ p = <<"relation", i>> /\ i \in DOMAIN fks /\ fks[i].table = t.name
               \/ p = <<"end", i>> /\ i \in DOMAIN fks /\ fks[i].to = t.name
         /\ \A i \in DOMAIN t.columns : <<"column", i>> \in Places(fks, t)
         /\ \A i \in DOMAIN fks :
               /\ fks[i].table = t.name => <<"relation", i>> \in Places(fks, t)
               /\ fks[i].to = t.name => <<"end", i>> \in Places(fks, t)
BY DEF Places

ModelsOf(ts, fks) == {PrismaModel(ts, fks, t) : t \in ts}
FieldNamesOf(ts, fks, name) ==
    UNION {Names(m.fields) : m \in {n \in ModelsOf(ts, fks) : n.name = name}}

LEMMA FieldNamesHave ==
  ASSUME NEW ts, NEW fks, NEW t \in ts, NEW p \in Places(fks, t)
  PROVE  PrismaModel(ts, fks, t).fields[p].name \in FieldNamesOf(ts, fks, t.name)
<1> DEFINE m == PrismaModel(ts, fks, t)
<1>1. m \in ModelsOf(ts, fks) /\ m.name = t.name /\ DOMAIN m.fields = Places(fks, t)
  <2>1. m.name = t.name /\ DOMAIN m.fields = Places(fks, t)
    BY ModelShape, Zenon
  <2> QED
    BY <2>1 DEF ModelsOf
<1> HIDE DEF m
<1>2. m.fields[p].name \in Names(m.fields)
  BY <1>1 DEF Names
<1> QED
  BY <1>1, <1>2 DEF FieldNamesOf, m

LEMMA ColumnsAreFields ==
  ASSUME NEW ts, NEW fks, NEW name
  PROVE  ColumnNames(ts, name) \subseteq FieldNamesOf(ts, fks, name)
<1> SUFFICES ASSUME NEW x \in ColumnNames(ts, name)
             PROVE  x \in FieldNamesOf(ts, fks, name)
  OBVIOUS
<1>1. PICK t \in ts : t.name = name /\ x \in Names(t.columns)
  BY DEF ColumnNames
<1>2. PICK i \in DOMAIN t.columns : x = t.columns[i].name
  BY <1>1 DEF Names
<1>3. <<"column", i>> \in Places(fks, t)
  BY PlaceKinds
<1>4. PrismaModel(ts, fks, t).fields[<<"column", i>>].name = x
  BY <1>2, <1>3, ColumnField
<1> QED
  BY <1>1, <1>3, <1>4, FieldNamesHave

LEMMA FieldsDistinct ==
  ASSUME NEW d, Told(d.tables, d.fks), PlainNames(d), NEW t \in d.tables
  PROVE  LET m == PrismaModel(d.tables, d.fks, t)
         IN  IsInjection([p \in DOMAIN m.fields |-> m.fields[p].name])
<1> DEFINE ts == d.tables
           fks == d.fks
           m == PrismaModel(ts, fks, t)
           rel == RelationNames(ts, fks)
           End(i) == OtherEnd(ts, fks, i)
           F(p) == m.fields[p].name
<1>0. Told(ts, fks)
  OBVIOUS
<1>1. /\ DOMAIN m.fields = Places(fks, t)
      /\ \A i : <<"column", i>> \in Places(fks, t) => F(<<"column", i>>) = t.columns[i].name
      /\ \A i : <<"relation", i>> \in Places(fks, t) => F(<<"relation", i>>) = rel[i]
      /\ \A i : <<"end", i>> \in Places(fks, t) => F(<<"end", i>>) = End(i)
  <2>1. DOMAIN m.fields = Places(fks, t)
    BY ModelShape
  <2>2. \A i : <<"column", i>> \in Places(fks, t) => F(<<"column", i>>) = t.columns[i].name
    BY ColumnField
  <2>3. \A i : <<"relation", i>> \in Places(fks, t) => F(<<"relation", i>>) = rel[i]
    BY RelationField
  <2>4. \A i : <<"end", i>> \in Places(fks, t) => F(<<"end", i>>) = End(i)
    BY EndField
  <2> QED
    BY <2>1, <2>2, <2>3, <2>4
<1>2. \A i \in DOMAIN fks :
        /\ rel[i] \in WordSeqs /\ fks[i].table \in WordSeqs
        /\ rel[i] \notin ColumnNames(ts, fks[i].table)
        /\ \A j \in DOMAIN fks : fks[i].table = fks[j].table /\ rel[i] = rel[j] => i = j
  <2>1. NamedKeys(ts, fks)
    BY ToldFacts
  <2> QED
    BY <2>1, RelationFacts DEF NamedKeys, SchemaNames
<1>3. \A i \in DOMAIN t.columns : t.columns[i].name \in ColumnNames(ts, t.name)
  BY DEF ColumnNames, Names
<1>4. \A i, j \in DOMAIN t.columns : t.columns[i].name = t.columns[j].name => i = j
  BY <1>0 DEF Told, IsTable, IsInjection
<1>5. \A i \in DOMAIN fks :
        /\ End(i) \notin ColumnNames(ts, fks[i].to)
        /\ \A j \in DOMAIN fks :
              /\ fks[j].table = fks[i].to => rel[j] # End(i)
              /\ fks[j].to = fks[i].to /\ fks[j].table # fks[i].table =>
                    End(j) # End(i)
  BY Zenon DEF PlainNames
<1>6. ASSUME NEW i \in DOMAIN fks, NEW j \in DOMAIN fks, fks[j].to = fks[i].to,
             End(j) = End(i)
      PROVE  i = j
  <2>1. fks[j].table = fks[i].table
    BY <1>5, <1>6
  <2>2. rel[j] = rel[i]
    <3> DEFINE a == rel[j]
               b == rel[i]
               c == fks[i].table
    <3>1. a \in Seq(Words) /\ b \in Seq(Words) /\ c \in Seq(Words) /\ a \o c = b \o c
      BY <1>2, <1>6, <2>1 DEF WordSeqs, OtherEnd
    <3> HIDE DEF a, b, c
    <3>2. a = b
      BY <3>1, ConcatSimplifications
    <3> QED
      BY <3>2 DEF a, b
  <2> QED
    BY <1>2, <2>1, <2>2
<1> HIDE DEF ts, fks, rel, m, End
<1>7. ASSUME NEW p \in Places(fks, t), NEW q \in Places(fks, t), F(p) = F(q)
      PROVE  p = q
  <2>1. PICK i : \/ p = <<"column", i>> /\ i \in DOMAIN t.columns
                 \/ p = <<"relation", i>> /\ i \in DOMAIN fks /\ fks[i].table = t.name
                 \/ p = <<"end", i>> /\ i \in DOMAIN fks /\ fks[i].to = t.name
    BY PlaceKinds
  <2>2. PICK j : \/ q = <<"column", j>> /\ j \in DOMAIN t.columns
                 \/ q = <<"relation", j>> /\ j \in DOMAIN fks /\ fks[j].table = t.name
                 \/ q = <<"end", j>> /\ j \in DOMAIN fks /\ fks[j].to = t.name
    BY PlaceKinds
  <2>3. CASE p = <<"column", i>> /\ i \in DOMAIN t.columns
    <3>1. F(p) = t.columns[i].name
      BY <1>1, <2>3
    <3>2. CASE q = <<"column", j>> /\ j \in DOMAIN t.columns
      BY <1>1, <1>4, <1>7, <2>3, <3>1, <3>2
    <3>3. CASE q = <<"relation", j>> /\ j \in DOMAIN fks /\ fks[j].table = t.name
      BY <1>1, <1>2, <1>3, <1>7, <2>3, <3>1, <3>3
    <3>4. CASE q = <<"end", j>> /\ j \in DOMAIN fks /\ fks[j].to = t.name
      BY <1>1, <1>3, <1>5, <1>7, <2>3, <3>1, <3>4
    <3> QED
      BY <2>2, <3>2, <3>3, <3>4
  <2>4. CASE p = <<"relation", i>> /\ i \in DOMAIN fks /\ fks[i].table = t.name
    <3>1. F(p) = rel[i]
      BY <1>1, <2>4
    <3>2. CASE q = <<"column", j>> /\ j \in DOMAIN t.columns
      BY <1>1, <1>2, <1>3, <1>7, <2>4, <3>1, <3>2
    <3>3. CASE q = <<"relation", j>> /\ j \in DOMAIN fks /\ fks[j].table = t.name
      BY <1>1, <1>2, <1>7, <2>4, <3>1, <3>3
    <3>4. CASE q = <<"end", j>> /\ j \in DOMAIN fks /\ fks[j].to = t.name
      <4>1. F(q) = End(j)
        BY <1>1, <3>4
      <4>2. rel[i] # End(j)
        BY <1>5, <2>4, <3>4
      <4> QED
        BY <1>7, <3>1, <4>1, <4>2
    <3> QED
      BY <2>2, <3>2, <3>3, <3>4
  <2>5. CASE p = <<"end", i>> /\ i \in DOMAIN fks /\ fks[i].to = t.name
    <3>1. F(p) = End(i)
      BY <1>1, <2>5
    <3>2. CASE q = <<"column", j>> /\ j \in DOMAIN t.columns
      BY <1>1, <1>3, <1>5, <1>7, <2>5, <3>1, <3>2
    <3>3. CASE q = <<"relation", j>> /\ j \in DOMAIN fks /\ fks[j].table = t.name
      BY <1>1, <1>5, <1>7, <2>5, <3>1, <3>3
    <3>4. CASE q = <<"end", j>> /\ j \in DOMAIN fks /\ fks[j].to = t.name
      BY <1>1, <1>6, <1>7, <2>5, <3>1, <3>4
    <3> QED
      BY <2>2, <3>2, <3>3, <3>4
  <2> QED
    BY <2>1, <2>3, <2>4, <2>5
<1>8. IsInjection([p \in DOMAIN m.fields |-> m.fields[p].name])
  BY <1>1, <1>7 DEF IsInjection
<1> QED
  BY <1>8 DEF m, ts, fks

LEMMA PrismaIsClosed ==
  ASSUME NEW d, Told(d.tables, d.fks), PlainNames(d)
  PROVE  PrismaRefers(d)
<1> DEFINE ts == d.tables
           fks == d.fks
           rel == RelationNames(ts, fks)
           M(t) == PrismaModel(ts, fks, t)
<1>0. Told(ts, fks) /\ KeyList(fks)
  BY DEF Told
<1>1. \A i \in DOMAIN fks :
         /\ {fks[i].table, fks[i].column, fks[i].to, fks[i].on} \subseteq SchemaNames
         /\ fks[i].column \in ColumnNames(ts, fks[i].table)
         /\ fks[i].on \in ColumnNames(ts, fks[i].to)
  BY <1>0, ToldFacts DEF NamedKeys
<1>2. \A t \in ts : IsInjection([p \in DOMAIN M(t).fields |-> M(t).fields[p].name])
  BY FieldsDistinct
<1> HIDE DEF ts, fks, rel
<1>3. ASSUME NEW t \in ts, NEW f \in ToSet(M(t).fields), f.by # <<>>
      PROVE  \E i \in DOMAIN fks :
               /\ fks[i].table = t.name
               /\ f.name = rel[i] /\ f.to = fks[i].to /\ f.by = fks[i].column /\ f.on = fks[i].on
  <2>1. PICK p \in Places(fks, t) : f = M(t).fields[p]
    <3>1. DOMAIN M(t).fields = Places(fks, t)
      BY ModelShape, Zenon
    <3> HIDE DEF M
    <3> QED
      BY <3>1 DEF ToSet
  <2>2. PICK i : \/ p = <<"column", i>> /\ i \in DOMAIN t.columns
                 \/ p = <<"relation", i>> /\ i \in DOMAIN fks /\ fks[i].table = t.name
                 \/ p = <<"end", i>> /\ i \in DOMAIN fks /\ fks[i].to = t.name
    BY PlaceKinds
  <2>3. p # <<"column", i>> /\ p # <<"end", i>>
    <3>1. <<"column", i>> \in Places(fks, t) => M(t).fields[<<"column", i>>].by = <<>>
      BY ColumnField
    <3>2. <<"end", i>> \in Places(fks, t) => M(t).fields[<<"end", i>>].by = <<>>
      BY EndField
    <3> HIDE DEF M
    <3> QED
      BY <1>3, <2>1, <3>1, <3>2
  <2>4. p = <<"relation", i>> /\ i \in DOMAIN fks /\ fks[i].table = t.name
    BY <2>2, <2>3
  <2>5. f.name = rel[i] /\ f.to = fks[i].to /\ f.by = fks[i].column /\ f.on = fks[i].on
    BY <2>1, <2>4, RelationField DEF rel
  <2> QED
    BY <2>4, <2>5
<1>4. ASSUME NEW t \in ts, NEW f \in ToSet(M(t).fields), f.by # <<>>
      PROVE  /\ f.by \in FieldNamesOf(ts, fks, t.name)
             /\ {f.on, f.name \o t.name} \subseteq FieldNamesOf(ts, fks, f.to)
  <2>1. PICK i \in DOMAIN fks :
           /\ fks[i].table = t.name
           /\ f.name = rel[i] /\ f.to = fks[i].to /\ f.by = fks[i].column /\ f.on = fks[i].on
    BY <1>3, <1>4
  <2>2. f.name = rel[i] /\ f.to = fks[i].to /\ f.by = fks[i].column /\ f.on = fks[i].on
    BY <2>1
  <2>3. f.by \in FieldNamesOf(ts, fks, t.name) /\ f.on \in FieldNamesOf(ts, fks, f.to)
    BY <1>1, <2>1, <2>2, ColumnsAreFields
  <2>4. PICK u \in ts : u.name = fks[i].to
    BY <1>1 DEF ColumnNames
  <2>5. <<"end", i>> \in Places(fks, u)
    BY <2>4, PlaceKinds
  <2>6. M(u).fields[<<"end", i>>].name = OtherEnd(ts, fks, i)
    BY <2>5, EndField
  <2>7. OtherEnd(ts, fks, i) \in FieldNamesOf(ts, fks, u.name)
    BY <2>5, <2>6, FieldNamesHave
  <2>8. OtherEnd(ts, fks, i) = f.name \o t.name
    BY <2>1, <2>2 DEF OtherEnd, rel
  <2> QED
    BY <2>2, <2>3, <2>4, <2>7, <2>8
<1>5. ASSUME NEW t \in ts
      PROVE  {<<f.by, f.to, f.on>> : f \in {g \in ToSet(M(t).fields) : g.by # <<>>}} =
             {<<k.columns[1], k.to, k.on[1]>> : k \in {l \in keys : l.table = t.name}}
  <2>1. ASSUME NEW f \in ToSet(M(t).fields), f.by # <<>>
        PROVE  \E k \in keys : /\ k.table = t.name
                               /\ <<f.by, f.to, f.on>> = <<k.columns[1], k.to, k.on[1]>>
    <3>1. PICK i \in DOMAIN fks :
             /\ fks[i].table = t.name
             /\ f.to = fks[i].to /\ f.by = fks[i].column /\ f.on = fks[i].on
      BY <1>3, <2>1
    <3>3. PICK k \in keys : /\ fks[i].table = k.table /\ fks[i].column = k.columns[1]
                            /\ fks[i].to = k.to /\ fks[i].on = k.on[1]
      BY <1>0, ListedKeys
    <3> QED
      BY <3>1, <3>3
  <2>2. ASSUME NEW k \in keys, k.table = t.name
        PROVE  \E f \in ToSet(M(t).fields) :
                  f.by # <<>> /\ <<f.by, f.to, f.on>> = <<k.columns[1], k.to, k.on[1]>>
    <3>1. PICK i \in DOMAIN fks : /\ fks[i].table = k.table /\ fks[i].column = k.columns[1]
                                  /\ fks[i].to = k.to /\ fks[i].on = k.on[1]
      BY <1>0, ListedKeys
    <3>2. <<"relation", i>> \in Places(fks, t)
      BY <2>2, <3>1, PlaceKinds
    <3> DEFINE f == M(t).fields[<<"relation", i>>]
    <3>3. f.to = fks[i].to /\ f.by = fks[i].column /\ f.on = fks[i].on
      BY <3>2, RelationField
    <3>4. f \in ToSet(M(t).fields)
      <4>1. DOMAIN M(t).fields = Places(fks, t)
        BY ModelShape, Zenon
      <4> HIDE DEF M
      <4> QED
        BY <3>2, <4>1 DEF ToSet
    <3>5. fks[i].column # <<>>
      BY <1>1 DEF SchemaNames
    <3> HIDE DEF f
    <3> QED
      BY <3>1, <3>3, <3>4, <3>5
  <2> HIDE DEF M
  <2> QED
    BY <2>1, <2>2
<1>6. ASSUME NEW t \in ts, NEW u \in ts, M(u).name = M(t).name
      PROVE  M(u) = M(t)
  <2>1. M(u).name = u.name /\ M(t).name = t.name
    BY ModelShape, Zenon
  <2>2. u = t
    BY <1>0, <1>6, <2>1 DEF Told
  <2> QED
    BY <2>2
<1>7. ASSUME NEW m \in ModelsOf(ts, fks)
      PROVE  /\ \A n \in ModelsOf(ts, fks) : n.name = m.name => n = m
             /\ IsInjection([p \in DOMAIN m.fields |-> m.fields[p].name])
             /\ \A f \in ToSet(m.fields) :
                   f.by # <<>> => f.by \in FieldNamesOf(ts, fks, m.name) /\
                        {f.on, f.name \o m.name} \subseteq FieldNamesOf(ts, fks, f.to)
             /\ {<<f.by, f.to, f.on>> : f \in {g \in ToSet(m.fields) : g.by # <<>>}} =
                {<<k.columns[1], k.to, k.on[1]>> : k \in {l \in keys : l.table = m.name}}
  <2>1. PICK t \in ts : m = M(t)
    BY DEF ModelsOf
  <2>2. M(t).name = t.name
    BY ModelShape, Zenon
  <2>3. \A n \in ModelsOf(ts, fks) : n.name = m.name => n = m
    <3>1. \A n \in ModelsOf(ts, fks) : \E u \in ts : n = M(u)
      BY DEF ModelsOf
    <3> HIDE DEF M
    <3> QED
      BY <1>6, <2>1, <3>1
  <2>4. IsInjection([p \in DOMAIN m.fields |-> m.fields[p].name])
    BY <1>2, <2>1, Zenon
  <2>5. \A f \in ToSet(m.fields) :
           f.by # <<>> => f.by \in FieldNamesOf(ts, fks, m.name) /\
                {f.on, f.name \o m.name} \subseteq FieldNamesOf(ts, fks, f.to)
    <3> HIDE DEF M
    <3> QED
      BY <1>4, <2>1, <2>2, Zenon
  <2>6. {<<f.by, f.to, f.on>> : f \in {g \in ToSet(m.fields) : g.by # <<>>}} =
        {<<k.columns[1], k.to, k.on[1]>> : k \in {l \in keys : l.table = m.name}}
    <3> HIDE DEF M
    <3> QED
      BY <1>5, <2>1, <2>2, Zenon
  <2> QED
    BY <2>3, <2>4, <2>5, <2>6
<1> QED
  BY <1>7, Zenon DEF PrismaRefers, ModelsOf, FieldNamesOf, ts, fks

LEMMA LoneEntries ==
  ASSUME NEW fks, KeyList(fks), LoneKeys
  PROVE  \A i, j \in DOMAIN fks :
            /\ fks[i].table # fks[i].to
            /\ {fks[i].table, fks[i].to} = {fks[j].table, fks[j].to} => i = j
<1> SUFFICES ASSUME NEW i \in DOMAIN fks, NEW j \in DOMAIN fks
             PROVE  /\ fks[i].table # fks[i].to
                    /\ {fks[i].table, fks[i].to} = {fks[j].table, fks[j].to} => i = j
  OBVIOUS
<1>1. PICK k \in keys : fks[i] = KeyEntry(k)
  BY DEF KeyList
<1>2. PICK l \in keys : fks[j] = KeyEntry(l)
  BY DEF KeyList
<1>3. /\ fks[i].table = k.table /\ fks[i].to = k.to /\ fks[i].column = k.columns[1]
      /\ fks[j].table = l.table /\ fks[j].to = l.to /\ fks[j].column = l.columns[1]
  BY <1>1, <1>2 DEF KeyEntry
<1>4. k.table # k.to /\ ({l.table, l.to} = {k.table, k.to} => l = k)
  BY Zenon DEF LoneKeys
<1>5. fks[i].table = fks[j].table /\ fks[i].column = fks[j].column => i = j
  BY DEF KeyList
<1> QED
  BY <1>3, <1>4, <1>5

LEMMA PrismaIsUsable ==
  ASSUME NEW d, Told(d.tables, d.fks), PlainNames(d), LoneKeys
  PROVE  PrismaResolves(d)
<1> DEFINE fks == d.fks
           Fields(t) == PrismaModel(d.tables, fks, t).fields
<1>1. \A i, j \in DOMAIN fks :
         /\ fks[i].table # fks[i].to
         /\ {fks[i].table, fks[i].to} = {fks[j].table, fks[j].to} => i = j
  BY LoneEntries DEF Told
<1>2. ASSUME NEW t \in d.tables
      PROVE  /\ DOMAIN Fields(t) = Places(fks, t)
             /\ \A i : <<"column", i>> \in Places(fks, t) => Fields(t)[<<"column", i>>].to = <<>>
             /\ \A i : <<"relation", i>> \in Places(fks, t) =>
                          Fields(t)[<<"relation", i>>].to = fks[i].to
             /\ \A i : <<"end", i>> \in Places(fks, t) =>
                          Fields(t)[<<"end", i>>].to = fks[i].table
  <2>1. DOMAIN Fields(t) = Places(fks, t)
    BY ModelShape DEF Fields, fks
  <2>2. \A i : <<"column", i>> \in Places(fks, t) => Fields(t)[<<"column", i>>].to = <<>>
    BY ColumnField
  <2>3. \A i : <<"relation", i>> \in Places(fks, t) =>
               Fields(t)[<<"relation", i>>].to = fks[i].to
    BY RelationField
  <2>4. \A i : <<"end", i>> \in Places(fks, t) => Fields(t)[<<"end", i>>].to = fks[i].table
    BY EndField
  <2> QED
    BY <2>1, <2>2, <2>3, <2>4
<1> HIDE DEF fks, Fields
<1>3. ASSUME NEW t \in d.tables, NEW p \in DOMAIN Fields(t), NEW q \in DOMAIN Fields(t),
             Fields(t)[p].to = Fields(t)[q].to, Fields(t)[p].to # <<>>
      PROVE  p = q
  <2>1. p \in Places(fks, t) /\ q \in Places(fks, t)
    BY <1>2, <1>3
  <2>2. PICK i : \/ p = <<"column", i>>
                 \/ /\ p = <<"relation", i>> /\ i \in DOMAIN fks /\ fks[i].table = t.name
                    /\ Fields(t)[p].to = fks[i].to
                 \/ /\ p = <<"end", i>> /\ i \in DOMAIN fks /\ fks[i].to = t.name
                    /\ Fields(t)[p].to = fks[i].table
    BY <1>2, <2>1, PlaceKinds
  <2>3. PICK j : \/ q = <<"column", j>>
                 \/ /\ q = <<"relation", j>> /\ j \in DOMAIN fks /\ fks[j].table = t.name
                    /\ Fields(t)[q].to = fks[j].to
                 \/ /\ q = <<"end", j>> /\ j \in DOMAIN fks /\ fks[j].to = t.name
                    /\ Fields(t)[q].to = fks[j].table
    BY <1>2, <2>1, PlaceKinds
  <2>4. p # <<"column", i>> /\ q # <<"column", j>>
    BY <1>2, <1>3, <2>1
  <2>5. i \in DOMAIN fks /\ j \in DOMAIN fks
    BY <2>2, <2>3, <2>4
  <2>6. {fks[i].table, fks[i].to} = {fks[j].table, fks[j].to}
    BY <1>3, <2>2, <2>3, <2>4
  <2>7. i = j /\ fks[i].table # fks[i].to
    BY <1>1, <2>5, <2>6
  <2> QED
    BY <1>3, <2>2, <2>3, <2>4, <2>7
<1>4. PrismaRefers(d)
  BY PrismaIsClosed
<1> QED
  BY <1>3, <1>4 DEF PrismaResolves, Fields, fks

-----------------------------------------------------------------------------
(***************************************************************************)
(* The Drizzle schema: a column's reference is that of its one key.        *)
(***************************************************************************)
Referring(fks, t, i) ==
    {j \in DOMAIN fks : fks[j].table = t.name /\ fks[j].column = t.columns[i].name}

LEMMA DrizzleShape ==
  ASSUME NEW fks, NEW t
  PROVE  /\ DrizzleTable(fks, t).var = CamelCase(t.name)
         /\ DOMAIN DrizzleTable(fks, t).columns = DOMAIN t.columns
         /\ \A i \in DOMAIN t.columns :
               DrizzleTable(fks, t).columns[i].prop = CamelCase(t.columns[i].name)
BY DEF DrizzleTable

LEMMA DrizzleReference ==
  ASSUME NEW fks, KeyList(fks), NEW t, NEW i \in DOMAIN t.columns
  PROVE  /\ Referring(fks, t, i) = {} => DrizzleTable(fks, t).columns[i].ref = <<>>
         /\ \A j \in Referring(fks, t, i) :
               DrizzleTable(fks, t).columns[i].ref =
                 <<CamelCase(fks[j].to), CamelCase(fks[j].on)>>
<1> DEFINE mine == Referring(fks, t, i)
           latest == CHOOSE j \in mine : \A k \in mine : k <= j
           ref == DrizzleTable(fks, t).columns[i].ref
<1>1. ref = IF mine = {} THEN <<>>
            ELSE <<CamelCase(fks[latest].to), CamelCase(fks[latest].on)>>
  BY DEF DrizzleTable, Referring
<1>2. ASSUME NEW j \in mine
      PROVE  mine # {} /\ latest = j
  <2>1. \A k \in mine : k = j
    BY DEF Referring, KeyList
  <2>2. j <= j
    BY DEF Referring, KeyList
  <2> HIDE DEF mine
  <2> QED
    BY <1>2, <2>1, <2>2
<1> HIDE DEF mine, latest, ref
<1>3. ASSUME NEW j \in mine
      PROVE  ref = <<CamelCase(fks[j].to), CamelCase(fks[j].on)>>
  BY <1>1, <1>2
<1>4. mine = {} => ref = <<>>
  BY <1>1
<1> QED
  BY <1>3, <1>4 DEF mine, ref

LEMMA DrizzleIsUsable ==
  ASSUME NEW d, Told(d.tables, d.fks), PlainNames(d)
  PROVE  DrizzleResolves(d)
<1> DEFINE ts == d.tables
           fks == d.fks
           D(t) == DrizzleTable(fks, t)
           file == {D(t) : t \in ts}
<1>0. Told(ts, fks) /\ KeyList(fks)
  BY DEF Told
<1>1. /\ \A t, u \in ts : CamelCase(t.name) = CamelCase(u.name) => t.name = u.name
      /\ \A t \in ts : \A m, n \in Names(t.columns) : CamelCase(m) = CamelCase(n) => m = n
  BY Zenon DEF PlainNames
<1> HIDE DEF ts, fks
<1>2. \A t, u \in ts : t.name = u.name => t = u
  BY <1>0 DEF Told
<1>3. ASSUME NEW t \in ts, NEW i \in DOMAIN t.columns, D(t).columns[i].ref # <<>>
      PROVE  \E j \in DOMAIN fks :
               /\ fks[j].table = t.name /\ fks[j].column = t.columns[i].name
               /\ D(t).columns[i].ref = <<CamelCase(fks[j].to), CamelCase(fks[j].on)>>
  <2>1. PICK j \in Referring(fks, t, i) : TRUE
    BY <1>0, <1>3, DrizzleReference
  <2>2. D(t).columns[i].ref = <<CamelCase(fks[j].to), CamelCase(fks[j].on)>>
    BY <1>0, <2>1, DrizzleReference
  <2> HIDE DEF D
  <2> QED
    BY <2>1, <2>2 DEF Referring
<1>4. ASSUME NEW t \in ts
      PROVE  IsInjection([i \in DOMAIN D(t).columns |-> D(t).columns[i].prop])
  <2>1. ASSUME NEW i \in DOMAIN t.columns, NEW j \in DOMAIN t.columns,
               D(t).columns[i].prop = D(t).columns[j].prop
        PROVE  i = j
    <3>1. CamelCase(t.columns[i].name) = CamelCase(t.columns[j].name)
      BY <2>1, DrizzleShape
    <3>2. t.columns[i].name = t.columns[j].name
      BY <1>1, <3>1 DEF Names
    <3> QED
      BY <1>0, <3>2 DEF Told, IsTable, IsInjection
  <2>2. DOMAIN D(t).columns = DOMAIN t.columns
    BY DrizzleShape
  <2> HIDE DEF D
  <2> QED
    BY <2>1, <2>2 DEF IsInjection
<1>5. ASSUME NEW name, NEW column \in ColumnNames(ts, name)
      PROVE  \E u \in ts : \E e \in ToSet(D(u).columns) :
                u.name = name /\ e.prop = CamelCase(column)
  <2>1. PICK u \in ts : u.name = name /\ column \in Names(u.columns)
    BY DEF ColumnNames
  <2>2. PICK i \in DOMAIN u.columns : column = u.columns[i].name
    BY <2>1 DEF Names
  <2>3. D(u).columns[i].prop = CamelCase(column)
    BY <2>2, DrizzleShape
  <2>4. DOMAIN D(u).columns = DOMAIN u.columns
    BY DrizzleShape
  <2> HIDE DEF D
  <2>5. D(u).columns[i] \in ToSet(D(u).columns)
    BY <2>4 DEF ToSet
  <2> QED
    BY <2>1, <2>3, <2>5
<1>6. ASSUME NEW t \in ts, NEW c \in ToSet(D(t).columns), c.ref # <<>>
      PROVE  \E v \in file : v.var = c.ref[1] /\ \E e \in ToSet(v.columns) : e.prop = c.ref[2]
  <2>1. PICK i \in DOMAIN t.columns : c = D(t).columns[i]
    <3>1. DOMAIN D(t).columns = DOMAIN t.columns
      BY DrizzleShape
    <3> HIDE DEF D
    <3> QED
      BY <3>1 DEF ToSet
  <2>2. PICK j \in DOMAIN fks : c.ref = <<CamelCase(fks[j].to), CamelCase(fks[j].on)>>
    <3> HIDE DEF D
    <3> QED
      BY <1>3, <1>6, <2>1
  <2>3. fks[j].on \in ColumnNames(ts, fks[j].to)
    BY <1>0, ToldFacts
  <2>4. PICK u \in ts : \E e \in ToSet(D(u).columns) :
           u.name = fks[j].to /\ e.prop = CamelCase(fks[j].on)
    BY <1>5, <2>3
  <2>5. D(u).var = CamelCase(u.name)
    BY DrizzleShape
  <2> HIDE DEF D
  <2> QED
    BY <2>2, <2>4, <2>5
<1>7. ASSUME NEW t \in ts
      PROVE  {<<c.prop, c.ref>> : c \in {e \in ToSet(D(t).columns) : e.ref # <<>>}} =
             {<<CamelCase(k.columns[1]), <<CamelCase(k.to), CamelCase(k.on[1])>>>> :
                k \in {l \in keys : CamelCase(l.table) = D(t).var}}
  <2>1. DOMAIN D(t).columns = DOMAIN t.columns /\ D(t).var = CamelCase(t.name)
    BY DrizzleShape
  <2>2. \A i \in DOMAIN t.columns : D(t).columns[i].prop = CamelCase(t.columns[i].name)
    BY DrizzleShape
  <2>3. ASSUME NEW c \in ToSet(D(t).columns), c.ref # <<>>
        PROVE  \E k \in keys :
                 /\ CamelCase(k.table) = D(t).var
                 /\ <<c.prop, c.ref>> =
                    <<CamelCase(k.columns[1]), <<CamelCase(k.to), CamelCase(k.on[1])>>>>
    <3> HIDE DEF D
    <3>1. PICK i \in DOMAIN t.columns : c = D(t).columns[i]
      BY <2>1 DEF ToSet
    <3>2. PICK j \in DOMAIN fks :
             /\ fks[j].table = t.name /\ fks[j].column = t.columns[i].name
             /\ c.ref = <<CamelCase(fks[j].to), CamelCase(fks[j].on)>>
      BY <1>3, <2>3, <3>1
    <3>3. PICK k \in keys : /\ fks[j].table = k.table /\ fks[j].column = k.columns[1]
                            /\ fks[j].to = k.to /\ fks[j].on = k.on[1]
      BY <1>0, ListedKeys
    <3> QED
      BY <2>1, <2>2, <3>1, <3>2, <3>3
  <2>4. ASSUME NEW k \in keys, CamelCase(k.table) = D(t).var
        PROVE  \E c \in ToSet(D(t).columns) :
                 /\ c.ref # <<>>
                 /\ <<c.prop, c.ref>> =
                    <<CamelCase(k.columns[1]), <<CamelCase(k.to), CamelCase(k.on[1])>>>>
    <3>1. PICK j \in DOMAIN fks : /\ fks[j].table = k.table /\ fks[j].column = k.columns[1]
                                  /\ fks[j].to = k.to /\ fks[j].on = k.on[1]
      BY <1>0, ListedKeys
    <3>2. fks[j].column \in ColumnNames(ts, fks[j].table)
      BY <1>0, ToldFacts
    <3>3. PICK u \in ts : u.name = k.table /\ k.columns[1] \in Names(u.columns)
      BY <3>1, <3>2 DEF ColumnNames
    <3>4. u = t
      BY <1>1, <1>2, <2>1, <2>4, <3>3
    <3>5. PICK i \in DOMAIN t.columns : k.columns[1] = t.columns[i].name
      BY <3>3, <3>4 DEF Names
    <3>6. j \in Referring(fks, t, i)
      BY <3>1, <3>3, <3>4, <3>5 DEF Referring
    <3>7. D(t).columns[i].ref = <<CamelCase(fks[j].to), CamelCase(fks[j].on)>>
      BY <1>0, <3>6, DrizzleReference
    <3> HIDE DEF D
    <3>8. D(t).columns[i] \in ToSet(D(t).columns)
      BY <2>1 DEF ToSet
    <3> QED
      <4>1. D(t).columns[i].ref = <<CamelCase(k.to), CamelCase(k.on[1])>>
        BY <3>1, <3>7
      <4>2. D(t).columns[i].prop = CamelCase(k.columns[1])
        BY <2>2, <3>5
      <4>3. D(t).columns[i].ref # <<>>
        BY <4>1
      <4> QED
        BY <3>8, <4>1, <4>2, <4>3
  <2> HIDE DEF D
  <2> QED
    BY <2>3, <2>4
<1>8. ASSUME NEW t \in ts, NEW u \in ts, D(u).var = D(t).var
      PROVE  D(u) = D(t)
  <2>1. D(t).var = CamelCase(t.name) /\ D(u).var = CamelCase(u.name)
    BY DrizzleShape
  <2>2. u = t
    BY <1>1, <1>2, <1>8, <2>1
  <2> QED
    BY <2>2
<1>9. ASSUME NEW v \in file
      PROVE  /\ \A w \in file : w.var = v.var => w = v
             /\ IsInjection([i \in DOMAIN v.columns |-> v.columns[i].prop])
             /\ \A c \in ToSet(v.columns) :
                   c.ref # <<>> => \E w \in file : w.var = c.ref[1]
                                      /\ \E e \in ToSet(w.columns) : e.prop = c.ref[2]
             /\ {<<c.prop, c.ref>> : c \in {e \in ToSet(v.columns) : e.ref # <<>>}} =
                {<<CamelCase(k.columns[1]), <<CamelCase(k.to), CamelCase(k.on[1])>>>> :
                   k \in {l \in keys : CamelCase(l.table) = v.var}}
  <2>1. PICK t \in ts : v = D(t)
    OBVIOUS
  <2>2. \A w \in file : \E u \in ts : w = D(u)
    OBVIOUS
  <2> HIDE DEF D, file
  <2>3. \A w \in file : w.var = v.var => w = v
    BY <1>8, <2>1, <2>2
  <2>4. IsInjection([i \in DOMAIN v.columns |-> v.columns[i].prop])
    BY <1>4, <2>1, Zenon
  <2>5. \A c \in ToSet(v.columns) :
           c.ref # <<>> => \E w \in file : w.var = c.ref[1]
                              /\ \E e \in ToSet(w.columns) : e.prop = c.ref[2]
    BY <1>6, <2>1, Zenon
  <2>6. {<<c.prop, c.ref>> : c \in {e \in ToSet(v.columns) : e.ref # <<>>}} =
        {<<CamelCase(k.columns[1]), <<CamelCase(k.to), CamelCase(k.on[1])>>>> :
           k \in {l \in keys : CamelCase(l.table) = v.var}}
    BY <1>7, <2>1, Zenon
  <2> QED
    BY <2>3, <2>4, <2>5, <2>6
<1> QED
  BY <1>9, Zenon DEF DrizzleResolves, ts, fks

-----------------------------------------------------------------------------
(***************************************************************************)
(* The types of a new table's columns, listed, described and validated.    *)
(***************************************************************************)
MadeTable(f) ==
    [name |-> f.name, columns |-> [i \in DOMAIN f.columns |-> Listed(f.columns[i])]]

LEMMA MadeTableKept ==
  ASSUME dialect' = dialect, NEW f
  PROVE  MadeTable(f)' = MadeTable(f)
BY DEF MadeTable, Listed, DataType

LEMMA TypesMeant ==
  ASSUME dialect \in {"postgres", "mysql"}, NEW type \in FormTypes,
         ~(dialect = "mysql" /\ type = "boolean")
  PROVE  {PrismaScalar(DataType(type)), DrizzleBuilder(DataType(type)),
          Category(DataType(type))} \subseteq Meant(type)
<1>1. CASE type = "text"
  BY <1>1 DEF PrismaScalar, DrizzleBuilder, Category, DataType, Meant
<1>2. CASE type = "varchar"
  BY <1>2 DEF PrismaScalar, DrizzleBuilder, Category, DataType, Meant
<1>3. CASE type = "integer"
  BY <1>3 DEF PrismaScalar, DrizzleBuilder, Category, DataType, Meant
<1>4. CASE type = "serial"
  BY <1>4 DEF PrismaScalar, DrizzleBuilder, Category, DataType, Meant
<1>5. CASE type = "bigint"
  BY <1>5 DEF PrismaScalar, DrizzleBuilder, Category, DataType, Meant
<1>6. CASE type = "bigserial"
  BY <1>6 DEF PrismaScalar, DrizzleBuilder, Category, DataType, Meant
<1>7. CASE type = "boolean"
  BY <1>7 DEF PrismaScalar, DrizzleBuilder, Category, DataType, Meant
<1>8. CASE type = "timestamp"
  BY <1>8 DEF PrismaScalar, DrizzleBuilder, Category, DataType, Meant
<1>9. CASE type = "numeric"
  BY <1>9 DEF PrismaScalar, DrizzleBuilder, Category, DataType, Meant
<1> QED
  BY <1>1, <1>2, <1>3, <1>4, <1>5, <1>6, <1>7, <1>8, <1>9 DEF FormTypes

LEMMA MadeTableIsTable ==
  ASSUME NEW f \in Forms, ValidForm(f)
  PROVE  IsTable(MadeTable(f))
<1> DEFINE listed == [i \in DOMAIN f.columns |-> Listed(f.columns[i])]
<1>1. /\ f.name \in SchemaNames
      /\ f.columns \in Seq(ToSet(f.columns)) /\ Names(f.columns) \subseteq WordSeqs
  BY SchemaFilesAssumption DEF ValidForm, SchemaNames
<1>2. MadeTable(f).name = f.name /\ MadeTable(f).columns = listed
  BY DEF MadeTable
<1>3. \A i \in DOMAIN f.columns : listed[i].name = f.columns[i].name
  BY DEF Listed
<1>4. DOMAIN listed = DOMAIN f.columns
  OBVIOUS
<1> HIDE DEF listed
<1>5. listed \in Seq(ToSet(listed))
  <2>1. Len(f.columns) \in Nat /\ DOMAIN f.columns = 1..Len(f.columns)
    BY <1>1, LenProperties
  <2>2. listed \in [1..Len(f.columns) -> ToSet(listed)]
    <3>1. listed = [i \in DOMAIN listed |-> listed[i]]
      BY DEF listed
    <3> QED
      BY <1>4, <2>1, <3>1 DEF ToSet
  <2> DEFINE n == Len(f.columns)
             S == ToSet(listed)
  <2>3. n \in Nat /\ listed \in [1..n -> S]
    BY <2>1, <2>2
  <2> HIDE DEF n, S
  <2>4. listed \in Seq(S)
    BY <2>3
  <2> QED
    BY <2>4 DEF S
<1>6. Names(listed) \subseteq SchemaNames
  BY <1>1, <1>3, <1>4 DEF Names, SchemaNames, ValidForm
<1>7. IsInjection([i \in DOMAIN listed |-> listed[i].name])
  <2>1. \A i, j \in DOMAIN f.columns : f.columns[i].name = f.columns[j].name => i = j
    BY DEF IsInjection, ValidForm
  <2> QED
    BY <1>3, <1>4, <2>1 DEF IsInjection
<1> QED
  BY <1>1, <1>2, <1>5, <1>6, <1>7 DEF IsTable

-----------------------------------------------------------------------------
(***************************************************************************)
(* The invariant: the schema is one, and what a description has read is    *)
(* what it is, if nobody has altered it since.                             *)
(***************************************************************************)
SchemaWhole ==
    /\ dialect \in {"postgres", "mysql"}
    /\ IsFiniteSet(catalog) /\ IsFiniteSet(keys)
    /\ \A t \in catalog : IsTable(t) /\ \A u \in catalog : u.name = t.name => u = t
    /\ \A k \in keys : IsKey(k) /\ Refers(catalog, k)

MadeAsFilledIn == \A f \in made : f \in Forms /\ ValidForm(f) /\ MadeTable(f) \in catalog

ReadWhenCalm ==
    \A d \in describe :
        /\ \E pc, ts, fks, calm : d = [pc |-> pc, tables |-> ts, fks |-> fks, calm |-> calm]
        /\ d.calm /\ d.pc # "tables" => d.tables = catalog
        /\ d.calm /\ d.pc = "built" => d.fks \in SetToSeqs(KeyColumns)

SchemaInv == SchemaWhole /\ MadeAsFilledIn /\ ReadWhenCalm

LEMMA SchemaInvResolves == SchemaInv => SchemaFileResolves
<1> SUFFICES ASSUME SchemaInv
             PROVE  SchemaFileResolves
  OBVIOUS
<1>1. TypesSurvive
  <2> SUFFICES ASSUME NEW f \in made, NEW t \in catalog, t.name = f.name
               PROVE  /\ Len(t.columns) = Len(f.columns)
                      /\ \A i \in DOMAIN f.columns :
                            LET listed == t.columns[i].type
                            IN  ~(dialect = "mysql" /\ f.columns[i].type = "boolean") =>
                                   {PrismaScalar(listed), DrizzleBuilder(listed),
                                    Category(listed)} \subseteq Meant(f.columns[i].type)
    BY DEF TypesSurvive
  <2>1. f \in Forms /\ ValidForm(f) /\ MadeTable(f) \in catalog
    BY DEF SchemaInv, MadeAsFilledIn
  <2>2. MadeTable(f).name = f.name
    BY DEF MadeTable
  <2>3. t = MadeTable(f) /\ IsTable(t)
    BY <2>1, <2>2 DEF SchemaInv, SchemaWhole
  <2>4. t.columns = [i \in DOMAIN f.columns |-> Listed(f.columns[i])]
    BY <2>3 DEF MadeTable
  <2>5. Len(t.columns) = Len(f.columns)
    <3>1. f.columns \in Seq(ToSet(f.columns)) /\ t.columns \in Seq(ToSet(t.columns))
      BY <2>1, <2>3, SchemaFilesAssumption DEF IsTable
    <3>2. /\ Len(f.columns) \in Nat /\ DOMAIN f.columns = 1..Len(f.columns)
          /\ Len(t.columns) \in Nat /\ DOMAIN t.columns = 1..Len(t.columns)
      BY <3>1, LenProperties
    <3>3. DOMAIN t.columns = DOMAIN f.columns
      BY <2>4
    <3> QED
      BY <3>2, <3>3
  <2>6. ASSUME NEW i \in DOMAIN f.columns,
               ~(dialect = "mysql" /\ f.columns[i].type = "boolean")
        PROVE  {PrismaScalar(t.columns[i].type), DrizzleBuilder(t.columns[i].type),
                Category(t.columns[i].type)} \subseteq Meant(f.columns[i].type)
    <3>1. t.columns[i].type = DataType(f.columns[i].type)
      BY <2>4 DEF Listed
    <3>2. f.columns[i].type \in FormTypes
      BY <2>1 DEF ValidForm
    <3> QED
      BY <2>6, <3>1, <3>2, TypesMeant DEF SchemaInv, SchemaWhole
  <2> QED
    BY <2>5, <2>6
<1>2. ASSUME NEW d \in Faithful, PlainKeys
      PROVE  /\ DiagramIsComplete(d)
             /\ PlainNames(d) => /\ PrismaRefers(d) /\ DrizzleResolves(d)
                                 /\ LoneKeys => PrismaResolves(d)
  <2>1. d.tables = catalog /\ d.fks \in SetToSeqs(KeyColumns)
    BY DEF Faithful, SchemaInv, ReadWhenCalm
  <2>2. KeyList(d.fks)
    BY <1>2, <2>1, KeysListed DEF SchemaInv, SchemaWhole
  <2>3. Told(d.tables, d.fks)
    BY <1>2, <2>1, <2>2 DEF Told, SchemaInv, SchemaWhole
  <2> QED
    BY <2>2, <2>3, DiagramComplete, PrismaIsClosed, PrismaIsUsable, DrizzleIsUsable
<1> QED
  BY <1>1, <1>2 DEF SchemaFileResolves

LEMMA SchemaInvInit == SchemaFilesInit => SchemaInv
<1> SUFFICES ASSUME SchemaFilesInit
             PROVE  SchemaInv
  OBVIOUS
<1>1. PICK c \in Catalogs : catalog = c.tables /\ keys = c.keys
  BY DEF SchemaFilesInit
<1>2. SchemaWhole
  BY <1>1, SchemaFilesAssumption DEF SchemaFilesInit, SchemaWhole
<1>3. MadeAsFilledIn /\ ReadWhenCalm
  BY DEF SchemaFilesInit, MadeAsFilledIn, ReadWhenCalm
<1> QED
  BY <1>2, <1>3 DEF SchemaInv

LEMMA DescribeKeeps ==
  ASSUME SchemaInv, UNCHANGED <<dialect, catalog, keys, made>>
  PROVE  SchemaWhole' /\ MadeAsFilledIn' /\ KeyColumns' = KeyColumns
<1>1. SchemaWhole'
  BY DEF SchemaInv, SchemaWhole
<1>2. \A f : MadeTable(f)' = MadeTable(f)
  BY MadeTableKept
<1>3. MadeAsFilledIn'
  BY <1>2 DEF SchemaInv, MadeAsFilledIn
<1>4. KeyColumns' = KeyColumns
  BY DEF KeyColumns
<1> QED
  BY <1>1, <1>3, <1>4

LEMMA AltersUncalms ==
  ASSUME SchemaInv, NEW c, NEW ks, NEW ms, Alters(c, ks, ms)
  PROVE  ReadWhenCalm'
<1> SUFFICES ASSUME NEW d \in describe'
             PROVE  /\ \E pc, ts, fks, calm :
                          d = [pc |-> pc, tables |-> ts, fks |-> fks, calm |-> calm]
                    /\ d.calm = FALSE
  BY DEF ReadWhenCalm
<1>1. PICK e \in describe : d = [e EXCEPT !.calm = FALSE]
  BY DEF Alters
<1>2. PICK pc, ts, fks, calm : e = [pc |-> pc, tables |-> ts, fks |-> fks, calm |-> calm]
  BY DEF SchemaInv, ReadWhenCalm
<1>3. d = [pc |-> pc, tables |-> ts, fks |-> fks, calm |-> FALSE]
  BY <1>1, <1>2
<1> QED
  BY <1>3

LEMMA CalmSet ==
  ASSUME NEW pc, NEW ts, NEW fks, NEW a, NEW b
  PROVE  [[pc |-> pc, tables |-> ts, fks |-> fks, calm |-> a] EXCEPT !.calm = b] =
         [pc |-> pc, tables |-> ts, fks |-> fks, calm |-> b]
  OBVIOUS

LEMMA SchemaInvNext == SchemaInv /\ [SchemaFilesNext]_schemaFileVars => SchemaInv'
<1> SUFFICES ASSUME SchemaInv, [SchemaFilesNext]_schemaFileVars
             PROVE  SchemaInv'
  OBVIOUS
<1>1. CASE Describe
  <2>1. SchemaWhole' /\ MadeAsFilledIn'
    BY <1>1, DescribeKeeps DEF Describe
  <2>2. ReadWhenCalm'
    BY <1>1 DEF Describe, ReadWhenCalm
  <2> QED
    BY <2>1, <2>2 DEF SchemaInv
<1>2. ASSUME NEW d \in describe, ReadTables(d)
      PROVE  SchemaInv'
  <2>1. SchemaWhole' /\ MadeAsFilledIn'
    BY <1>2, DescribeKeeps DEF ReadTables
  <2>2. PICK pc, ts, fks, calm : d = [pc |-> pc, tables |-> ts, fks |-> fks, calm |-> calm]
    BY DEF SchemaInv, ReadWhenCalm
  <2>3. describe' = {[pc |-> "keys", tables |-> catalog, fks |-> fks, calm |-> TRUE]}
    <3>1. PICK b : /\ b = TRUE
                   /\ describe' = {[d EXCEPT !.pc = "keys", !.tables = catalog, !.calm = b]}
      <4> DEFINE KeysRead(c) == describe' = {[d EXCEPT !.pc = "keys", !.tables = catalog, !.calm = c]}
      <4>1. KeysRead(TRUE)
        BY <1>2 DEF ReadTables
      <4> HIDE DEF KeysRead
      <4>2. \E c : c = TRUE /\ KeysRead(c)
        BY <4>1, Zenon
      <4> QED
        BY <4>2, Zenon DEF KeysRead
    <3> DEFINE e == [d EXCEPT !.pc = "keys", !.tables = catalog, !.calm = b]
               e1 == [pc |-> "keys", tables |-> ts, fks |-> fks, calm |-> calm]
               e2 == [pc |-> "keys", tables |-> catalog, fks |-> fks, calm |-> calm]
    <3>2. e = [pc |-> "keys", tables |-> catalog, fks |-> fks, calm |-> b]
      <4>1. [d EXCEPT !.pc = "keys"] = e1
        BY <2>2
      <4>2. [e1 EXCEPT !.tables = catalog] = e2
        OBVIOUS
      <4>3. [e2 EXCEPT !.calm = b] = [pc |-> "keys", tables |-> catalog, fks |-> fks, calm |-> b]
        BY CalmSet
      <4> HIDE DEF e1, e2
      <4> QED
        BY <4>1, <4>2, <4>3
    <3>3. describe' = {e} /\ b = TRUE
      BY <3>1
    <3> HIDE DEF e
    <3>4. describe' = {[pc |-> "keys", tables |-> catalog, fks |-> fks, calm |-> b]} /\ b = TRUE
      BY <3>2, <3>3
    <3> QED
      BY <3>4, Zenon
  <2>4. ReadWhenCalm'
    <3> DEFINE e == [pc |-> "keys", tables |-> catalog, fks |-> fks, calm |-> TRUE]
    <3>1. describe' = {e} /\ catalog' = catalog
      BY <1>2, <2>3 DEF ReadTables
    <3>2. e.pc = "keys" /\ e.tables = catalog
      OBVIOUS
    <3>3. \E p, u, l, c : e = [pc |-> p, tables |-> u, fks |-> l, calm |-> c]
      OBVIOUS
    <3> HIDE DEF e
    <3> QED
      BY <3>1, <3>2, <3>3 DEF ReadWhenCalm
  <2> QED
    BY <2>1, <2>4 DEF SchemaInv
<1>3. ASSUME NEW d \in describe, ReadKeys(d)
      PROVE  SchemaInv'
  <2>1. SchemaWhole' /\ MadeAsFilledIn' /\ KeyColumns' = KeyColumns
    BY <1>3, DescribeKeeps DEF ReadKeys
  <2>2. PICK pc, ts, fks, calm : d = [pc |-> pc, tables |-> ts, fks |-> fks, calm |-> calm]
    BY DEF SchemaInv, ReadWhenCalm
  <2>3. PICK l \in SetToSeqs(KeyColumns) : describe' = {[d EXCEPT !.pc = "built", !.fks = l]}
    BY <1>3 DEF ReadKeys
  <2>4. describe' = {[pc |-> "built", tables |-> ts, fks |-> l, calm |-> calm]}
    <3> DEFINE e == [d EXCEPT !.pc = "built", !.fks = l]
               e1 == [pc |-> "built", tables |-> ts, fks |-> fks, calm |-> calm]
    <3>1. e = [pc |-> "built", tables |-> ts, fks |-> l, calm |-> calm]
      <4>1. [d EXCEPT !.pc = "built"] = e1
        BY <2>2
      <4>2. [e1 EXCEPT !.fks = l] = [pc |-> "built", tables |-> ts, fks |-> l, calm |-> calm]
        OBVIOUS
      <4> HIDE DEF e1
      <4> QED
        BY <4>1, <4>2
    <3>2. describe' = {e}
      BY <2>3
    <3> HIDE DEF e
    <3> QED
      BY <3>1, <3>2
  <2>5. calm => ts = catalog
    BY <1>3, <2>2 DEF ReadKeys, SchemaInv, ReadWhenCalm
  <2>6. l \in SetToSeqs(KeyColumns)' /\ catalog' = catalog
    BY <1>3, <2>1 DEF ReadKeys
  <2>7. ReadWhenCalm'
    BY <2>4, <2>5, <2>6 DEF ReadWhenCalm
  <2> QED
    BY <2>1, <2>7 DEF SchemaInv
<1>4. ASSUME NEW d \in describe, Described(d)
      PROVE  SchemaInv'
  <2>1. SchemaWhole' /\ MadeAsFilledIn'
    BY <1>4, DescribeKeeps DEF Described
  <2>2. ReadWhenCalm'
    BY <1>4 DEF Described, ReadWhenCalm
  <2> QED
    BY <2>1, <2>2 DEF SchemaInv
<1>5. ASSUME NEW f \in Forms, CreateTable(f)
      PROVE  SchemaInv'
  <2>1. /\ ValidForm(f) /\ \A t \in catalog : t.name # f.name
        /\ Alters(catalog \cup {MadeTable(f)}, keys, made \cup {f})
    BY <1>5 DEF CreateTable, MadeTable
  <2>2. /\ catalog' = catalog \cup {MadeTable(f)} /\ keys' = keys /\ made' = made \cup {f}
        /\ dialect' = dialect
    BY <2>1 DEF Alters
  <2>3. ReadWhenCalm'
    BY <2>1, AltersUncalms
  <2>4. IsTable(MadeTable(f)) /\ MadeTable(f).name = f.name
    BY <2>1, MadeTableIsTable DEF MadeTable
  <2>5. \A g : MadeTable(g)' = MadeTable(g)
    BY <2>2, MadeTableKept
  <2>6. MadeAsFilledIn'
    BY <2>1, <2>2, <2>5 DEF SchemaInv, MadeAsFilledIn
  <2>7. IsFiniteSet(catalog')
    BY <2>2, FS_AddElement DEF SchemaInv, SchemaWhole
  <2>8. \A t \in catalog' : IsTable(t) /\ \A u \in catalog' : u.name = t.name => u = t
    BY <2>1, <2>2, <2>4 DEF SchemaInv, SchemaWhole
  <2>9. \A k \in keys : Refers(catalog', k)
    <3>1. \A name : ColumnNames(catalog, name) \subseteq ColumnNames(catalog', name)
      BY <2>2 DEF ColumnNames
    <3> QED
      BY <3>1 DEF Refers, SchemaInv, SchemaWhole
  <2>10. SchemaWhole'
    BY <2>2, <2>7, <2>8, <2>9 DEF SchemaInv, SchemaWhole
  <2> QED
    BY <2>3, <2>6, <2>10 DEF SchemaInv
<1>6. ASSUME NEW t \in catalog, DropTable(t)
      PROVE  SchemaInv'
  <2>1. /\ catalog' = catalog \ {t} /\ keys' = {k \in keys : t.name \notin {k.table, k.to}}
        /\ made' = {f \in made : f.name # t.name} /\ dialect' = dialect
    BY <1>6 DEF DropTable, Alters
  <2>2. ReadWhenCalm'
    BY <1>6, AltersUncalms DEF DropTable
  <2>3. \A g : MadeTable(g)' = MadeTable(g) /\ MadeTable(g).name = g.name
    BY <2>1, MadeTableKept DEF MadeTable
  <2>4. MadeAsFilledIn'
    BY <2>1, <2>3 DEF SchemaInv, MadeAsFilledIn
  <2>5. IsFiniteSet(catalog') /\ IsFiniteSet(keys')
    BY <2>1, FS_Subset DEF SchemaInv, SchemaWhole
  <2>6. \A k \in keys' : IsKey(k) /\ Refers(catalog', k)
    <3>1. \A name : name # t.name => ColumnNames(catalog', name) = ColumnNames(catalog, name)
      BY <2>1 DEF ColumnNames
    <3> QED
      BY <2>1, <3>1 DEF Refers, SchemaInv, SchemaWhole
  <2>7. SchemaWhole'
    BY <2>1, <2>5, <2>6 DEF SchemaInv, SchemaWhole
  <2> QED
    BY <2>2, <2>4, <2>7 DEF SchemaInv
<1>7. ASSUME NEW k \in LaterKeys, AddKey(k)
      PROVE  SchemaInv'
  <2>1. /\ catalog' = catalog /\ keys' = keys \cup {k} /\ made' = made /\ dialect' = dialect
        /\ Refers(catalog, k)
    BY <1>7 DEF AddKey, Alters
  <2>2. ReadWhenCalm'
    BY <1>7, AltersUncalms DEF AddKey
  <2>3. \A g : MadeTable(g)' = MadeTable(g)
    BY <2>1, MadeTableKept
  <2>4. MadeAsFilledIn'
    BY <2>1, <2>3 DEF SchemaInv, MadeAsFilledIn
  <2>5. IsKey(k)
    BY SchemaFilesAssumption
  <2>6. IsFiniteSet(keys')
    BY <2>1, FS_AddElement DEF SchemaInv, SchemaWhole
  <2>7. SchemaWhole'
    BY <2>1, <2>5, <2>6 DEF SchemaInv, SchemaWhole
  <2> QED
    BY <2>2, <2>4, <2>7 DEF SchemaInv
<1>8. CASE UNCHANGED schemaFileVars
  <2>1. UNCHANGED <<dialect, catalog, keys, made>> /\ describe' = describe
    BY <1>8 DEF schemaFileVars
  <2>2. SchemaWhole' /\ MadeAsFilledIn' /\ KeyColumns' = KeyColumns
    BY <2>1, DescribeKeeps
  <2>3. ReadWhenCalm'
    BY <2>1, <2>2 DEF SchemaInv, ReadWhenCalm
  <2> QED
    BY <2>2, <2>3 DEF SchemaInv
<1> QED
  BY <1>1, <1>2, <1>3, <1>4, <1>5, <1>6, <1>7, <1>8 DEF SchemaFilesNext

\* Whatever the tables, keys and forms, and however the schema is altered
\* between the two queries: a description of a schema that was calm, with plain
\* keys and names, refers to nothing that is not in it and tells its keys, all
\* and only; if no two keys are between the same two tables, Prisma can tell
\* its relations apart.
THEOREM SchemaFilesResolve == SchemaFilesSpec => []SchemaFileResolves
<1>1. SchemaFilesSpec => []SchemaInv
  BY SchemaInvInit, SchemaInvNext, PTL DEF SchemaFilesSpec
<1> QED
  BY <1>1, SchemaInvResolves, PTL
=============================================================================
