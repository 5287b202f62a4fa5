----------------------------- MODULE TableFiles -----------------------------
(***************************************************************************)
(* A table written to a file (export.go over internal/export) and a file   *)
(* read into it (import.go over internal/importdata), in several round     *)
(* trips each, while other sessions write to the table and alter it.  The  *)
(* two packages share nothing but the look of the file.                    *)
(***************************************************************************)
EXTENDS Naturals, FiniteSets, Sequences, SequencesExt

CONSTANTS Page,      \* exportFetchPageSize
          MaxLines,  \* the longest table looked at
          MaxWrites, \* how often other sessions write during one job
          Layouts,   \* the columns the table may have at the start
          Spare,     \* the column another session adds
          Foreign    \* the files of other programs that the user may choose

VARIABLES
    cols,   \* the columns of the table, in their order
    lines,  \* its rows, in the order an unordered SELECT returns them
    writes, \* how often another session has written
    disk,   \* the file at the path the user chooses: none, or one
    job     \* the bound method that runs: none, or one

filesVars == <<cols, lines, writes, disk, job>>

\* What a cell holds: NULL, the empty string, a literal, or another text: a
\* large number in exponential form, one too large for its column, a short
\* form of TRUE, a time without a date.
Cells == {"null", "empty", "7", "1000000", "1e+06", "huge", "1.5", "true", "t", "date",
          "noon", "x"}
Column == [name : STRING, type : {"integer", "numeric", "boolean", "datetime", "text"},
           nullable : BOOLEAN, default : BOOLEAN]

\* Columns as a database lists them: their names are distinct, and the default
\* "x" is a text.
Listing(cs) ==
    /\ cs \in Seq(Column)
    /\ \A i, k \in DOMAIN cs : cs[i].name = cs[k].name => i = k
    /\ \A i \in DOMAIN cs : cs[i].default => cs[i].type = "text"

IsList(s) == Len(s) \in Nat /\ DOMAIN s = 1..Len(s)

ASSUME FilesAssumption ==
    /\ Page \in Nat \ {0}
    /\ MaxLines \in Nat
    /\ \A cs \in Layouts : Listing(cs)
    /\ Listing(<<Spare>>) /\ (Spare.default \/ Spare.nullable)
    /\ \A i \in DOMAIN Foreign : IsList(Foreign[i].body)

NamesOf(cs) == [i \in DOMAIN cs |-> cs[i].name]
NameSet(cs) == ToSet(NamesOf(cs))
ColumnNamed(cs, n) == cs[CHOOSE i \in DOMAIN cs : cs[i].name = n]

\* The non-null values that a column of a type can have.
Literals(type) ==
    CASE type = "integer" -> {"7", "1000000"}
      [] type = "numeric" -> {"7", "1000000", "1.5"}
      [] type = "boolean" -> {"true"}
      [] type = "datetime" -> {"date"}
      [] type = "text" -> Cells \ {"null"}

\* What the database makes of a text that is written to a column of a type.
Reads(type, text) ==
    CASE type = "numeric" /\ text = "1e+06" -> "1000000"
      [] type = "boolean" /\ text = "t" -> "true"
      [] OTHER -> text

\* What a column takes.
Accepts(column, v) == v \in Literals(column.type) \/ (v = "null" /\ column.nullable)

Default(column) == IF column.default THEN "x" ELSE "null"

\* The rows the table has at the start and others write.
Typical(column) ==
    (CASE column.type = "integer" -> {"7", "1000000"}
       [] column.type = "numeric" -> {"1000000"}
       [] column.type \in {"boolean", "datetime"} -> Literals(column.type)
       [] column.type = "text" -> {"empty", "x"})
    \cup {v \in {"null"} : column.nullable}
TypicalRows ==
    {r \in [DOMAIN cols -> UNION {Typical(cols[i]) : i \in DOMAIN cols}] :
        \A i \in DOMAIN cols : r[i] \in Typical(cols[i])}

\* A row as values by name: a value without a column is left out, a column
\* without a value is NULL; of two columns of one name, the later counts.
Named(names, values) ==
    [n \in ToSet(names) |->
        LET i == CHOOSE j \in DOMAIN names :
                    names[j] = n /\ \A k \in DOMAIN names : names[k] = n => k <= j
        IN  IF i \in DOMAIN values THEN values[i] ELSE "null"]
Lines == [i \in DOMAIN lines |-> Named(NamesOf(cols), lines[i])]

-----------------------------------------------------------------------------
\* The text of a field that has none.
Blank == "blank"

\* Mutant of EncodeCSVField: both of NULL and an empty string are nothing at all.
EncodeCSVFieldBare(v) ==
    [text |-> IF v \in {"null", "empty"} THEN Blank ELSE v, quoted |-> FALSE]

\* encodeCSVField: NULL is nothing at all, an empty string is quoted.
EncodeCSVField(v) ==
    [text |-> IF v \in {"null", "empty"} THEN Blank ELSE v, quoted |-> v = "empty"]

ToCSV(names, rows) ==
    [format |-> "csv", names |-> names,
     body |-> [i \in DOMAIN rows |->
                 [j \in DOMAIN names |-> EncodeCSVField(Named(names, rows[i])[names[j]])]]]

ToJSON(names, rows) ==
    [format |-> "json", names |-> <<>>,
     body |-> [i \in DOMAIN rows |-> Named(names, rows[i])]]

\* A dump has no defaults.
ColumnDumpInfo(column) ==
    [name |-> column.name, type |-> column.type, nullable |-> column.nullable]

\* The rows are paired with the columns by their position.
ToSQLDump(columns, rows) ==
    [format |-> "sql", names |-> [i \in DOMAIN columns |-> ColumnDumpInfo(columns[i])],
     body |-> [i \in DOMAIN rows |-> Named(NamesOf(columns), rows[i])]]

\* parseCSVRecords skips a blank line.
Records(body) ==
    LET kept == {i \in DOMAIN body : body[i] # <<[text |-> Blank, quoted |-> FALSE]>>}
        Nth(n) == CHOOSE i \in kept : Cardinality({k \in kept : k <= i}) = n
    IN  [n \in 1..Cardinality(kept) |-> body[Nth(n)]]

\* A blank unquoted field is NULL, and so is the field a short record lacks.
ParseCSV(f) ==
    LET Cell(field) == IF field.text # Blank THEN field.text
                       ELSE IF field.quoted THEN "empty" ELSE "null"
        Row(record) == Named(f.names, [i \in DOMAIN record |-> Cell(record[i])])
        records == Records(f.body)
    IN  [columns |-> ToSet(f.names), rows |-> [i \in DOMAIN records |-> Row(records[i])]]

\* The columns are all the keys that some object has.
ParseJSON(f) ==
    [columns |-> UNION {DOMAIN f.body[i] : i \in DOMAIN f.body}, rows |-> f.body]

ParseImportFile(f) == IF f.format = "csv" THEN ParseCSV(f) ELSE ParseJSON(f)

\* The value a parsed row gives a column: a key it lacks is a NULL.
ValueOf(row, n) == IF n \in DOMAIN row THEN row[n] ELSE "null"

\* categorizeDataType and isValuePlausible: what ParseInt, ParseFloat, the table
\* of booleans or a layout of dates and times lets through.
Plausible(v, type) ==
    CASE type = "integer" -> v \in {"7", "1000000", "huge"}
      [] type = "numeric" -> v \in {"7", "1000000", "1e+06", "1.5", "huge"}
      [] type = "boolean" -> v \in {"true", "t"}
      [] type = "datetime" -> v \in {"date", "noon"}
      [] type = "text" -> v \in Cells

\* Mutant of Validate: only the values that are there are looked at.
ValidatePresent(parsed, columns) ==
    {<<0, n>> : n \in parsed.columns \ NameSet(columns)}
    \cup {p \in (DOMAIN parsed.rows) \X (parsed.columns \cap NameSet(columns)) :
            LET column == ColumnNamed(columns, p[2])
                row == parsed.rows[p[1]]
            IN  p[2] \in DOMAIN row /\ row[p[2]] # "null" /\ ~Plausible(row[p[2]], column.type)}

\* Validate: an unknown column of the file (0), and the values of known ones.
Validate(parsed, columns) ==
    {<<0, n>> : n \in parsed.columns \ NameSet(columns)}
    \cup {p \in (DOMAIN parsed.rows) \X (parsed.columns \cap NameSet(columns)) :
            LET column == ColumnNamed(columns, p[2])
                v == ValueOf(parsed.rows[p[1]], p[2])
            IN  IF v = "null" THEN ~column.nullable ELSE ~Plausible(v, column.type)}

-----------------------------------------------------------------------------
\* A bound method: what it does, where it is, the columns and the rows it has
\* read.  History: how many rows there were, and whether the others have at
\* most added rows at the end since.
Job(what, pc, names, rows) ==
    [what |-> what, pc |-> pc, seen |-> <<>>, names |-> names, got |-> rows,
     parsed |-> [columns |-> {}, rows |-> <<>>], count |-> Len(lines), steady |-> TRUE]

FilesInit ==
    /\ cols \in Layouts
    /\ lines \in UNION {[1..n -> TypicalRows] : n \in 0..MaxLines}
    /\ writes = 0
    /\ disk = {}
    /\ job = {}

JobStep(j, k) ==
    /\ job' = {k}
    /\ j \in job
    /\ UNCHANGED <<cols, lines, writes, disk>>

\* ExportTableAsCSV, AsJSON and AsSQLDump.
ExportTable(format) ==
    /\ job = {}
    /\ job' = {Job(format, IF format = "sql" THEN "info" ELSE "page", <<>>, <<>>)}
    /\ UNCHANGED <<cols, lines, writes, disk>>

\* gridTableInfo, for a dump and for an import.
TableInfo(j) ==
    /\ j.pc = "info"
    /\ JobStep(j, [j EXCEPT !.pc = CASE j.what = "sql" -> "types" [] OTHER -> "parse",
                         !.seen = cols])

\* buildColumnDumpInfo: MySQL is asked for the types once more; Postgres is
\* not, and a column that is gone keeps the type that was listed.
ColumnTypes(j) ==
    /\ j.pc = "types"
    /\ \/ JobStep(j, [j EXCEPT !.pc = "page"])
       \/ JobStep(j, [j EXCEPT !.pc = "page",
             !.seen = [i \in DOMAIN j.seen |-> [j.seen[i] EXCEPT !.type =
                 IF j.seen[i].name \in NameSet(cols)
                 THEN ColumnNamed(cols, j.seen[i].name).type ELSE @]]])

\* LIMIT and OFFSET.
PageAt(offset) ==
    SubSeq(lines, offset + 1,
           IF offset + Page < Len(lines) THEN offset + Page ELSE Len(lines))

\* Mutant of FetchPage: a full page ends the export, too.
FetchPageShort(j) ==
    /\ j.pc = "page"
    /\ LET offset == Len(j.got)
            page == PageAt(offset)
       IN  JobStep(j, [j EXCEPT !.got = @ \o page,
                    !.names = IF offset = 0 THEN NamesOf(cols) ELSE @,
                    !.pc = IF Len(page) <= Page THEN "save" ELSE "page"])

\* fetchAllTableRows: the next page, in no transaction and in no order; the
\* names are those of the first page.
FetchPage(j) ==
    /\ j.pc = "page"
    /\ LET offset == Len(j.got)
            page == PageAt(offset)
       IN  JobStep(j, [j EXCEPT !.got = @ \o page,
                    !.names = IF offset = 0 THEN NamesOf(cols) ELSE @,
                    !.pc = IF Len(page) < Page THEN "save" ELSE "page"])

\* ExportQueryResultAsCSV and AsJSON: the rows of a query that has run.  They
\* come from the frontend, so a number is a float64.
ResultOf(format) == IF format = "csv" THEN "csv-result" ELSE "json-result"
ExportQueryResult(format) ==
    /\ job = {}
    /\ job' = {[Job(ResultOf(format), "save", NamesOf(cols), lines) EXCEPT !.seen = cols]}
    /\ UNCHANGED <<cols, lines, writes, disk>>

\* "%v" of a value of a query's result: of a float64, from a million on.
FormatValue(type, v) ==
    IF type \in {"integer", "numeric"} /\ v = "1000000" THEN "1e+06" ELSE v

FileOf(j) ==
    CASE j.what = "csv" -> ToCSV(j.names, j.got)
      [] j.what = "json" -> ToJSON(j.names, j.got)
      [] j.what = "sql" -> ToSQLDump(j.seen, j.got)
      [] j.what = "csv-result" ->
            ToCSV(j.names, [i \in DOMAIN j.got |->
                        [c \in DOMAIN j.got[i] |-> FormatValue(j.seen[c].type, j.got[i][c])]])
      [] j.what = "json-result" -> ToJSON(j.names, j.got)

\* saveExportFile, where the user may have cancelled.
SaveFile(j) ==
    /\ j.pc = "save"
    /\ job' = {}
    /\ disk' \in {disk, {FileOf(j)}}
    /\ UNCHANGED <<cols, lines, writes>>

-----------------------------------------------------------------------------
\* ValidateImportFile, and ImportFile, which validates once more.  An
\* import that makes the table longer than MaxLines is not looked at.
ImportFile(what) ==
    /\ job = {}
    /\ what = "import" => \A f \in disk : Len(lines) + Len(f.body) \in 1..MaxLines
    /\ disk # {}
    /\ job' = {Job(what, "info", <<>>, <<>>)}
    /\ UNCHANGED <<cols, lines, writes, disk>>

\* prepareImport, as soon as the columns are known.  A dump cannot be read; a
\* file with mismatches, or without rows, is not imported.
ReadFile(j) ==
    /\ j.pc = "parse"
    /\ \E f \in disk :
          LET parsed == ParseImportFile(f)
          IN  IF /\ j.what = "import"
                 /\ f.format # "sql"
                 /\ Validate(parsed, j.seen) = {}
                 /\ parsed.rows # <<>>
              THEN job' = {[j EXCEPT !.pc = "insert", !.parsed = parsed]}
              ELSE job' = {}
    /\ UNCHANGED <<cols, lines, writes, disk>>

\* The row the database makes of a tuple of BuildBulkInsertRows: a column the
\* file does not name gets its default, or NULL.
Inserted(row, columns, parsed) ==
    [i \in DOMAIN columns |->
        IF columns[i].name \in parsed.columns
        THEN Reads(columns[i].type, ValueOf(row, columns[i].name))
        ELSE Default(columns[i])]
DatabaseTakes(parsed, columns) ==
    /\ parsed.columns \subseteq NameSet(columns)
    /\ \A k \in DOMAIN parsed.rows : \A i \in DOMAIN columns :
          Accepts(columns[i], Inserted(parsed.rows[k], columns, parsed)[i])

\* Mutant of BulkInsert: the rows are inserted one by one, and an error leaves
\* those before it in the table.
BulkInsertOneByOne(j) ==
    /\ j.pc = "insert"
    /\ job' = {}
    /\ \E n \in 0..Len(j.parsed.rows) :
          LET rows == SubSeq(j.parsed.rows, 1, n)
          IN  /\ DatabaseTakes([j.parsed EXCEPT !.rows = rows], cols)
              /\ lines' = lines \o [k \in DOMAIN rows |-> Inserted(rows[k], cols, j.parsed)]
    /\ UNCHANGED <<cols, writes, disk>>

\* One INSERT takes all the rows, or none: a constraint the columns do not
\* show may refuse them.
BulkInsert(j) ==
    /\ j.pc = "insert"
    /\ job' = {}
    /\ \/ /\ DatabaseTakes(j.parsed, cols)
          /\ lines' = lines \o [k \in DOMAIN j.parsed.rows |->
                                  Inserted(j.parsed.rows[k], cols, j.parsed)]
       \/ UNCHANGED lines
    /\ UNCHANGED <<cols, writes, disk>>

\* Any round trip may fail; nothing has been written by then.
JobFails(j) ==
    /\ j.pc # "save"
    /\ job' = {}
    /\ UNCHANGED <<cols, lines, writes, disk>>

-----------------------------------------------------------------------------
\* Other sessions, while a job runs: rows are written anywhere, since an
\* unordered SELECT may return a new or an updated row at any place.
OthersMayWrite == job # {} /\ writes < MaxWrites

Others(newCols, newLines, calm) ==
    /\ writes' = writes + 1
    /\ cols' = newCols
    /\ lines' = newLines
    /\ job' = {[j EXCEPT !.steady = @ /\ calm] : j \in job}
    /\ UNCHANGED disk

OtherInserts(i) ==
    /\ OthersMayWrite
    /\ Len(lines) < MaxLines
    /\ \E r \in TypicalRows : Others(cols, InsertAt(lines, i, r), i > Len(lines))
OtherDeletes(i) ==
    /\ OthersMayWrite
    /\ Others(cols, RemoveAt(lines, i), FALSE)
OtherAddsColumn ==
    /\ OthersMayWrite
    /\ Spare.name \notin NameSet(cols)
    /\ Others(Append(cols, Spare), [i \in DOMAIN lines |-> Append(lines[i], Default(Spare))],
              FALSE)
OtherDropsColumn(c) ==
    /\ OthersMayWrite
    /\ Len(cols) > 1
    /\ Others(RemoveAt(cols, c), [i \in DOMAIN lines |-> RemoveAt(lines[i], c)], FALSE)

\* Another file is put at the path, or chosen: a job reads it in one step.
OtherFile(i) ==
    /\ job = {}
    /\ disk' = {Foreign[i]}
    /\ UNCHANGED <<cols, lines, writes, job>>

FilesNext ==
    \/ \E format \in {"csv", "json", "sql"} : ExportTable(format)
    \/ \E format \in {"csv", "json"} : ExportQueryResult(format)
    \/ \E what \in {"check", "import"} : ImportFile(what)
    \/ \E j \in job :
          \/ TableInfo(j) \/ ColumnTypes(j) \/ FetchPage(j) \/ SaveFile(j)
          \/ ReadFile(j) \/ BulkInsert(j) \/ JobFails(j)
    \/ \E i \in 1..Len(lines) + 1 : OtherInserts(i)
    \/ \E i \in DOMAIN lines : OtherDeletes(i)
    \/ OtherAddsColumn
    \/ \E c \in DOMAIN cols : OtherDropsColumn(c)
    \/ \E i \in DOMAIN Foreign : OtherFile(i)

FilesSpec == FilesInit /\ [][FilesNext]_filesVars

-----------------------------------------------------------------------------
\* The exports about to be saved beside which the others have at most added
\* rows at the end, but for two: a CSV file of one column in which a row is
\* NULL, and that of a query's result with a large number in a column of
\* integers.  What becomes of those, CSVKeepsTheRows and CSVIsAccepted show.
HasBlankLine(j) ==
    j.what \in {"csv", "csv-result"} /\ \E i \in DOMAIN j.got : j.got[i] = <<"null">>
HasExponent(j) ==
    /\ j.what = "csv-result"
    /\ \E i \in DOMAIN j.got : \E c \in DOMAIN j.got[i] :
          j.seen[c].type = "integer" /\ j.got[i][c] = "1000000"
Ready == {j \in job : j.pc = "save" /\ j.steady}
Exported == {j \in Ready : ~HasBlankLine(j) /\ ~HasExponent(j)}

\* A parsed row as the columns of the table read it.
AsRead(row) == [n \in DOMAIN row |-> Reads(ColumnNamed(cols, n).type, row[n])]

\* An exported file, read back by the importer or, a dump, by the database,
\* gives the rows of the table, each once, in their order: all there were as
\* the export began, and possibly some that were added later.  The importer
\* finds nothing wrong with it, and a dump gives the names of the columns, their
\* types and whether they take NULL; it has no defaults.
ExportIsExact ==
    \A j \in Exported :
        LET f == FileOf(j)
            parsed == ParseImportFile(f)
            rows == IF j.what = "sql" THEN f.body
                    ELSE [k \in DOMAIN parsed.rows |-> AsRead(parsed.rows[k])]
        IN  /\ Len(rows) >= j.count
            /\ IsPrefix(rows, Lines)
            /\ IF j.what = "sql" THEN f.names = [i \in DOMAIN cols |-> ColumnDumpInfo(cols[i])]
               ELSE Validate(parsed, cols) = {}

\* What the package importdata and ToCSV say of NULL: a blank cell is a NULL on
\* re-import.  Of a table of one column, such a row is a blank line.
CSVKeepsTheRows ==
    \A j \in Ready : j.what = "csv" => Len(ParseCSV(FileOf(j)).rows) = Len(j.got)

\* What formatCSVValue says of "%v": it is right for a number of a query's
\* result.  The importer refuses the exponential form for a column of integers.
CSVIsAccepted ==
    \A j \in Ready : j.what = "csv-result" => Validate(ParseCSV(FileOf(j)), cols) = {}

\* Of what validation has let through, the database refuses no more than it
\* must: a value that only looks right, a row without a column that needs a
\* value, a column that has changed since, or a constraint of its own.
OnlyLooksRight(parsed) ==
    \E i \in DOMAIN cols : \E row \in ToSet(parsed.rows) :
        cols[i].type # "text" /\ ValueOf(row, cols[i].name) \in {"huge", "noon"}
ValidationAgrees ==
    \A j \in job :
        /\ j.pc = "insert"
        /\ j.seen = cols
        /\ \A c \in ToSet(cols) : c.nullable \/ c.default \/ c.name \in j.parsed.columns
        /\ ~OnlyLooksRight(j.parsed)
        => DatabaseTakes(j.parsed, cols)

\* An import adds every row of the file that is on the disk, each value in the
\* column it names, or it adds nothing: also when validation has let through
\* what the database refuses, or the columns have changed in between.
ImportIsWhole ==
    /\ []ValidationAgrees
    /\ [][\A j \in job, f \in disk :
            j.pc = "insert" /\ job' = {} /\ lines' # lines =>
            LET parsed == ParseImportFile(f)
            IN  /\ parsed.columns \subseteq NameSet(cols)
                /\ Len(lines') = Len(lines) + Len(parsed.rows)
                /\ \A k \in DOMAIN lines : lines'[k] = lines[k]
                /\ \A k \in DOMAIN parsed.rows : \A i \in DOMAIN cols :
                      cols[i].name \in parsed.columns =>
                        lines'[Len(lines) + k][i]
                          = Reads(cols[i].type, ValueOf(parsed.rows[k], cols[i].name))
         ]_filesVars
=============================================================================
