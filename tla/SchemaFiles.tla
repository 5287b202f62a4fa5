---------------------------- MODULE SchemaFiles ----------------------------
(***************************************************************************)
(* A relational schema described in a file: as a Prisma schema, a Drizzle  *)
(* schema or an ER diagram (schemaexport.go, BuildSchemaDiagram, over      *)
(* internal/schemaexport and internal/diagram), and extended through the   *)
(* New table form (createtable.go).  A description is built from two       *)
(* queries, of the tables and of the foreign keys, between which the       *)
(* schema may change.  A name is the sequence of its words.                *)
(***************************************************************************)
EXTENDS Naturals, FiniteSets, Sequences, SequencesExt

CONSTANTS Words,    \* what names are made of
          Catalogs, \* the tables and keys the schema may hold at the start
          Forms,    \* what may be entered in the form
          LaterKeys, \* the keys that may be added
          MaxDDL    \* how many statements change the schema

VARIABLES
    dialect,  \* "postgres" or "mysql"
    catalog,  \* the tables: [name, columns]
    keys,     \* the foreign keys: [name, table, columns, to, on]
    made,     \* the forms whose tables are there
    ddl,      \* how many statements have changed the schema
    describe  \* the bound method that runs: none, or one

schemaFileVars == <<dialect, catalog, keys, made, ddl, describe>>

Names(columns) == {columns[i].name : i \in DOMAIN columns}
ColumnNames(ts, table) == UNION {Names(t.columns) : t \in {u \in ts : u.name = table}}
IsInjection(s) == \A i, j \in DOMAIN s : s[i] = s[j] => i = j

WordSeqs == Seq(Words)
SchemaNames == WordSeqs \ {<<>>}

\* A table of named columns, each named differently.
IsTable(t) ==
    /\ t.name \in SchemaNames
    /\ t.columns \in Seq(ToSet(t.columns)) /\ Names(t.columns) \subseteq SchemaNames
    /\ IsInjection([i \in DOMAIN t.columns |-> t.columns[i].name])

\* A key pairs columns with columns.
IsKey(k) ==
    /\ {k.table, k.to} \subseteq SchemaNames
    /\ {k.columns, k.on} \subseteq Seq(SchemaNames)
    /\ k.columns # <<>> /\ Len(k.on) = Len(k.columns)

\* What it pairs is among the tables `ts`.
Refers(ts, k) ==
    \A i \in DOMAIN k.columns :
        /\ k.columns[i] \in ColumnNames(ts, k.table)
        /\ k.on[i] \in ColumnNames(ts, k.to)

\* A schema, a form as it may be filled in, a key somebody may add.
ASSUME SchemaFilesAssumption ==
    /\ "Ref" \in Words
    /\ \A c \in Catalogs :
          /\ IsFiniteSet(c.tables) /\ IsFiniteSet(c.keys)
          /\ \A t \in c.tables : IsTable(t) /\ \A u \in c.tables : u.name = t.name => u = t
          /\ \A k \in c.keys : IsKey(k) /\ Refers(c.tables, k)
    /\ \A f \in Forms :
          /\ f.name \in WordSeqs
          /\ f.columns \in Seq(ToSet(f.columns)) /\ Names(f.columns) \subseteq WordSeqs
    /\ \A k \in LaterKeys : IsKey(k)

-----------------------------------------------------------------------------
(* The New table form. *)

FormTypes ==
    {"text", "varchar", "integer", "serial", "bigint", "bigserial", "boolean", "timestamp",
     "numeric"}
AutoIncrement == {"serial", "bigserial"}

\* Mutant of ValidForm: a name may be used twice.
ValidFormTwice(f) ==
    /\ f.name # <<>> /\ f.columns # <<>>
    /\ \A i \in DOMAIN f.columns :
          /\ f.columns[i].name # <<>>
          /\ f.columns[i].type \in FormTypes
          /\ f.columns[i].type \in AutoIncrement => f.columns[i].pk /\ ~f.columns[i].default

\* What BuildCreateTableDDL lets through.
ValidForm(f) ==
    /\ f.name # <<>> /\ f.columns # <<>>
    /\ IsInjection([i \in DOMAIN f.columns |-> f.columns[i].name])
    /\ \A i \in DOMAIN f.columns :
          /\ f.columns[i].name # <<>>
          /\ f.columns[i].type \in FormTypes
          /\ f.columns[i].type \in AutoIncrement => f.columns[i].pk /\ ~f.columns[i].default

\* columnSQLType, and the data_type information_schema has for such a column.
DataType(type) ==
    LET my == dialect = "mysql"
    IN  CASE type = "text" -> "text"
          [] type = "varchar" -> IF my THEN "varchar" ELSE "character varying"
          [] type \in {"integer", "serial"} -> IF my THEN "int" ELSE "integer"
          [] type \in {"bigint", "bigserial"} -> "bigint"
          [] type = "boolean" -> IF my THEN "tinyint" ELSE "boolean"
          [] type = "timestamp" -> IF my THEN "datetime" ELSE "timestamp without time zone"
          [] type = "numeric" -> IF my THEN "decimal" ELSE "numeric"

\* A column of the form as the database lists it: a key takes no NULL.
Listed(c) ==
    [name |-> c.name, type |-> DataType(c.type), pk |-> c.pk,
     nullable |-> c.nullable /\ ~c.pk /\ c.type \notin AutoIncrement]

-----------------------------------------------------------------------------
(* The description of tables `ts` with the foreign key columns `fks`. *)

\* prismaScalarFor
PrismaScalar(type) ==
    CASE type \in (IF dialect = "mysql" THEN {"int", "tinyint"} ELSE {"integer"}) -> "Int"
      [] type = "bigint" -> "BigInt"
      [] type = "boolean" -> "Boolean"
      [] type \in {"numeric", "decimal"} -> "Decimal"
      [] type \in {"datetime", "timestamp without time zone"} -> "DateTime"
      [] OTHER -> "String"

\* Mutant of DrizzleBuilder: a type it does not know.
DrizzleBuilderForgetful(type) ==
    CASE type \in {"integer", "int", "tinyint", "bigint", "boolean", "numeric", "decimal",
                   "varchar"} -> type
      [] type = "character varying" -> "varchar"
      [] type = "timestamp without time zone" -> "timestamp"
      [] OTHER -> "text"

\* drizzleBuilderFor
DrizzleBuilder(type) ==
    CASE type \in {"integer", "int", "tinyint", "bigint", "boolean", "numeric", "decimal",
                   "varchar", "datetime"} -> type
      [] type = "character varying" -> "varchar"
      [] type = "timestamp without time zone" -> "timestamp"
      [] OTHER -> "text"

\* categorizeDataType, by which the importer validates values.
Category(type) ==
    CASE type \in {"integer", "int", "tinyint", "bigint"} -> "integer"
      [] type \in {"numeric", "decimal"} -> "numeric"
      [] type = "boolean" -> "boolean"
      [] type \in {"datetime", "timestamp without time zone"} -> "datetime"
      [] type \in {"text", "varchar", "character varying"} -> "text"

\* stripIDSuffix, with the fallback of a column that has no such suffix.
Base(column) ==
    IF Len(column) > 1 /\ Last(column) = "id" THEN Front(column) ELSE Append(column, "Ref")

\* The name with "Ref" appended until nothing else has it.
Fresh(name, taken) ==
    LET Longer(n) == name \o [i \in 1..n |-> "Ref"]
    IN  Longer(CHOOSE n \in 0..Cardinality(taken) :
                 Longer(n) \notin taken /\ \A m \in 0..n - 1 : Longer(m) \in taken)

\* Mutant of RelationNames: only the columns are looked at.
RelationNamesAlone(ts, fks) ==
    [i \in DOMAIN fks |-> Fresh(Base(fks[i].column), ColumnNames(ts, fks[i].table))]

\* computeRelationFieldNames, key by key: a name that neither a column of the
\* table nor an earlier key of it has.
FirstNames(ts, fks) ==
    LET named[i \in DOMAIN fks] ==
            Fresh(Base(fks[i].column),
                  ColumnNames(ts, fks[i].table)
                  \cup {named[j] : j \in {k \in 1..i - 1 : fks[k].table = fks[i].table}})
    IN  named

\* Of two keys of one column, the later one's name counts for both.
RelationNames(ts, fks) ==
    LET named == FirstNames(ts, fks)
        Latest(i) == CHOOSE j \in DOMAIN fks :
            /\ <<fks[j].table, fks[j].column>> = <<fks[i].table, fks[i].column>>
            /\ \A k \in DOMAIN fks :
                  <<fks[k].table, fks[k].column>> = <<fks[i].table, fks[i].column>> => k <= j
    IN  [i \in DOMAIN fks |-> named[Latest(i)]]

\* Mutant of Places: a table has the other ends of its own keys.
PlacesAstray(fks, t) ==
    {<<"column", i>> : i \in DOMAIN t.columns}
    \cup {<<"relation", i>> : i \in {j \in DOMAIN fks : fks[j].table = t.name}}
    \cup {<<"end", i>> : i \in {j \in DOMAIN fks : fks[j].table = t.name}}

\* BuildPrismaSchema: the fields of a table's model are its columns, its
\* relations, and the other ends of those to it.
Places(fks, t) ==
    {<<"column", i>> : i \in DOMAIN t.columns}
    \cup {<<"relation", i>> : i \in {j \in DOMAIN fks : fks[j].table = t.name}}
    \cup {<<"end", i>> : i \in {j \in DOMAIN fks : fks[j].to = t.name}}

OtherEnd(ts, fks, i) == RelationNames(ts, fks)[i] \o fks[i].table

PrismaField(ts, fks, t, kind, i) ==
    LET Field(name, to, by, on) == [name |-> name, to |-> to, by |-> by, on |-> on]
    IN  CASE kind = "column" -> Field(t.columns[i].name, <<>>, <<>>, <<>>)
          [] kind = "relation" ->
                Field(RelationNames(ts, fks)[i], fks[i].to, fks[i].column, fks[i].on)
          [] kind = "end" -> Field(OtherEnd(ts, fks, i), fks[i].table, <<>>, <<>>)

PrismaModel(ts, fks, t) ==
    [name |-> t.name,
     fields |-> [p \in Places(fks, t) |-> PrismaField(ts, fks, t, p[1], p[2])]]

\* camelCase: words lose their case, here "Author" its capital.
CamelCase(name) == [i \in DOMAIN name |-> IF name[i] = "Author" THEN "author" ELSE name[i]]

\* BuildDrizzleSchema: a reference for each column that has a key, the last.
DrizzleTable(fks, t) ==
    [var |-> CamelCase(t.name),
     columns |-> [i \in DOMAIN t.columns |->
        LET mine == {j \in DOMAIN fks :
                        fks[j].table = t.name /\ fks[j].column = t.columns[i].name}
            fk == fks[CHOOSE j \in mine : \A k \in mine : k <= j]
        IN  [prop |-> CamelCase(t.columns[i].name),
             ref |-> IF mine = {} THEN <<>> ELSE <<CamelCase(fk.to), CamelCase(fk.on)>>]]]

\* BuildRelationalERDiagram: the columns marked FK, and the lines.
Marked(fks) == {<<fks[i].table, fks[i].column>> : i \in DOMAIN fks}
DiagramLines(fks) == {<<fks[i].to, fks[i].table, fks[i].column>> : i \in DOMAIN fks}

-----------------------------------------------------------------------------
SchemaFilesInit ==
    /\ dialect \in {"postgres", "mysql"}
    /\ \E c \in Catalogs : catalog = c.tables /\ keys = c.keys
    /\ made = {}
    /\ ddl = 0
    /\ describe = {}

\* ExportSchemaAsPrisma, ExportSchemaAsDrizzle and BuildSchemaDiagram.
\* History: whether the schema has not changed since the first query.
Describe ==
    /\ describe = {}
    /\ describe' = {[pc |-> "tables", tables |-> {}, fks |-> <<>>, calm |-> TRUE]}
    /\ UNCHANGED <<dialect, catalog, keys, made, ddl>>

\* ListTables
ReadTables(d) ==
    /\ d.pc = "tables"
    /\ describe' = {[d EXCEPT !.pc = "keys", !.tables = catalog, !.calm = TRUE]}
    /\ UNCHANGED <<dialect, catalog, keys, made, ddl>>

\* The columns of the keys.  MySQL pairs them; Postgres joins, by the names of
\* the constraints, every column of a key with every one it refers to.
KeyColumns ==
    LET Named(k) == {l \in keys : l.name = k.name}
        Columns(k, l, m) ==
            {[table |-> k.table, column |-> l.columns[i], to |-> m.to, on |-> m.on[j], pos |-> i] :
                i \in DOMAIN l.columns, j \in DOMAIN m.on}
        Paired(k) ==
            {[table |-> k.table, column |-> k.columns[i], to |-> k.to, on |-> k.on[i], pos |-> i] :
                i \in DOMAIN k.columns}
    IN  UNION {IF dialect = "mysql" THEN Paired(k)
               ELSE UNION {Columns(k, l, m) : l, m \in Named(k)} : k \in keys}

\* ListForeignKeys: ordered by table and position, and otherwise in any order.
ReadKeys(d) ==
    /\ d.pc = "keys"
    /\ \E fks \in SetToSeqs(KeyColumns) :
          /\ \A i, j \in DOMAIN fks :
                i < j /\ fks[i].table = fks[j].table => fks[i].pos <= fks[j].pos
          /\ describe' = {[d EXCEPT !.pc = "built", !.fks = fks]}
    /\ UNCHANGED <<dialect, catalog, keys, made, ddl>>

\* The file is saved, the diagram shown; or a query has failed.
Described(d) ==
    /\ describe' = {}
    /\ UNCHANGED <<dialect, catalog, keys, made, ddl>>

Alters(newCatalog, newKeys, newMade) ==
    /\ ddl < MaxDDL
    /\ ddl' = ddl + 1
    /\ catalog' = newCatalog
    /\ keys' = newKeys
    /\ made' = newMade
    /\ describe' = {[d EXCEPT !.calm = FALSE] : d \in describe}
    /\ UNCHANGED dialect

\* CreateTable: the form is valid, and the database takes the statement.
CreateTable(f) ==
    /\ ValidForm(f)
    /\ \A t \in catalog : t.name # f.name
    /\ Alters(catalog \cup {[name |-> f.name,
                             columns |-> [i \in DOMAIN f.columns |-> Listed(f.columns[i])]]},
              keys, made \cup {f})

\* Other sessions: DROP TABLE ... CASCADE, and a new constraint.
DropTable(t) ==
    Alters(catalog \ {t}, {k \in keys : t.name \notin {k.table, k.to}},
           {f \in made : f.name # t.name})

AddKey(k) ==
    /\ k \notin keys
    /\ Refers(catalog, k)
    /\ Alters(catalog, keys \cup {k}, made)

SchemaFilesNext ==
    \/ Describe
    \/ \E d \in describe : ReadTables(d) \/ ReadKeys(d) \/ Described(d)
    \/ \E f \in Forms : CreateTable(f)
    \/ \E t \in catalog : DropTable(t)
    \/ \E k \in LaterKeys : AddKey(k)

SchemaFilesSpec == SchemaFilesInit /\ [][SchemaFilesNext]_schemaFileVars

-----------------------------------------------------------------------------
\* The descriptions built from one state of the schema.
Faithful == {d \in describe : d.pc = "built" /\ d.calm}

\* Keys that are read as they are: of one column, which has no other key, and
\* whose constraint has a name of its own.
PlainKeys ==
    \A k \in keys :
        /\ Len(k.columns) = 1
        /\ \A l \in keys \ {k} : l.name # k.name /\ <<l.table, l.columns>> # <<k.table, k.columns>>

\* No table or column has the name of another with a capital, and the other
\* end of a relation that of no other field.
PlainNames(d) ==
    LET relation == RelationNames(d.tables, d.fks)
        End(i) == OtherEnd(d.tables, d.fks, i)
    IN  /\ \A t, u \in d.tables : CamelCase(t.name) = CamelCase(u.name) => t.name = u.name
        /\ \A t \in d.tables : \A m, n \in Names(t.columns) :
              CamelCase(m) = CamelCase(n) => m = n
        /\ \A i \in DOMAIN d.fks :
              /\ End(i) \notin ColumnNames(d.tables, d.fks[i].to)
              /\ \A j \in DOMAIN d.fks :
                    /\ d.fks[j].table = d.fks[i].to => relation[j] # End(i)
                    /\ d.fks[j].to = d.fks[i].to /\ d.fks[j].table # d.fks[i].table =>
                          End(j) # End(i)

\* At most one key links two tables, and none links a table to itself.
LoneKeys ==
    \A k \in keys : /\ k.table # k.to
                    /\ \A l \in keys \ {k} : {l.table, l.to} # {k.table, k.to}

\* What the Prisma schema names is named once, and what it refers to is in it.
PrismaRefers(d) ==
    LET models == {PrismaModel(d.tables, d.fks, t) : t \in d.tables}
        FieldNames(name) ==
            UNION {Names(m.fields) : m \in {n \in models : n.name = name}}
    IN  \A m \in models :
          /\ \A n \in models : n.name = m.name => n = m
          /\ IsInjection([p \in DOMAIN m.fields |-> m.fields[p].name])
          /\ \A f \in ToSet(m.fields) :
                f.by # <<>> => f.by \in FieldNames(m.name) /\
                               {f.on, f.name \o m.name} \subseteq FieldNames(f.to)
          /\ {<<f.by, f.to, f.on>> : f \in {g \in ToSet(m.fields) : g.by # <<>>}} =
             {<<k.columns[1], k.to, k.on[1]>> : k \in {l \in keys : l.table = m.name}}

\* A relation has no name, so Prisma takes it for the only one of two models:
\* no two fields of a model lead to the same model.
PrismaResolves(d) ==
    /\ PrismaRefers(d)
    /\ \A t \in d.tables :
          LET fields == PrismaModel(d.tables, d.fks, t).fields
          IN  \A p, q \in DOMAIN fields :
                 fields[p].to = fields[q].to /\ fields[p].to # <<>> => p = q

DrizzleResolves(d) ==
    LET file == {DrizzleTable(d.fks, t) : t \in d.tables}
    IN  \A u \in file :
          /\ \A v \in file : v.var = u.var => v = u
          /\ IsInjection([i \in DOMAIN u.columns |-> u.columns[i].prop])
          /\ \A c \in ToSet(u.columns) :
                c.ref # <<>> => \E v \in file : v.var = c.ref[1]
                                   /\ \E e \in ToSet(v.columns) : e.prop = c.ref[2]
          /\ {<<c.prop, c.ref>> : c \in {e \in ToSet(u.columns) : e.ref # <<>>}} =
             {<<CamelCase(k.columns[1]), <<CamelCase(k.to), CamelCase(k.on[1])>>>> :
                k \in {l \in keys : CamelCase(l.table) = u.var}}

DiagramIsComplete(d) ==
    /\ Marked(d.fks) = {<<k.table, k.columns[1]>> : k \in keys}
    /\ DiagramLines(d.fks) = {<<k.to, k.table, k.columns[1]>> : k \in keys}

\* What a user means by a type of the form.
Meant(type) ==
    CASE type \in {"text", "varchar"} -> {"text", "varchar", "String"}
      [] type \in {"integer", "serial", "bigint", "bigserial"} ->
            {"integer", "int", "bigint", "Int", "BigInt"}
      [] type = "boolean" -> {"boolean", "Boolean"}
      [] type = "timestamp" -> {"datetime", "timestamp", "DateTime"}
      [] type = "numeric" -> {"numeric", "decimal", "Decimal"}

\* A table made with the form is described, and its values validated, as what
\* the form says, but for MySQL's booleans, which are small integers there.
TypesSurvive ==
    \A f \in made : \A t \in {u \in catalog : u.name = f.name} :
        /\ Len(t.columns) = Len(f.columns)
        /\ \A i \in DOMAIN f.columns :
              LET listed == t.columns[i].type
              IN  ~(dialect = "mysql" /\ f.columns[i].type = "boolean") =>
                     {PrismaScalar(listed), DrizzleBuilder(listed), Category(listed)}
                        \subseteq Meant(f.columns[i].type)

\* A schema file can be used as it is: its names are distinct where they must
\* be, what it refers to is in it, no key is missing and none is invented - if
\* nobody altered the schema between the two queries and its keys and names
\* are plain - and it gives the columns of a new table the types they were
\* made with.  That Prisma can tell the relations of a schema apart is claimed
\* only where no two are between the same models (see PrismaSchemaIsValid).
SchemaFileResolves ==
    /\ TypesSurvive
    /\ \A d \in Faithful : PlainKeys =>
          /\ DiagramIsComplete(d)
          /\ PlainNames(d) => /\ PrismaRefers(d) /\ DrizzleResolves(d)
                              /\ LoneKeys => PrismaResolves(d)

\* What BuildPrismaSchema's comment says, "a valid Prisma schema": whatever
\* keys link the tables, Prisma can tell the relations apart.
PrismaSchemaIsValid ==
    \A d \in Faithful : PlainKeys /\ PlainNames(d) => PrismaResolves(d)
=============================================================================
