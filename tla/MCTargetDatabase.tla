------------------------- MODULE MCTargetDatabase --------------------------
(***************************************************************************)
(* TLC instance of TargetDatabase: a few calls on a folder of migrations,  *)
(* small tables, schemas and collections.  The query sessions through      *)
(* which the app reaches a database are followed by themselves, since what *)
(* is done through them changes none of the state of QuerySessions.        *)
(***************************************************************************)
EXTENDS QuerySessions, TargetDatabase, TLC

Symmetry == Permutations(Calls) \cup Permutations(Slugs)

-----------------------------------------------------------------------------
VARIABLE followed  \* "sessions" or "database"

MCInit ==
    /\ followed \in {"sessions", "database"}
    /\ TargetInit
    /\ followed = "sessions" => part = "migrations"
    /\ Init

MCNext ==
    \/ followed = "sessions" /\ Next /\ UNCHANGED <<followed, targetVars>>
    \/ followed = "database" /\ TargetNext /\ UNCHANGED <<followed, vars>>

MCSpec == MCInit /\ [][MCNext]_<<followed, targetVars, vars>>

-----------------------------------------------------------------------------
\* Tables to export: a column takes NULL or not, and each type is there once.
Col(name, type, nullable) ==
    [name |-> name, type |-> type, nullable |-> nullable, default |-> FALSE]
MCLayouts ==
    {<<Col("id", "integer", FALSE), Col("note", "text", TRUE)>>,
     <<Col("at", "datetime", TRUE), Col("note", "text", FALSE)>>,
     <<Col("flag", "boolean", FALSE), Col("price", "numeric", TRUE)>>,
     <<Col("note", "text", TRUE)>>}
MCSpare == [Col("extra", "text", TRUE) EXCEPT !.default = TRUE]

\* Files of other programs: a short record, an unknown column, a key that some
\* objects lack, a column too few, no row; values that only look right, and
\* values the database reads as others.
Field(text) == [text |-> text, quoted |-> FALSE]
MCForeign ==
    <<[format |-> "csv", names |-> <<"id", "note">>,
       body |-> <<<<Field("7"), Field("x")>>, <<Field("x")>>>>],
      [format |-> "csv", names |-> <<"id", "other">>, body |-> <<<<Field("7"), Field(Blank)>>>>],
      [format |-> "json", names |-> <<>>,
       body |-> <<[note |-> "x"], [id |-> "7", note |-> "empty"]>>],
      [format |-> "json", names |-> <<>>, body |-> <<[note |-> "x"], [note |-> "x"]>>],
      [format |-> "csv", names |-> <<"note">>, body |-> <<>>],
      [format |-> "csv", names |-> <<"id", "note">>,
       body |-> <<<<Field("7"), Field("x")>>, <<Field("huge"), Field("noon")>>>>],
      [format |-> "json", names |-> <<>>, body |-> <<[at |-> "noon", note |-> "x"]>>],
      [format |-> "csv", names |-> <<"price", "flag">>,
       body |-> <<<<Field("1e+06"), Field("t")>>>>]>>

-----------------------------------------------------------------------------
\* Schemas: two keys of one table to one other, whose names meet a column and
\* each other; a table whose columns differ by a capital.
MCWords ==
    {"id", "Ref", "author", "Author", "authors", "books", "films", "at", "note", "ok", "price"}
IdName == <<"id">>
SchemaColumn(name, type) == [name |-> name, type |-> type, nullable |-> FALSE, pk |-> name = IdName]
Key(name, column, to) ==
    [name |-> name, table |-> <<"books">>, columns |-> <<column>>, to |-> <<to>>, on |-> <<IdName>>]
Authors == [name |-> <<"authors">>, columns |-> <<SchemaColumn(IdName, "bigint")>>]
Books ==
    [name |-> <<"books">>,
     columns |-> <<SchemaColumn(IdName, "bigint"), SchemaColumn(<<"author", "id">>, "bigint"),
                   SchemaColumn(<<"author">>, "text"),
                   SchemaColumn(<<"author", "Ref">>, "bigint")>>]
Odd ==
    [name |-> <<"authors">>,
     columns |-> <<SchemaColumn(IdName, "bigint"), SchemaColumn(<<"Author">>, "bigint"),
                   SchemaColumn(<<"author">>, "text")>>]
ByAuthor == Key("k1", <<"author", "id">>, "authors")
ByRef == Key("k2", <<"author", "Ref">>, "authors")
Itself == Key("k3", <<"author">>, "books")
SameName == [ByAuthor EXCEPT !.table = <<"authors">>, !.columns = <<IdName>>]
Both ==
    [ByAuthor EXCEPT !.name = "k4", !.columns = <<<<"author", "id">>, IdName>>,
                     !.on = <<IdName, IdName>>]
MCCatalogs ==
    {[tables |-> {Authors, Books}, keys |-> {ByAuthor, ByRef}],
     [tables |-> {Authors, Books}, keys |-> {}],
     [tables |-> {Odd}, keys |-> {}]}
MCLaterKeys == {Itself, SameName, ByRef, Both}

\* What is entered in the form; four of them are refused.
Entry(name, type, pk) ==
    [name |-> name, type |-> type, nullable |-> TRUE, pk |-> pk, default |-> FALSE]
Form(columns) == [name |-> <<"films">>, columns |-> columns]
MCForms ==
    {Form(<<Entry(IdName, "serial", TRUE), Entry(<<"at">>, "timestamp", FALSE),
            Entry(<<"note">>, "varchar", FALSE)>>),
     Form(<<Entry(IdName, "bigint", TRUE), Entry(<<"ok">>, "boolean", FALSE),
            Entry(<<"price">>, "numeric", FALSE)>>),
     Form(<<Entry(IdName, "serial", FALSE)>>),
     Form(<<Entry(IdName, "text", TRUE), Entry(IdName, "text", FALSE)>>),
     Form(<<Entry(IdName, "json", FALSE)>>),
     [Form(<<Entry(IdName, "text", TRUE)>>) EXCEPT !.name = <<>>]}

-----------------------------------------------------------------------------
\* Documents: a field that is missing, null, an object, an array of objects, an
\* empty array, and objects within objects within arrays.
S == Scalar("string")
Object(fields) == Value("object", fields, <<>>)
Array(elements) == Value("array", <<>>, elements)
MCDocuments ==
    {[a |-> S],
     [a |-> Scalar("null"), b |-> Object([c |-> S])],
     [b |-> Object([d |-> Scalar("int")])],
     [b |-> Array(<<Object([c |-> S]), Scalar("int")>>)],
     [b |-> Array(<<>>)],
     [a |-> Array(<<Array(<<S>>)>>),
      b |-> Array(<<Object([e |-> Object([c |-> S])]), Object([c |-> S])>>)]}
=============================================================================
