--------------------------- MODULE TargetDatabase ---------------------------
(***************************************************************************)
(* What the app does to, and tells of, the databases it is connected to in *)
(* several steps each: migrations, the files a table is exported to and    *)
(* imported from, and the descriptions of a schema or of a collection.     *)
(* They share nothing in the app, so one part is followed at a time.       *)
(***************************************************************************)
EXTENDS Migrations, TableFiles, SchemaFiles, CollectionShapes

VARIABLE part  \* the part that is followed

targetVars == <<part, migrationsVars, filesVars, schemaFileVars, shapeVars>>

\* The other parts have nothing to work on.
TargetInit ==
    /\ part \in {"migrations", "files", "schema", "shapes"}
    /\ MigrationsInit
    /\ IF part = "files" THEN FilesInit
       ELSE cols = <<>> /\ lines = <<>> /\ writes = 0 /\ disk = {} /\ job = {}
    /\ IF part = "schema" THEN SchemaFilesInit
       ELSE /\ dialect = "mysql"
            /\ catalog = {} /\ keys = {} /\ made = {} /\ ddl = 0 /\ describe = {}
    /\ ShapesInit

MigrationsPart ==
    /\ part = "migrations"
    /\ MigrationsNext
    /\ UNCHANGED <<part, filesVars, schemaFileVars, shapeVars>>

FilesPart ==
    /\ part = "files"
    /\ FilesNext
    /\ UNCHANGED <<part, migrationsVars, schemaFileVars, shapeVars>>

SchemaPart ==
    /\ part = "schema"
    /\ SchemaFilesNext
    /\ UNCHANGED <<part, migrationsVars, filesVars, shapeVars>>

ShapesPart ==
    /\ part = "shapes"
    /\ ShapesNext
    /\ UNCHANGED <<part, migrationsVars, filesVars, schemaFileVars>>

\* Nothing need ever be asked for; a bound method that runs goes on.
AtRest ==
    /\ part \in {"files", "schema"}
    /\ job = {}
    /\ describe = {}
    /\ UNCHANGED targetVars

TargetNext == MigrationsPart \/ FilesPart \/ SchemaPart \/ ShapesPart \/ AtRest

TargetSpec == TargetInit /\ [][TargetNext]_targetVars

=============================================================================
