SPECIFICATION MCSpec
CONSTANTS
    Calls = {c1, c2, c3, c4}
    Slugs = {a, b}
    LastSecond = 2
    Distinct = TRUE
    DDLCommits = FALSE
    None = None
    Page = 1
    MaxLines = 2
    MaxWrites = 1
    Layouts <- MCLayouts
    Spare <- MCSpare
    Foreign <- MCForeign
    Words <- MCWords
    Catalogs <- MCCatalogs
    Forms <- MCForms
    LaterKeys <- MCLaterKeys
    MaxDDL = 2
    Documents <- MCDocuments
    SampleSize = 3
    Sessions = {s1, s2}
    Ops = {"open", "run", "browse", "introspect", "cancel", "close"}
    MaxStatements = 1
    MaxInFlight = 2
    PgSessions = {s1}
    SavedSessions = {s1}
SYMMETRY Symmetry
INVARIANTS
    TrackedIffInForce
    AppliedIsPrefix
    NothingHalfFormed
    ExportIsExact
    SchemaFileResolves
    ShapesFitTheSample
    EngineOwnedOnce
    MapHoldsOpenEngines
    RegisteredCancelIsLive
    CancelHitsOwnSession
    NoTeardownUnderStatement
PROPERTIES
    ImplementsLifecycle
    RollbackRevertsLast
    ImportIsWhole
