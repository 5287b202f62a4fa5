SPECIFICATION MigrationsSpec
CONSTANTS
    Calls = {c1, c2}
    Slugs = {a}
    LastSecond = 1
    Distinct = TRUE
    DDLCommits = TRUE
    None = None
INVARIANTS
    NeverEndsHalfApplied
