SPECIFICATION Spec
CONSTANTS
    Calls = {c1, c2, c3, c4}
    Tables = {t1, t2}
    None = None
    Keys = {1, 2}
    Vals = {a, b}
    Early = {a}
    MaxTasks = 3
    Namespaces = {1, 2}
SYMMETRY Symmetry
CONSTRAINT Bounds
INVARIANTS
    NoSessionLeaks
    NothingSpins
    GridBoundToItsTable
    TreeShowsCreatedTables
    WritesHitChosenRows
    GridShowsTable
    DiagramIsOfSelection
