SPECIFICATION Spec
CONSTANTS
    Calls = {c1, c2}
    Keys = {k1, k2}
    k1 = k1
    Patterns <- MCPatterns
    Early = {k1}
    Colls = {x1, x2}
    OldIds = {1, 2}
    MaxId = 3
    Filters <- MCFilters
    PageSize = 2
    None = None
    Parts = {1, 2}
    Texts = {1, 2}
    EarlyParts = {1}
    WindowSize = 1
    MaxLen = 2
    MaxTTL = 1
SYMMETRY Symmetry
CONSTRAINT Unused
ACTION_CONSTRAINTS
    Drain
    Apart
    SettledPattern
INVARIANTS
    SessionsAccountedFor
    NothingSpins
    EditsHitTheirSource
    WalkSeesEveryMatch
    ScreenShowsStore
    NothingLost
