SPECIFICATION Spec
CONSTANTS
    Calls = {c1, c2}
    Sessions = {s1, s2}
    Ops = {"open"}
    MaxStatements = 1
    MaxInFlight = 2
    PgSessions = {s1}
    SavedSessions = {s1}
    None = None
SYMMETRY CallSymmetry
INVARIANTS
    NothingLeaksPastExit
