SPECIFICATION Spec
CONSTANTS
    Calls = {c1, c2, c3, c4}
    Sessions = {s1}
    Ops = {"open", "run", "cancel", "close"}
    MaxStatements = 1
    MaxInFlight = 2
    PgSessions = {s1}
    SavedSessions = {s1}
    None = None
SYMMETRY CallSymmetry
INVARIANTS
    RunningQueryCancellable
