SPECIFICATION FairSpec
CONSTANTS
    Calls = {c1, c2, c3}
    Sessions = {s1}
    Ops = {"open", "run", "browse", "cancel", "close"}
    MaxStatements = 2
    MaxInFlight = 1
    PgSessions = {s1}
    SavedSessions = {s1}
    None = None
INVARIANTS
    TypeOK
    HistoryRefersToConnection
    RunningQueryCancellable
PROPERTIES
    CancelledCallReturns
    ClosingReturns
