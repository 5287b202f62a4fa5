SPECIFICATION AppSpec
CONSTANTS
    Calls = {c1, c2, c3, c4}
    None = None
    Instances = {p1}
    MaxSaved = 2
    MaxSnippets = 2
INVARIANTS
    OnePoller
    DashboardIsFed
    StorageSurvives
PROPERTIES
    StopReturns
