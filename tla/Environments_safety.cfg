SPECIFICATION Spec
CONSTANTS
    Calls = {c1, c2, c3, c4}
    Profiles = {p1, p2, p3}
    Engines = {Postgres, MySQL}
    Ops = {"create", "duplicate", "delete", "start", "stop", "reset"}
    Postgres = Postgres
    MySQL = MySQL
    DefaultPort <- MCDefaultPort
    ForeignPorts = {1}
    None = None
CONSTRAINT Bound
SYMMETRY IdSymmetry
PROPERTIES
    StartStopEffective
INVARIANTS
    PatientDeleteLeavesNothing
    ResetErasesData
    
