SPECIFICATION Spec
CONSTANTS
    Calls = {c1, c2, c3}
    Profiles = {p1}
    Engines = {Postgres}
    Ops = {"create", "duplicate", "delete", "start", "stop", "reset"}
    Postgres = Postgres
    MySQL = MySQL
    DefaultPort <- MCDefaultPort
    ForeignPorts = {}
    None = None
SYMMETRY IdSymmetry
INVARIANTS
    NoOrphanedContainer
