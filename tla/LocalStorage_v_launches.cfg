SPECIFICATION StorageSpec
CONSTANTS
    Instances = {p1, p2}
    MaxSaved = 1
    MaxSnippets = 0
INVARIANT CurrentSchemaStays
