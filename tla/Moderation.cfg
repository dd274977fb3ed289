SPECIFICATION Spec
CONSTANTS
    Peers = {p1}
    StreamIds = {s1}
    Clients = {c1, c2}
    Imports <- OneImport
    MaxFlags = 2
    MaxCrashes = 1
INVARIANTS RestartFinds
PROPERTIES SnapshotConsistent
CHECK_DEADLOCK FALSE
