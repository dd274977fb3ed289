SPECIFICATION MCSpec
CONSTANTS
    Peers = {p1, p2, p3, p4}
    NoPeer = NoPeer
    DefaultMaxChildren = 2
    AbsoluteMaxChildren = 3
    Capacities = {4}
    DefaultCapacity = 4
    RebalanceThreshold = 3
    MaxOperations = 7
    MaxReports = 1
SYMMETRY PeerSymmetry
INVARIANTS TypeOK LinksConsistent SourceIsRoot
PROPERTY RebalanceAdopts
CHECK_DEADLOCK FALSE
