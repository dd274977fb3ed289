SPECIFICATION MCSpec
CONSTANTS
    Nodes = {p, v}
    Publisher = p
    Owner <- OwnedByPublisher
    Services = {p}
    Receivers = {r1, r2}
    Streams = {s1, s2}
    Ttl = 0
    MaxCached = 1
    MaxTime = 1
    MaxCalls = 2
INVARIANTS TypeOK EndedExpires
PROPERTIES StopEnds
CHECK_DEADLOCK FALSE
