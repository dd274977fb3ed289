SPECIFICATION MCSpec
CONSTANTS
    Peers = {a}
    Streams = {s1}
    Stream = s1
    RelayCapacity = 1
    MaxConnections = 1
    MaxEstablished = 1
    MaxPolled = 3
    MaxCalls = 1
    MaxStarts = 1
    Last = 3
    Runs = {1}
    MaxStreams = 1
    MaxForeign = 0
PROPERTY SwarmReleased
CHECK_DEADLOCK FALSE
