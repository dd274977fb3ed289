SPECIFICATION MCSpec
CONSTANTS
    Peers = {a}
    Streams = {s1}
    Stream = s1
    RelayCapacity = 2
    MaxConnections = 2
    MaxEstablished = 3
    MaxPolled = 3
    MaxCalls = 2
    MaxStarts = 2
    Last = 3
    Runs = {1, 2}
    MaxStreams = 1
    MaxForeign = 1
INVARIANT ListedIsConnected
PROPERTIES FeedImplemented
CHECK_DEADLOCK FALSE
