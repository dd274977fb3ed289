SPECIFICATION Spec
CONSTANTS
    Peers = {a, b, c}
    Streams = {s}
    Configs <- OnlyFewPeers
    ChannelCapacity = 1
    MaxRequests = 2
PROPERTY EveryoneServed
CHECK_DEADLOCK FALSE
