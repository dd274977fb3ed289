SPECIFICATION Spec
CONSTANTS
    Peers = {a, b, c}
    Streams = {s, t}
    Configs <- BothConfigs
    ChannelCapacity = 1
    MaxRequests = 3
INVARIANTS TypeOK SlotsHonoured RoomsInBounds NobodyMissed
SYMMETRY Symmetry
CHECK_DEADLOCK FALSE
