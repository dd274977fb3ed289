SPECIFICATION MCSpec
CONSTANTS
    Clients = {c}
    Relays = {r}
    Streams = {own, other}
    Own = own
    Segments = 1
    Starts = {1, 2}
    BusCapacity = 1
    RelayCapacity = 1
    MaxSends = 1
    MaxEvents = 1
INVARIANT ViewerAccounts
PROPERTIES StartReturns ViewersEnd
CHECK_DEADLOCK FALSE
