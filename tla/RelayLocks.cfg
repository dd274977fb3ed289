SPECIFICATION Spec
CONSTANTS
    Streams = {s1}
    Peers = {a}
    LocalPeer = local
    Publisher = origin
    Kinds = {"delta"}
    ChannelCapacity = 1
    MaxBufferSize = 1
    MaxKeyframes = 1
    MaxSequence = 2
    MaxMessages = 1
PROPERTIES NeverStuck
CHECK_DEADLOCK FALSE
