SPECIFICATION MCSpec
CONSTANTS
    Streams = {s1}
    Peers = {a}
    LocalPeer = local
    Publisher = origin
    Kinds = {"delta"}
    ChannelCapacity = 1
    MaxBufferSize = 2
    MaxKeyframes = 2
    MaxSequence = 2
    MaxMessages = 2
    MaxInputs = 4
    SequenceNumbers = {1, 2, 3}
    MaxArrivals = 4
    Senders = {peer}
    Tracks = {video}
    TrackSequences = {1, 2}
    MaxPerSecond = 1
    Second = 2
    MaxTime = 5
    MaxValidations = 6
INVARIANTS TypeOK StatsAgree ChunksConserved KeepsLatest CatchupExact RateHonoured RefusedForCause
PROPERTIES ChannelDrains
CHECK_DEADLOCK FALSE
