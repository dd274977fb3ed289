SPECIFICATION ParserSpec
CONSTANTS
    Files <- MCFiles
    StreamIds = {"s"}
    ChunkBytes = 4
    MaxBoxBytes = 500
    U32Max = 15
INVARIANTS
    SamplesWhereTheyAre SegmentsAreGops TimelineContiguous InitsSplitTheTracks
    FragmentsRetimed
CHECK_DEADLOCK FALSE
