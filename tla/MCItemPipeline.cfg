SPECIFICATION PipelineSpec
CONSTANTS
    Names = {n1, n2}
    NoName = NoName
    Streams = {s1, s2}
    NoStream = NoStream
    NoEvent = NoEvent
    QueueSize = 2
    WireSize = 1
    Ticks = {1}
    HourLength = 2
    Skew = 2
    MaxId = 2
    MaxFaults = 1
SYMMETRY Symmetry
INVARIANTS
    NoGapWhileSubscribed
    SentinelEndsEvictedStream
    OneEventPerCommit
    EmitAfterCommit
    BucketsCountRawEvents
    HealthyStreamLosesNothing
    MirrorWrongOnlyForCause
PROPERTIES
    ImplementsEventFeed
CHECK_DEADLOCK FALSE
