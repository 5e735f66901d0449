SPECIFICATION FairSpec
CONSTANTS
    Names = {n1}
    NoName = NoName
    Streams = {s1, s2}
    NoStream = NoStream
    NoEvent = NoEvent
    QueueSize = 1
    WireSize = 1
    Ticks = {0, 1}
    HourLength = 2
    Skew = 2
    MaxId = 1
    MaxFaults = 3
INVARIANTS
    MirrorWrongOnlyForCause
PROPERTIES
    EvictedClientResyncs
    EventuallyStreaming
CHECK_DEADLOCK FALSE
