SPECIFICATION Spec
CONSTANTS
    Items = {1}
    Scales = {x1}
    Subs = {0, 1}
    NoMarker = NoMarker
    HourLength = 2
    DayLength = 4
    Days = 1
    BatchSize = 2
    EnvDays = 0
    DefaultDays = 1
    StartClock = 5
    MaxClock = 6
    MaxEvents = 3
    MaxRuns = 2
    MaxFaults = 1
INVARIANTS
    BucketsOutliveRawRows
    StatsLast24hExact
    BatchEqualsSerial
PROPERTIES
    MarkerMeansComplete
    CancelLosesNothing
CHECK_DEADLOCK FALSE
