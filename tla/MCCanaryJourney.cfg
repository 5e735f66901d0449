SPECIFICATION Spec
CONSTANTS
    MaxJourneys = 3
    Deadline = 3
    MaxFaults = 2
INVARIANTS
    LeftoversHaveCause
PROPERTIES
    EveryJourneyEnds
CHECK_DEADLOCK FALSE
