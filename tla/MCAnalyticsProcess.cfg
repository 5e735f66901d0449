SPECIFICATION FairSpec
CONSTANTS
    Requests = {get, ready}
    Readyz = {ready}
    PoolSize = 2
    MaxTicks = 2
INVARIANTS
    WorkersReturnBeforeClose
    ExitCodeTellsOfLostRequests
PROPERTY StopIsHeeded
CHECK_DEADLOCK FALSE
