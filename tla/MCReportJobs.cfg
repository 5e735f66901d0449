SPECIFICATION FairSpec
CONSTANTS
    Jobs = {j1, j2}
    NoJob = NoJob
    Workers = {w1, w2}
    MaxFaults = 3
INVARIANTS
    AcceptedJobsAreOwned
    SucceededHasArtifact
PROPERTIES
    FinalStatusStays
    NoJobDangles
CHECK_DEADLOCK FALSE
