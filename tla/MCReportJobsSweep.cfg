SPECIFICATION Spec
CONSTANTS
    Jobs = {j1}
    NoJob = NoJob
    Workers = {w1}
    MaxFaults = 1
PROPERTY SweepFailsOnlyOrphans
CHECK_DEADLOCK FALSE
