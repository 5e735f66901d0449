SPECIFICATION FairSpec
CONSTANTS
    Procs = {Serve, Seed}
    Supervised = {Serve}
    NumMigrations = 4
    Attempts = 2
    MaxFaults = 2
INVARIANTS
    RecordedIffAppliedOnce
PROPERTIES
    ImplementsSchemaVersion
    SupervisedEventuallyRuns
