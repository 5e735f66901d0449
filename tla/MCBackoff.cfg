SPECIFICATION BackoffSpec
CONSTANTS
    Width = 16
    MaxShift = 7
    Bases <- MCBases
    Maxes = {0, 1, 30, 1000, 32767}
    DefaultBase = 10
    DefaultMax = 300
    MaxAttempts = 10
INVARIANTS
    OutageBacksOff
