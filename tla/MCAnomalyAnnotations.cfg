SPECIFICATION Spec
CONSTANTS
    Runs = {r1, r2, r3}
    NumAnomalies = 2
    Limit = 3
    MaxFaults = 2
SYMMETRY RunSymmetry
INVARIANTS
    NeverMixed
    OneReplacer
PROPERTY SuccessReplacesEverything
CHECK_DEADLOCK FALSE
