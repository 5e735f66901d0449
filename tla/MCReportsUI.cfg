SPECIFICATION Spec
CONSTANTS
    MaxJobs = 2
    Loads = {l1, l2}
    MaxErrors = 2
INVARIANTS
    PillOfShownJob
PROPERTIES
    NoRogueTimer
    ShownJobSettles
    PageRecovers
CHECK_DEADLOCK FALSE
