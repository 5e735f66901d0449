SPECIFICATION ShapeSpec
CONSTANTS
    Refs <- MCRefs
    Scales = {1, 4, 24}
    Profiles <- MCProfiles
    Days = 28
INVARIANTS
    WeekdayOfCalendar
    AnnotationsSpanShapedHours
    NoAnomalyIsMissed
    OnlyOutagesAreEmpty
CHECK_DEADLOCK FALSE
