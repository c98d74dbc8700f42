SPECIFICATION Spec
CONSTANTS
    U64Max = 120
    I128Max = 300
    MINUTE = 2
    HOUR_MINUTES = 2
    DAY_HOURS = 2
    WEEK_DAYS = 3
    FIRST_MONDAY_OFFSET_DAYS = 1
    BPS_SCALE = 10
    Cases <- MCCases
    Period = 3
    MaxNow = 90
INVARIANTS
    FirstRunIsEarliestMatch
    NextRunIsLeastLaterSlot
    ReleaseWithinOneEpoch
PROPERTIES
    FeeNeverFalls
CHECK_DEADLOCK FALSE
