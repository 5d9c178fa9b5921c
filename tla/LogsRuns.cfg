SPECIFICATION Spec
CONSTANTS
    Query <- TwoQueries
    Proc <- OneServer
    Outcome <- TwoOutcomes
    DayLength = 2
    MaxTime = 2
    MaxFaults = 1
    Window = 1
    MaxReboots = 1
INVARIANTS
    LostOnlyWithoutRecord
    TwiceOnlyAcrossTime
    NoFalseAlarm
PROPERTIES
    LocalGrows
    PullComplete
CHECK_DEADLOCK FALSE
