CONSTANTS
    Runs = {r1}
    Origins = {o1}
    Allow <- AllowAll
    InvokeTime = 4
    EpochTick = 2
    HttpTime = 2
    StraightLine = 1
    MaxLag = 0
    MaxTime = 9
SPECIFICATION ExecutorSpec
CHECK_DEADLOCK FALSE
INVARIANT
    WallClockDeadline
