CONSTANTS
    Runs = {r1, r2}
    Origins = {o1}
    Allow <- AllowAll
    InvokeTime = 5
    EpochTick = 2
    HttpTime = 2
    StraightLine = 2
    MaxLag = 1
    MaxTime = 13
SPECIFICATION FairExecutorSpec
CHECK_DEADLOCK FALSE
INVARIANTS
    ExecutorTypeOK
    NotInterruptedEarly
    RunIsBounded
PROPERTY
    EveryRunEnds
