CONSTANTS
    f1 = f1
    w1 = w1
    w2 = w2
    o1 = o1
    Functions = {f1}
    Wasms = {w1, w2}
    Origins = {o1}
    Generations = {0}
    OfferSets <- MCOfferSets
    Absent = Absent
    Hosts = {h1}
    Invokes = {i1, i2}
    Bodies = {b1, b2}
    Sessions = {i1}
    PCR0 = PCR0
SPECIFICATION ClientSpec
CHECK_DEADLOCK FALSE
SYMMETRY Symmetry
INVARIANTS
    ClientTypeOK
    CacheIsFaithful
    RunsOnePublish
    PaidOncePerRun
    
