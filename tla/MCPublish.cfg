CONSTANTS
    Publishers = {p1, p2}
    Functions = {f1}
    Wasms = {w1, w2}
    Origins = {o1}
    TTL = 1
    Second = 2
    Skew = 1
    MaxTime = 4
    MaxLate = 1
    Absent = Absent
SPECIFICATION FairPublishSpec
CHECK_DEADLOCK FALSE
INVARIANTS
    PublishTypeOK
    AnswerMatchesCatalog
    SupersededByConcurrent
    LockExcludes
PROPERTIES
    CatalogIsRegister
    CrashedPublishUnblocks
