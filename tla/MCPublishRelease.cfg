CONSTANTS
    Publishers = {p1, p2}
    Functions = {f1}
    Wasms = {w1}
    Origins = {}
    TTL = 1
    Second = 2
    Skew = 1
    MaxTime = 4
    MaxLate = 0
    Absent = Absent
SPECIFICATION PublishSpec
CHECK_DEADLOCK FALSE
INVARIANT
    LiveHolderKeepsLock
