CONSTANTS
    Accounts = {a1}
    Secrets = {s1}
    Nonces = {n1}
    Requests = {r1}
    Absent = Absent
    InvokeCost = 2
    SpendCaps = {3}
    InvokeCounts = {3}
SPECIFICATION Spec
CHECK_DEADLOCK FALSE
INVARIANT
    PreGuestFailureRefunded
