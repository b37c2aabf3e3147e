CONSTANTS
    Accounts = {a1, a2}
    Secrets = {s1, s2}
    Nonces = {n1}
    Admins = {x1, x2}
    Absent = Absent
    AdminCaps = {2}
    AdminCost = 1
    AdminCredit = 1
    MinDeployCredits = 1
SPECIFICATION AdminSpec
CHECK_DEADLOCK FALSE
SYMMETRY Symmetry
INVARIANTS
    AdminTypeOK
    UncappedKeyBehindEveryChange
    RevokeOkMeansRevoked
    KeyOpensItsOwnAccount
