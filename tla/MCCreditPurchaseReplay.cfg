CONSTANTS
    Accounts = {a1, a2}
    Secrets = {s1, s2}
    Nonces = {n1}
    Buyers = {b1, b2}
    Absent = Absent
    CREDIT_ATTEMPTS = 3
    InvokeCounts = {0, 3}
    Prices = {2}
    Values = {6}
    Assets = {usdc}
    USDC = usdc
    Payees = {platform}
    PAY_TO = platform
    MAX_U64 = 7
SPECIFICATION PaySpec
CHECK_DEADLOCK FALSE
INVARIANT
    OkMeansCreditedHere
