CONSTANTS
    Accounts = {a1, a2}
    Secrets = {s1, s2}
    Nonces = {n1}
    Buyers = {b1, b2}
    Sessions = {b1}
    Absent = Absent
    CREDIT_ATTEMPTS = 2
    InvokeCounts = {0, 2, 4}
    Prices = {2, 3}
    Values = {4, 6}
    MaxUsdc = {4}
    Assets = {usdc, other}
    USDC = usdc
    Payees = {platform, nobody}
    PAY_TO = platform
    MAX_U64 = 7
SPECIFICATION FairCheckoutSpec
CHECK_DEADLOCK FALSE
INVARIANTS
    CheckoutTypeOK
    CreditsArePaidFor
    OkMeansCredited
    SettledAccountedFor
    CheckoutKeepsItsWord
PROPERTY
    BuyersAnswered
