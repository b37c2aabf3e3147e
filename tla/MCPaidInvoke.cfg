CONSTANTS
    Accounts = {a1, a2}
    Secrets = {s1, s2}
    Nonces = {n1}
    Requests = {r1, r2}
    Absent = Absent
    InvokeCost = 2
    SpendCaps = {3}
    InvokeCounts = {3}
SYMMETRY Symmetry
SPECIFICATION Spec
CHECK_DEADLOCK FALSE
INVARIANTS
    InvokeTypeOK
    CreditsConserved
    CapConserved
    GuestIsPaid
    UnearnedChargeExplained
    LedgerInv
    KeyHolderPays
PROPERTY
    RevocationIsFinal
    LedgerIsEscrow
