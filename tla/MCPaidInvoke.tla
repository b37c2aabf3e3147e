---------------------------- MODULE MCPaidInvoke ----------------------------
EXTENDS PaidInvoke, TLC
Symmetry ==
    Permutations(Requests) \cup Permutations(Secrets) \cup Permutations(Accounts)
=============================================================================
