----------------------------- MODULE MCKeyAdmin -----------------------------
EXTENDS KeyAdmin, TLC
Symmetry == Permutations(Admins) \cup Permutations(Secrets) \cup Permutations(Accounts)
=============================================================================
