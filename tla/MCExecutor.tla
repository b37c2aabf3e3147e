----------------------------- MODULE MCExecutor -----------------------------
EXTENDS Executor
\* Every function may fetch from every origin.
AllowAll == [r \in Runs |-> Origins]
=============================================================================
