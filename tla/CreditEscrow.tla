---------------------------- MODULE CreditEscrow ----------------------------
(***************************************************************************)
(* What the invoke-credit ledger promises, without tables, replicas,       *)
(* transactions or hosts: the cost of an invoke is taken from one account  *)
(* before the guest starts, and is then either used by the guest or given  *)
(* back to that account, never both and never twice. Only a payment adds   *)
(* to a balance.                                                           *)
(***************************************************************************)
EXTENDS Naturals

CONSTANTS Accounts, Requests, InvokeCost, InvokeCounts, Absent

VARIABLES
    balance,    \* account -> credits, Absent before the account is opened
    deposited,  \* account -> credits ever paid for
    escrow,     \* request -> what became of its cost
    payer       \* request -> the account its cost was taken from

escrowVars == <<balance, deposited, escrow, payer>>

EscrowInit ==
    /\ balance = [a \in Accounts |-> Absent]
    /\ deposited = [a \in Accounts |-> 0]
    /\ escrow = [r \in Requests |-> "none"]
    /\ payer = [r \in Requests |-> Absent]

Open(a) ==
    /\ balance[a] = Absent
    /\ balance' = [balance EXCEPT ![a] = 0]
    /\ UNCHANGED <<deposited, escrow, payer>>

Deposit(a, n) ==
    /\ balance[a] # Absent
    /\ balance' = [balance EXCEPT ![a] = @ + n]
    /\ deposited' = [deposited EXCEPT ![a] = @ + n]
    /\ UNCHANGED <<escrow, payer>>

Reserve(r, a) ==
    /\ escrow[r] = "none"
    /\ balance[a] # Absent /\ balance[a] >= InvokeCost
    /\ balance' = [balance EXCEPT ![a] = @ - InvokeCost]
    /\ escrow' = [escrow EXCEPT ![r] = "held"]
    /\ payer' = [payer EXCEPT ![r] = a]
    /\ UNCHANGED deposited

\* The guest starts: on a reservation, or on nothing when invokes are free.
Use(r) ==
    /\ \/ escrow[r] = "held"
       \/ escrow[r] = "none" /\ InvokeCost = 0
    /\ escrow' = [escrow EXCEPT ![r] = "used"]
    /\ UNCHANGED <<balance, deposited, payer>>

Return(r) ==
    /\ escrow[r] = "held"
    /\ balance' = [balance EXCEPT ![payer[r]] = @ + InvokeCost]
    /\ escrow' = [escrow EXCEPT ![r] = "returned"]
    /\ UNCHANGED <<deposited, payer>>

EscrowNext ==
    \/ \E a \in Accounts : Open(a) \/ \E n \in InvokeCounts : Deposit(a, n)
    \/ \E r \in Requests :
        Use(r) \/ Return(r) \/ \E a \in Accounts : Reserve(r, a)

EscrowSpec == EscrowInit /\ [][EscrowNext]_escrowVars
=============================================================================
