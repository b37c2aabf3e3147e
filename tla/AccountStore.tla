---------------------------- MODULE AccountStore ----------------------------
(***************************************************************************)
(* The invoke-credit ledger: the three DynamoDB tables behind              *)
(* DynamoAccountStore and the conditional writes it sends to them.         *)
(*                                                                         *)
(* The tables are shared by every API task and every enclave host. None of *)
(* these processes keeps ledger state of its own, so each write below is   *)
(* one atomic step on the tables; the reads that decide which write to     *)
(* send are separate steps of the modules that EXTEND this one.            *)
(*                                                                         *)
(* GetItem and Query are sent without ConsistentRead, so a read may answer *)
(* from a copy that lags the table: every table has a replica, which       *)
(* catches up row by row.                                                  *)
(***************************************************************************)
EXTENDS Naturals, FiniteSets

CONSTANTS
    Accounts,   \* account ids
    Secrets,    \* secret hashes; a key id is in bijection with its hash
    Nonces,     \* x402 payment nonces
    Absent      \* what a read of a row that does not exist returns (None)

VARIABLES
    accounts,   \* accounts table: id -> balance
    keys,       \* keys table: secret hash -> KeyRecord
    receipts,   \* receipts table: payment nonce -> what it bought
    accountsReplica, keysReplica, receiptsReplica,
    credited,   \* history: credits ever added to an account by credit()
    cap         \* history: the spend cap a key was issued with

tables == <<accounts, keys, receipts>>
replicas == <<accountsReplica, keysReplica, receiptsReplica>>
history == <<credited, cap>>
storeVars == <<accounts, keys, receipts, accountsReplica, keysReplica,
               receiptsReplica, credited, cap>>

\* An uncapped key has no cap_remaining attribute; 0 stands for it and is
\* never read.
KeyRecord == [account_id: Accounts, revoked: BOOLEAN, capped: BOOLEAN,
              cap_remaining: Nat]
Receipt == [account_id: Accounts, invokes: Nat]

ASSUME AbsentAssumption ==
    /\ Absent \notin Nat
    /\ Absent \notin KeyRecord
    /\ Absent \notin Receipt

StoreTypeOK ==
    /\ accounts \in [Accounts -> Nat \cup {Absent}]
    /\ keys \in [Secrets -> KeyRecord \cup {Absent}]
    /\ receipts \in [Nonces -> Receipt \cup {Absent}]
    /\ accountsReplica \in [Accounts -> Nat \cup {Absent}]
    /\ keysReplica \in [Secrets -> KeyRecord \cup {Absent}]
    /\ receiptsReplica \in [Nonces -> Receipt \cup {Absent}]
    /\ credited \in [Accounts -> Nat]
    /\ cap \in [Secrets -> Nat]

StoreInit ==
    /\ accounts = [a \in Accounts |-> Absent]
    /\ keys = [s \in Secrets |-> Absent]
    /\ receipts = [n \in Nonces |-> Absent]
    /\ accountsReplica = accounts
    /\ keysReplica = keys
    /\ receiptsReplica = receipts
    /\ credited = [a \in Accounts |-> 0]
    /\ cap = [s \in Secrets |-> 0]

-----------------------------------------------------------------------------
(* Reads: the rows an eventually consistent GetItem may return.            *)

ReadAccount(a) == {accounts[a], accountsReplica[a]}
ReadKey(s) == {keys[s], keysReplica[s]}
ReadReceipt(n) == {receipts[n], receiptsReplica[n]}

\* A replica of one row catches up with its table.
ReplicateAccount ==
    /\ \E a \in Accounts :
        /\ accountsReplica[a] # accounts[a]
        /\ accountsReplica' = [accountsReplica EXCEPT ![a] = accounts[a]]
    /\ UNCHANGED <<tables, keysReplica, receiptsReplica, history>>

ReplicateKey ==
    /\ \E s \in Secrets :
        /\ keysReplica[s] # keys[s]
        /\ keysReplica' = [keysReplica EXCEPT ![s] = keys[s]]
    /\ UNCHANGED <<tables, accountsReplica, receiptsReplica, history>>

ReplicateReceipt ==
    /\ \E n \in Nonces :
        /\ receiptsReplica[n] # receipts[n]
        /\ receiptsReplica' = [receiptsReplica EXCEPT ![n] = receipts[n]]
    /\ UNCHANGED <<tables, accountsReplica, keysReplica, history>>

\* Whether debit() refuses on the rows it read.
Denial(balance, key, cost) ==
    \/ balance < cost
    \/ key.capped /\ key.cap_remaining < cost

-----------------------------------------------------------------------------
(* Writes: the conditions and updates of each TransactWriteItems / Put /   *)
(* UpdateItem. A write whose conditions fail changes nothing.              *)

NewKeyWithoutCap(a, capped, remaining) ==
    [account_id |-> a, revoked |-> FALSE, capped |-> capped,
     cap_remaining |-> Absent]

NewKey(a, capped, remaining) ==
    [account_id |-> a, revoked |-> FALSE, capped |-> capped,
     cap_remaining |-> remaining]

\* Accounts::create: a fresh account with balance 0 and its first, uncapped key.
CreateTx(a, s) ==
    /\ accounts[a] = Absent
    /\ keys[s] = Absent
    /\ accounts' = [accounts EXCEPT ![a] = 0]
    /\ keys' = [keys EXCEPT ![s] = NewKey(a, FALSE, 0)]
    /\ UNCHANGED <<receipts, replicas, history>>

PutKeyTxOverwriting(a, s, capped, remaining) ==
    /\ keys' = [keys EXCEPT ![s] = NewKey(a, capped, remaining)]
    /\ cap' = [cap EXCEPT ![s] = remaining]
    /\ UNCHANGED <<accounts, receipts, replicas, credited>>

\* put_key: only under a secret hash that is not taken.
PutKeyTx(a, s, capped, remaining) ==
    /\ keys[s] = Absent
    /\ keys' = [keys EXCEPT ![s] = NewKey(a, capped, remaining)]
    /\ cap' = [cap EXCEPT ![s] = remaining]
    /\ UNCHANGED <<accounts, receipts, replicas, credited>>

\* revoke: the key, if it belongs to the account.
RevokeTx(a, s) ==
    /\ keys[s] # Absent
    /\ keys[s].account_id = a
    /\ keys' = [keys EXCEPT ![s].revoked = TRUE]
    /\ UNCHANGED <<accounts, receipts, replicas, history>>

DebitTxUnchecked(s, a, capped, cost) ==
    /\ accounts[a] # Absent
    /\ keys[s] # Absent /\ ~keys[s].revoked /\ keys[s].capped = capped
    /\ accounts' = [accounts EXCEPT ![a] = @ - cost]
    /\ keys' = IF capped
                 THEN [keys EXCEPT ![s].cap_remaining = @ - cost]
                 ELSE keys
    /\ UNCHANGED <<receipts, replicas, history>>

DebitTxIgnoringRevoked(s, a, capped, cost) ==
    /\ accounts[a] # Absent /\ accounts[a] >= cost
    /\ keys[s] # Absent /\ keys[s].capped = capped
    /\ capped => keys[s].cap_remaining >= cost
    /\ accounts' = [accounts EXCEPT ![a] = @ - cost]
    /\ keys' = IF capped
                 THEN [keys EXCEPT ![s].cap_remaining = @ - cost]
                 ELSE [keys EXCEPT ![s].revoked = FALSE]
    /\ UNCHANGED <<receipts, replicas, history>>

\* Both updates of debit() in one transaction. The uncapped branch really
\* writes revoked = false; its condition makes that a no-op.
DebitTx(s, a, capped, cost) ==
    /\ accounts[a] # Absent /\ accounts[a] >= cost
    /\ keys[s] # Absent /\ ~keys[s].revoked /\ keys[s].capped = capped
    /\ capped => keys[s].cap_remaining >= cost
    /\ accounts' = [accounts EXCEPT ![a] = @ - cost]
    /\ keys' = IF capped
                 THEN [keys EXCEPT ![s].cap_remaining = @ - cost]
                 ELSE [keys EXCEPT ![s].revoked = FALSE]
    /\ UNCHANGED <<receipts, replicas, history>>

RefundTxForgettingCap(s, a, capped, cost) ==
    /\ accounts[a] # Absent
    /\ accounts' = [accounts EXCEPT ![a] = @ + cost]
    /\ UNCHANGED <<keys, receipts, replicas, history>>

RefundTxForgettingAccount(s, a, capped, cost) ==
    /\ accounts[a] # Absent
    /\ capped => keys[s] # Absent /\ keys[s].capped
    /\ keys' = IF capped
                 THEN [keys EXCEPT ![s].cap_remaining = @ + cost]
                 ELSE keys
    /\ UNCHANGED <<accounts, receipts, replicas, history>>

\* refund(): the account, and the key's cap when the receipt says capped.
RefundTx(s, a, capped, cost) ==
    /\ accounts[a] # Absent
    /\ capped => keys[s] # Absent /\ keys[s].capped
    /\ accounts' = [accounts EXCEPT ![a] = @ + cost]
    /\ keys' = IF capped
                 THEN [keys EXCEPT ![s].cap_remaining = @ + cost]
                 ELSE keys
    /\ UNCHANGED <<receipts, replicas, history>>

CreditTxAgain(a, invokes, n) ==
    /\ accounts[a] # Absent
    /\ accounts' = [accounts EXCEPT ![a] = @ + invokes]
    /\ receipts' = [receipts EXCEPT ![n] = [account_id |-> a, invokes |-> invokes]]
    /\ credited' = [credited EXCEPT ![a] = @ + invokes]
    /\ UNCHANGED <<keys, replicas, cap>>

\* credit(): the account exists and the nonce has no receipt yet.
CreditTx(a, invokes, n) ==
    /\ accounts[a] # Absent
    /\ receipts[n] = Absent
    /\ accounts' = [accounts EXCEPT ![a] = @ + invokes]
    /\ receipts' = [receipts EXCEPT ![n] = [account_id |-> a, invokes |-> invokes]]
    /\ credited' = [credited EXCEPT ![a] = @ + invokes]
    /\ UNCHANGED <<keys, replicas, cap>>
=============================================================================
