----------------------------- MODULE PaidInvoke -----------------------------
(***************************************************************************)
(* PaidInvoke::execute on the enclave hosts: debit the invoke cost, load   *)
(* and run the function, refund when it failed before the guest.           *)
(*                                                                         *)
(* Every await of the handler is a step boundary. Requests of any number   *)
(* of hosts interleave with each other and with the API tasks, which       *)
(* create accounts, issue and revoke keys and credit payments. A request   *)
(* future may be dropped at any await (client disconnect, host crash),     *)
(* also while a write it sent is in flight.                                *)
(***************************************************************************)
EXTENDS AccountStore

CONSTANTS
    Requests,       \* invoke requests
    InvokeCost,     \* INVOKE_COST, credits debited per invoke; 0 = free
    SpendCaps,      \* spend caps a key may be issued with
    InvokeCounts    \* credit amounts a payment may buy

ASSUME PaidInvokeAssumption ==
    /\ IsFiniteSet(Requests)
    /\ InvokeCost \in Nat
    /\ SpendCaps \subseteq Nat
    /\ InvokeCounts \subseteq Nat \ {0}

VARIABLES
    req,        \* request -> where its handler is and what it has read
    charge,     \* history: what the ledger holds of a request's debit
    entered     \* history: whether the request's guest code was started

invokeVars == <<req, charge, entered>>
vars == <<storeVars, invokeVars>>

PC == {"idle", "read_key", "read_account", "debit", "reread_key",
       "reread_account", "load", "guest", "refund", "done", "gone"}

FailedBeforeGuestButCompile == {"NotFound", "ArtifactMissing", "HashMismatch",
                                "Domain", "Storage"}

\* AppError values for which the debit is returned (failed_before_guest).
FailedBeforeGuest == {"NotFound", "ArtifactMissing", "HashMismatch",
                      "Compile", "Domain", "Storage"}
\* What resolve, artifacts.get and the runner can report before the guest. An
\* instantiation that fails on a data segment is reported as a Trap, and one whose
\* error text contains "interrupt" (see Executor.MapWasmErr) as a Timeout.
LoadErrors == {"NotFound", "ArtifactMissing", "HashMismatch", "Compile", "Domain",
               "Storage", "PayloadTooLarge", "Invoke", "Trap", "Timeout"}
\* How a guest that was entered can end.
GuestOutcomes == {"Ok", "Trap", "Timeout", "Invoke", "PayloadTooLarge"}
Results == {"None", "Unauthorized", "InsufficientCredits"}
             \cup LoadErrors \cup GuestOutcomes

Request == [pc: PC, secret: Secrets \cup {Absent},
            key: KeyRecord \cup {Absent}, result: Results]

InvokeTypeOK ==
    /\ StoreTypeOK
    /\ req \in [Requests -> Request]
    /\ charge \in [Requests -> {"none", "held", "returned"}]
    /\ entered \in [Requests -> BOOLEAN]

Init ==
    /\ StoreInit
    /\ req = [r \in Requests |-> [pc |-> "idle", secret |-> Absent,
                                  key |-> Absent, result |-> "None"]]
    /\ charge = [r \in Requests |-> "none"]
    /\ entered = [r \in Requests |-> FALSE]

-----------------------------------------------------------------------------
GoTo(r, pc) == req' = [req EXCEPT ![r].pc = pc]

Answer(r, result) ==
    req' = [req EXCEPT ![r].pc = "done", ![r].result = result]

NoEffect == UNCHANGED <<storeVars, charge, entered>>

\* execute(): a cost of zero skips the bearer; a missing, blank or malformed
\* bearer is refused before any read.
Execute(r) ==
    /\ req[r].pc = "idle"
    /\ IF InvokeCost = 0
         THEN GoTo(r, "load")
         ELSE \/ Answer(r, "Unauthorized")
              \/ \E s \in Secrets :
                   req' = [req EXCEPT ![r].pc = "read_key", ![r].secret = s]
    /\ NoEffect

\* debit(): key_by_hash, before the write and again after a cancelled one.
DebitReadKey(r) ==
    /\ req[r].pc \in {"read_key", "reread_key"}
    /\ \/ Answer(r, "Storage")
       \/ \E row \in ReadKey(req[r].secret) :
            IF row = Absent \/ row.revoked
              THEN Answer(r, "Unauthorized")
              ELSE req' = [req EXCEPT
                     ![r].pc = IF @ = "read_key" THEN "read_account"
                                                 ELSE "reread_account",
                     ![r].key = row]
    /\ NoEffect

\* debit(): the account row, and the denial of a short balance or cap. On the
\* re-read no reason to refuse is itself a Storage error.
DebitReadAccount(r) ==
    /\ req[r].pc \in {"read_account", "reread_account"}
    /\ \/ Answer(r, "Storage")
       \/ \E balance \in ReadAccount(req[r].key.account_id) :
            /\ balance # Absent
            /\ IF Denial(balance, req[r].key, InvokeCost)
                 THEN Answer(r, "InsufficientCredits")
                 ELSE IF req[r].pc = "read_account"
                        THEN GoTo(r, "debit")
                        ELSE Answer(r, "Storage")
    /\ NoEffect

\* The debit write takes effect.
CommitDebit(r) ==
    /\ DebitTx(req[r].secret, req[r].key.account_id, req[r].key.capped,
               InvokeCost)
    /\ charge' = [charge EXCEPT ![r] = "held"]
    /\ UNCHANGED entered

DebitLostAsCancelled(r) ==
    /\ req[r].pc = "debit"
    /\ \/ GoTo(r, "load") /\ CommitDebit(r)
       \/ GoTo(r, "reread_key") /\ NoEffect
       \/ GoTo(r, "reread_key") /\ CommitDebit(r)

\* debit(): the transaction commits; is cancelled (a condition failed, or it
\* conflicted with another write of the rows); or its answer is lost, after or
\* without taking effect.
Debit(r) ==
    /\ req[r].pc = "debit"
    /\ \/ GoTo(r, "load") /\ CommitDebit(r)
       \/ GoTo(r, "reread_key") /\ NoEffect
       \/ Answer(r, "Storage") /\ CommitDebit(r)
       \/ Answer(r, "Storage") /\ NoEffect

FinishRefundingAll(r, err) ==
    IF err # "Ok" /\ InvokeCost > 0
      THEN req' = [req EXCEPT ![r].pc = "refund", ![r].result = err]
      ELSE Answer(r, err)

\* The end of invoke.execute: an error that failed_before_guest names leads to
\* the refund, whatever really happened.
Finish(r, result) ==
    IF result \in FailedBeforeGuest /\ InvokeCost > 0
      THEN req' = [req EXCEPT ![r].pc = "refund", ![r].result = result]
      ELSE Answer(r, result)

\* InvokeFunction::execute up to the guest: resolve, fetch, compile and
\* instantiate fail ...
LoadFails(r) ==
    /\ req[r].pc = "load"
    /\ \E err \in LoadErrors : Finish(r, err)
    /\ NoEffect

\* ... or the guest is entered. It runs on a blocking thread, which goes on when
\* the request is dropped.
EnterGuest(r) ==
    /\ req[r].pc = "load"
    /\ GoTo(r, "guest")
    /\ entered' = [entered EXCEPT ![r] = TRUE]
    /\ UNCHANGED <<storeVars, charge>>

GuestEnds(r) ==
    /\ req[r].pc = "guest"
    /\ \E result \in GuestOutcomes : Finish(r, result)
    /\ NoEffect

CommitRefund(r) ==
    /\ RefundTx(req[r].secret, req[r].key.account_id, req[r].key.capped,
                InvokeCost)
    /\ charge' = [charge EXCEPT ![r] = "returned"]
    /\ UNCHANGED entered

\* refund(): not retried; a failed refund answers Storage.
Refund(r) ==
    /\ req[r].pc = "refund"
    /\ \/ GoTo(r, "done") /\ CommitRefund(r)
       \/ Answer(r, "Storage") /\ CommitRefund(r)
       \/ Answer(r, "Storage") /\ NoEffect

\* The request future is dropped. A write already sent may still commit.
Drop(r) ==
    /\ req[r].pc \notin {"idle", "done", "gone"}
    /\ GoTo(r, "gone")
    /\ \/ NoEffect
       \/ req[r].pc = "debit" /\ CommitDebit(r)
       \/ req[r].pc = "refund" /\ CommitRefund(r)

HostStep(r) ==
    \/ Execute(r) \/ DebitReadKey(r) \/ DebitReadAccount(r) \/ Debit(r)
    \/ LoadFails(r) \/ EnterGuest(r) \/ GuestEnds(r) \/ Refund(r)

-----------------------------------------------------------------------------
(* What the API tasks do to the tables, one write at a time, and the       *)
(* replicas catching up.                                                   *)

ApiCreate ==
    /\ \E a \in Accounts, s \in Secrets : CreateTx(a, s)
    /\ UNCHANGED invokeVars
ApiIssueKey ==
    /\ \E a \in Accounts, s \in Secrets :
        /\ accounts[a] # Absent
        /\ \/ PutKeyTx(a, s, FALSE, 0)
           \/ \E c \in SpendCaps : PutKeyTx(a, s, TRUE, c)
    /\ UNCHANGED invokeVars
ApiRevoke ==
    /\ \E a \in Accounts, s \in Secrets : RevokeTx(a, s)
    /\ UNCHANGED invokeVars
ApiCredit ==
    /\ \E a \in Accounts, n \in Nonces, i \in InvokeCounts : CreditTx(a, i, n)
    /\ UNCHANGED invokeVars
\* The hosts read no receipt.
CatchUp == (ReplicateAccount \/ ReplicateKey) /\ UNCHANGED invokeVars

Next ==
    \/ \E r \in Requests : HostStep(r) \/ Drop(r)
    \/ ApiCreate \/ ApiIssueKey \/ ApiRevoke \/ ApiCredit \/ CatchUp

Spec == Init /\ [][Next]_vars

-----------------------------------------------------------------------------
(* Properties.                                                             *)

HeldOn(a) == {r \in Requests : charge[r] = "held" /\ req[r].key.account_id = a}
HeldBy(s) == {r \in Requests : charge[r] = "held" /\ req[r].secret = s}

\* Concurrent debits, refunds and credits neither create nor lose credits: a
\* balance is what was credited to the account less one cost per charge that
\* still stands. In particular no account is overdrawn.
CreditsConserved ==
    \A a \in Accounts :
        IF accounts[a] = Absent
          THEN credited[a] = 0 /\ HeldOn(a) = {}
          ELSE accounts[a] + InvokeCost * Cardinality(HeldOn(a)) = credited[a]

\* A capped key never spends more than the cap it was issued with, and a
\* refund gives back to the cap exactly what the debit took.
CapConserved ==
    \A s \in Secrets :
        keys[s] # Absent /\ keys[s].capped =>
            keys[s].cap_remaining + InvokeCost * Cardinality(HeldBy(s)) = cap[s]

\* No guest code runs on credit: from the entry of the guest on, the request's
\* debit stands in the ledger and is never returned.
GuestIsPaid ==
    InvokeCost > 0 =>
        \A r \in Requests : entered[r] => charge[r] = "held"

\* The account that pays is the one the presented key belongs to, although the
\* key row was read from a replica some steps before the debit.
KeyHolderPays ==
    \A r \in Requests :
        charge[r] # "none" =>
            /\ keys[req[r].secret] # Absent
            /\ keys[req[r].secret].account_id = req[r].key.account_id

\* A caller told that the invoke was not admitted (bad key, short balance) was
\* not charged, also when the answer comes from the re-read after a cancelled
\* transaction.
RefusedNotCharged ==
    \A r \in Requests :
        req[r].pc = "done" /\ req[r].result \in {"Unauthorized", "InsufficientCredits"}
            => charge[r] = "none"

\* A charge that stands although the guest never ran is always one of: a
\* Storage answer (lost debit or refund answer), a PayloadTooLarge, Invoke, Trap
\* or Timeout error of the runner, or a dropped request. Every other load failure
\* was refunded.
UnearnedChargeExplained ==
    \A r \in Requests :
        charge[r] = "held" /\ ~entered[r] /\ req[r].pc = "done"
            => req[r].result \in
                {"Storage", "PayloadTooLarge", "Invoke", "Trap", "Timeout"}

\* What the port documents: cost is added back after a failure before the
\* guest runs. Storage answers, where the refund itself failed, aside.
PreGuestFailureRefunded ==
    \A r \in Requests :
        req[r].pc = "done" /\ ~entered[r] /\ req[r].result # "Storage"
            => charge[r] # "held"

\* Revocation takes effect at once and for good: no debit with a revoked key
\* commits, whatever the host read before, and no write brings a key back.
RevocationIsFinal ==
    [][\A s \in Secrets :
        keys[s] # Absent /\ keys[s].revoked =>
            /\ keys'[s].revoked
            /\ HeldBy(s)' \subseteq HeldBy(s)]_vars

-----------------------------------------------------------------------------
(* The inductive invariant behind the properties above.                    *)

\* row, read from a table or a replica, agrees with the key table on the
\* fields no write ever changes.
Agrees(row, s) ==
    /\ keys[s] # Absent
    /\ row.account_id = keys[s].account_id
    /\ row.capped = keys[s].capped

ReplicaAgrees ==
    \A s \in Secrets : keysReplica[s] # Absent => Agrees(keysReplica[s], s)

KeyHasAccount ==
    \A s \in Secrets :
        keys[s] # Absent => accounts[keys[s].account_id] # Absent

\* A request that has read its key holds a row that agrees with the table.
RequestKeyAgrees ==
    \A r \in Requests :
        \/ req[r].pc \in {"read_account", "debit", "reread_account", "refund"}
        \/ req[r].pc \in {"load", "guest"} /\ InvokeCost > 0
        \/ charge[r] # "none"
        => /\ req[r].secret \in Secrets
           /\ req[r].key \in KeyRecord
           /\ Agrees(req[r].key, req[r].secret)

RequestHasBearer ==
    \A r \in Requests :
        req[r].pc \in {"read_key", "reread_key"} => req[r].secret \in Secrets

\* What the ledger holds of a request at each point of its handler.
ChargeFollowsPC ==
    \A r \in Requests :
        /\ req[r].pc \in {"idle", "read_key", "read_account", "debit",
                          "reread_key", "reread_account"}
             => charge[r] = "none" /\ ~entered[r]
        /\ req[r].pc \in {"read_key", "read_account", "debit",
                          "reread_key", "reread_account"}
             => InvokeCost > 0
        /\ req[r].pc = "load" =>
             charge[r] = (IF InvokeCost > 0 THEN "held" ELSE "none") /\ ~entered[r]
        /\ req[r].pc = "guest" => entered[r]
        /\ req[r].pc = "refund" =>
             /\ charge[r] = "held" /\ ~entered[r]
             /\ InvokeCost > 0
             /\ req[r].result \in FailedBeforeGuest
        /\ charge[r] # "none" => InvokeCost > 0
        /\ entered[r] => charge[r] = (IF InvokeCost > 0 THEN "held" ELSE "none")

\* Nothing is lost or created, no guest runs unpaid, and the rows a request
\* acts on still agree with the table although they were read earlier.
LedgerInv ==
    /\ InvokeTypeOK
    /\ ReplicaAgrees
    /\ KeyHasAccount
    /\ RequestHasBearer
    /\ RequestKeyAgrees
    /\ ChargeFollowsPC
    /\ CreditsConserved
    /\ CapConserved
    /\ RefusedNotCharged
    /\ UnearnedChargeExplained

-----------------------------------------------------------------------------
(* The ledger as an escrow: the balance is the accounts table, deposits    *)
(* are what credit() added, a cost is used once the guest was entered.     *)

escrowState == [r \in Requests |-> IF entered[r] THEN "used" ELSE charge[r]]
escrowPayer == [r \in Requests |->
                  IF charge[r] = "none" THEN Absent ELSE req[r].key.account_id]

Escrow == INSTANCE CreditEscrow
            WITH balance <- accounts, deposited <- credited,
                 escrow <- escrowState, payer <- escrowPayer

\* Whatever the hosts read, retry, lose or drop, the ledger behaves as the
\* escrow: cost taken before the guest, then used or returned, once.
LedgerIsEscrow == Escrow!EscrowSpec
=============================================================================
