--------------------------- MODULE CreditPurchase ---------------------------
(***************************************************************************)
(* Accounts::credit on the API tasks: buy invoke credits with an x402      *)
(* payment. The handler looks the payment nonce up, has the facilitator    *)
(* settle the payment on chain, and then credits the account, retrying     *)
(* storage errors up to CREDIT_ATTEMPTS times.                             *)
(*                                                                         *)
(* A payment is an authorization, identified by its nonce. The same        *)
(* payment header may be sent by several requests, for several accounts    *)
(* and numbers of invokes, at the same time or again later. API tasks may  *)
(* run with different prices while a new one is rolled out. The            *)
(* facilitator and the chain behind it are external.                       *)
(***************************************************************************)
EXTENDS AccountStore, FiniteSetsExt

CONSTANTS
    Buyers,             \* credit requests
    InvokeCounts,       \* numbers of invokes asked for
    Prices,             \* usdc_per_invoke of the API tasks
    Values,             \* amounts of atomic USDC that clients authorize
    Assets, USDC,       \* tokens, and the one the platform takes
    Payees, PAY_TO,     \* recipients, and the platform
    MAX_U64,            \* the largest u64
    CREDIT_ATTEMPTS     \* accounts.rs: attempts to credit a settled payment

ASSUME CreditPurchaseAssumption ==
    /\ IsFiniteSet(Buyers) /\ IsFiniteSet(Nonces)
    /\ InvokeCounts \subseteq 0..MAX_U64 /\ Prices \subseteq 1..MAX_U64
    /\ Values \subseteq 0..MAX_U64 /\ MAX_U64 \in Nat
    /\ Cardinality(Secrets) >= Cardinality(Accounts) /\ IsFiniteSet(Accounts)
    /\ USDC \in Assets /\ PAY_TO \in Payees
    /\ CREDIT_ATTEMPTS \in Nat \ {0}

VARIABLES
    pay,        \* request -> where its handler is
    auths,      \* nonce -> the authorization signed with it
    settled,    \* payments the chain has executed (external)
    expired,    \* payments whose validBefore has passed
    inflight    \* requests with a credit write that nobody waits for

payVars == <<pay, auths, settled, expired, inflight>>
purchaseVars == <<storeVars, payVars>>

PayPC == {"idle", "lookup", "lookup_balance", "settle", "credit", "applied",
          "check", "replay", "done", "gone"}
PayResults == {"None", "Ok", "BadRequest", "PaymentChallenge", "Storage", "NotFound"}

\* The nonce is the key of auths, validBefore is whether it is in expired.
ExactAuthorization == [value: 0..MAX_U64, asset: Assets, pay_to: Payees]

ASSUME NoPaymentAssumption == Absent \notin Nonces \cup ExactAuthorization

\* mine: this request's own settle call succeeded. known: history, whether the
\* account existed when the request arrived.
Purchase == [pc: PayPC, account: Accounts \cup {Absent},
             nonce: Nonces \cup {Absent}, invokes: InvokeCounts \cup {Absent},
             attempt: 0..CREDIT_ATTEMPTS, result: PayResults, mine: BOOLEAN,
             known: BOOLEAN]

PayTypeOK ==
    /\ StoreTypeOK
    /\ pay \in [Buyers -> Purchase]
    /\ auths \in [Nonces -> ExactAuthorization \cup {Absent}]
    /\ settled \subseteq Nonces
    /\ expired \subseteq Nonces
    /\ inflight \subseteq Buyers

PayInit ==
    /\ StoreInit
    /\ pay = [b \in Buyers |->
                [pc |-> "idle", account |-> Absent, nonce |-> Absent,
                 invokes |-> Absent, attempt |-> 0, result |-> "None", mine |-> FALSE,
                 known |-> FALSE]]
    /\ auths = [n \in Nonces |-> Absent]
    /\ settled = {}
    /\ expired = {}
    /\ inflight = {}

-----------------------------------------------------------------------------
PayGoTo(b, pc) == pay' = [pay EXCEPT ![b].pc = pc]

PayAnswer(b, result) ==
    pay' = [pay EXCEPT ![b].pc = "done", ![b].result = result]

PayLocal == UNCHANGED <<storeVars, auths, settled, expired, inflight>>

DueUsdcWrapping(invokes, price) == (invokes * price) % (MAX_U64 + 1)

\* due_usdc: checked_mul; Absent for an overflow.
DueUsdc(invokes, price) ==
    IF invokes * price > MAX_U64 THEN Absent ELSE invokes * price

\* X402Settler::requirements
Requirements(invokes, price) ==
    [amount |-> DueUsdc(invokes, price), asset |-> USDC, pay_to |-> PAY_TO]

\* check_exact
CheckExact(n, auth, expected) ==
    /\ n \notin expired
    /\ auth.asset = expected.asset
    /\ auth.pay_to = expected.pay_to
    /\ auth.value = expected.amount

\* HttpFacilitator::settle_exact: the chain executes an authorization once.
SettleExact(n) ==
    /\ n \notin settled
    /\ settled' = settled \cup {n}

\* A request for these invokes has a price: some are asked for, and what is due
\* fits a u64.
Priced(invokes, price) == invokes # 0 /\ DueUsdc(invokes, price) # Absent

\* challenge: no payment header is answered with the price.
NoPayment(b, invokes, price) ==
    PayAnswer(b, IF Priced(invokes, price) THEN "PaymentChallenge" ELSE "BadRequest")

\* parse_payment fails (base64, JSON, a field, the scheme), or the nonce is empty.
MalformedPayment(b) == PayAnswer(b, "BadRequest")

\* credit() of the task with this price, up to its first await: payment_nonce
\* checks the payment against the price before anything is read.
CreditRequest(b, a, invokes, price, n, auth) ==
    IF Priced(invokes, price) /\ CheckExact(n, auth, Requirements(invokes, price))
      THEN pay' = [pay EXCEPT ![b].pc = "lookup", ![b].account = a, ![b].nonce = n,
                              ![b].invokes = invokes,
                              ![b].known = accounts[a] # Absent]
      ELSE PayAnswer(b, "BadRequest")

\* A client sends any request: without a payment, with a malformed one, with one
\* it signs for it or with one that was signed before.
CreditStart(b) ==
    /\ pay[b].pc = "idle"
    /\ \E invokes \in InvokeCounts, price \in Prices :
        \/ NoPayment(b, invokes, price) /\ UNCHANGED auths
        \/ MalformedPayment(b) /\ UNCHANGED auths
        \/ \E a \in Accounts, n \in Nonces, auth \in ExactAuthorization :
            /\ auth.value \in Values /\ auths[n] \in {Absent, auth}
            /\ auths' = [auths EXCEPT ![n] = auth]
            /\ CreditRequest(b, a, invokes, price, n, auth)
    /\ UNCHANGED <<storeVars, settled, expired, inflight>>

\* credited_balance(): is there a receipt for the nonce? Its account is not
\* looked at.
CreditLookup(b) ==
    /\ pay[b].pc = "lookup"
    /\ \/ PayAnswer(b, "Storage")
       \/ \E row \in ReadReceipt(pay[b].nonce) :
            PayGoTo(b, IF row = Absent THEN "settle" ELSE "lookup_balance")
    /\ PayLocal

\* settle(): the payment is checked again, where only its expiry can have changed
\* (the task has one price), then the facilitator executes it on chain at most
\* once. Its answer, or the call, may be lost.
Settle(b) ==
    /\ pay[b].pc = "settle"
    /\ \/ /\ pay[b].nonce \in expired
          /\ PayAnswer(b, "BadRequest")
          /\ UNCHANGED settled
       \/ /\ pay[b].nonce \notin expired
          /\ SettleExact(pay[b].nonce)
          /\ \/ pay' = [pay EXCEPT ![b].pc = "credit", ![b].attempt = 1,
                                   ![b].mine = TRUE]
             \/ PayAnswer(b, "Storage")
       \/ /\ PayAnswer(b, "Storage")
          /\ UNCHANGED settled
    /\ UNCHANGED <<storeVars, auths, expired, inflight>>

RetryWithoutCounting(b) ==
    IF pay[b].attempt < CREDIT_ATTEMPTS
      THEN pay' = [pay EXCEPT ![b].pc = "credit"]
      ELSE PayAnswer(b, "Storage")

RetryForever(b) ==
    pay' = [pay EXCEPT ![b].pc = "credit", ![b].attempt = @ + 1]

\* credit_settled(): a storage error is retried until the attempts are used up.
Retry(b) ==
    IF pay[b].attempt < CREDIT_ATTEMPTS
      THEN pay' = [pay EXCEPT ![b].pc = "credit", ![b].attempt = @ + 1]
      ELSE PayAnswer(b, "Storage")

CommitCreditOf(b) == CreditTx(pay[b].account, pay[b].invokes, pay[b].nonce)

CreditWriteAssumed(b) ==
    /\ pay[b].pc = "credit"
    /\ PayGoTo(b, "applied")
    /\ CommitCreditOf(b) \/ UNCHANGED storeVars
    /\ UNCHANGED <<auths, settled, expired, inflight>>

\* store.credit(): the transaction commits; is cancelled (no such account, the
\* nonce was credited, or a conflict with another write of the account); or its
\* answer is lost and the write is still on its way when the next is sent.
CreditWrite(b) ==
    /\ pay[b].pc = "credit"
    /\ \/ PayGoTo(b, "applied") /\ CommitCreditOf(b) /\ UNCHANGED inflight
       \/ PayGoTo(b, "check") /\ UNCHANGED <<storeVars, inflight>>
       \/ Retry(b) /\ inflight' = inflight \cup {b} /\ UNCHANGED storeVars
    /\ UNCHANGED <<auths, settled, expired>>

CreditCheckAssumed(b) ==
    /\ pay[b].pc = "check"
    /\ PayGoTo(b, "replay")
    /\ PayLocal

\* The cancelled transaction is a replay if the nonce has a receipt. Otherwise
\* it is reported as an unknown account, which is not retried.
CreditCheck(b) ==
    /\ pay[b].pc = "check"
    /\ \/ Retry(b)
       \/ \E row \in ReadReceipt(pay[b].nonce) :
            IF row = Absent THEN PayAnswer(b, "NotFound") ELSE PayGoTo(b, "replay")
    /\ PayLocal

\* balance_of(), after a credit, a replay or a lookup hit. Inside store.credit a
\* storage error is retried with the rest of the attempt.
ReadBalance(b) ==
    /\ pay[b].pc \in {"applied", "replay", "lookup_balance"}
    /\ \/ IF pay[b].pc = "lookup_balance" THEN PayAnswer(b, "Storage") ELSE Retry(b)
       \/ \E row \in ReadAccount(pay[b].account) :
            PayAnswer(b, IF row = Absent THEN "NotFound" ELSE "Ok")
    /\ PayLocal

CreditStep(b) ==
    \/ CreditLookup(b) \/ Settle(b) \/ CreditWrite(b) \/ CreditCheck(b)
    \/ ReadBalance(b)

PayStep(b) == CreditStart(b) \/ CreditStep(b)

\* The request future is dropped. A call already sent may still be executed.
PayDrop(b) ==
    /\ pay[b].pc \notin {"idle", "done", "gone"}
    /\ PayGoTo(b, "gone")
    /\ \/ UNCHANGED <<settled, inflight>>
       \/ /\ pay[b].pc = "settle"
          /\ pay[b].nonce \notin expired
          /\ SettleExact(pay[b].nonce)
          /\ UNCHANGED inflight
       \/ /\ pay[b].pc = "credit"
          /\ inflight' = inflight \cup {b}
          /\ UNCHANGED settled
    /\ UNCHANGED <<storeVars, auths, expired>>

\* A credit write nobody waits for commits, or turns out to be lost.
LateCredit(b) ==
    /\ b \in inflight
    /\ inflight' = inflight \ {b}
    /\ CommitCreditOf(b) \/ UNCHANGED storeVars
    /\ UNCHANGED <<pay, auths, settled, expired>>

Expire(n) ==
    /\ n \notin expired
    /\ expired' = expired \cup {n}
    /\ UNCHANGED <<storeVars, pay, auths, settled, inflight>>

\* An account's first secret is drawn at random: no other account has it, and
\* these handlers never look at it.
FirstSecret ==
    CHOOSE f \in [Accounts -> Secrets] : \A a, b \in Accounts : f[a] = f[b] => a = b

PayCreate ==
    /\ \E a \in Accounts : CreateTx(a, FirstSecret[a])
    /\ UNCHANGED payVars

\* This handler reads no key.
PayCatchUp == (ReplicateAccount \/ ReplicateReceipt) /\ UNCHANGED payVars

PayNext ==
    \/ \E b \in Buyers : PayStep(b) \/ PayDrop(b) \/ LateCredit(b)
    \/ \E n \in Nonces : Expire(n)
    \/ PayCreate \/ PayCatchUp

PaySpec == PayInit /\ [][PayNext]_purchaseVars

\* An API task that is not killed keeps running its handlers.
FairPaySpec == PaySpec /\ \A b \in Buyers : WF_purchaseVars(PayStep(b))

-----------------------------------------------------------------------------
(* Properties.                                                             *)

ReceiptsOf(a) == {n \in Nonces : receipts[n] # Absent /\ receipts[n].account_id = a}

\* The credits of an account are exactly what settled payments paid for it:
\* behind every receipt is a payment in USDC to the platform that the chain
\* executed, whose amount is, as a true product, the invokes times a price of the
\* platform; and it was added to one balance once, whatever was retried,
\* replayed or multiplied.
CreditsArePaidFor ==
    /\ \A n \in Nonces : receipts[n] # Absent =>
        /\ n \in settled
        /\ auths[n].asset = USDC /\ auths[n].pay_to = PAY_TO
        /\ \E price \in Prices : auths[n].value = receipts[n].invokes * price
    /\ \A a \in Accounts :
            credited[a] = MapThenSumSet(LAMBDA n : receipts[n].invokes, ReceiptsOf(a))

\* A buyer who is told the new balance has bought: the payment was credited.
OkMeansCredited ==
    \A b \in Buyers :
        pay[b].result = "Ok" => receipts[pay[b].nonce] # Absent

\* No settled payment is forgotten silently: until it is credited, a request
\* that carries it (its payer's or one that repeats its header) is still crediting
\* it, was answered with an error or was dropped.
SettledAccountedFor ==
    \A n \in settled :
        receipts[n] = Absent =>
            \E b \in Buyers :
                /\ pay[b].nonce = n
                /\ \/ pay[b].pc \in {"credit", "check"}
                   \/ pay[b].pc = "done" /\ pay[b].result \in {"Storage", "NotFound"}
                   \/ pay[b].pc = "gone"

\* The retry loop ends: a request that is not dropped is answered.
BuyersAnswered ==
    \A b \in Buyers :
        (pay[b].pc # "idle") ~> (pay[b].pc \in {"done", "gone"})

\* "The payment has settled on-chain, so a transient store failure must not
\* drop the credit": once a request has settled a payment for an account that
\* exists, it gives up only after its attempts are used up.
TransientFailureKeepsCredit ==
    \A b \in Buyers :
        pay[b].mine /\ pay[b].known /\ pay[b].pc = "done"
            => \/ receipts[pay[b].nonce] # Absent
               \/ pay[b].attempt = CREDIT_ATTEMPTS

\* credited_balance answers for the account the payment was credited to.
OkMeansCreditedHere ==
    \A b \in Buyers :
        pay[b].result = "Ok" =>
            /\ receipts[pay[b].nonce] # Absent
            /\ receipts[pay[b].nonce].account_id = pay[b].account
=============================================================================
