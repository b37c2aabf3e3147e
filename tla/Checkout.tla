------------------------------ MODULE Checkout ------------------------------
(***************************************************************************)
(* `account create` and `account credit` of the command line, against the  *)
(* API tasks of CreditPurchase. A checkout asks for a quote, decides with  *)
(* its arguments and perhaps its user whether to sign, signs an            *)
(* authorization of exactly the quoted terms under a fresh nonce and sends *)
(* the request again with it. Other clients, and a repetition of the same  *)
(* header, are the remaining Buyers.                                       *)
(*                                                                         *)
(* Quote and payment may be answered by tasks with different prices.       *)
(***************************************************************************)
EXTENDS CreditPurchase

CONSTANTS
    Sessions,       \* runs of the command line; the paid request of one is a Buyer
    MaxUsdc         \* values of --max-usdc

ASSUME CheckoutAssumption == Sessions \subseteq Buyers /\ MaxUsdc \subseteq Nat

VARIABLE cli        \* session -> where it is

checkoutVars == <<purchaseVars, cli>>

CliResults == {"None", "Ok", "Refused", "Cancelled", "Failed"}

\* quote: the challenge. max_usdc: the price cap, Absent without one.
Session == [pc: {"idle", "ask", "sign", "sent", "done"},
            account: Accounts \cup {Absent}, invokes: InvokeCounts \cup {Absent},
            max_usdc: MaxUsdc \cup {Absent},
            quote: ExactAuthorization \cup {Absent},
            nonce: Nonces \cup {Absent}, result: CliResults]

CheckoutTypeOK ==
    /\ PayTypeOK
    /\ cli \in [Sessions -> Session]

CheckoutInit ==
    /\ PayInit
    /\ cli = [c \in Sessions |->
                [pc |-> "idle", account |-> Absent, invokes |-> Absent,
                 max_usdc |-> Absent, quote |-> Absent, nonce |-> Absent,
                 result |-> "None"]]

CliStop(c, result) == cli' = [cli EXCEPT ![c].pc = "done", ![c].result = result]

-----------------------------------------------------------------------------
\* create(): POST /accounts. The answer, with the only copy of the secret, may be
\* lost after the account was opened.
CliCreate(c) ==
    /\ cli[c].pc = "idle" /\ cli[c].account = Absent
    /\ \E a \in Accounts :
        /\ CreateTx(a, FirstSecret[a])
        /\ cli' = [cli EXCEPT ![c].account = a] \/ CliStop(c, "Failed")
    /\ UNCHANGED payVars

PriceDecisionYesFirst(amount, max_usdc, yes, interactive) ==
    CASE yes -> "sign"
      [] ~yes /\ max_usdc # Absent -> IF amount > max_usdc THEN "done" ELSE "sign"
      [] ~yes /\ max_usdc = Absent /\ interactive -> "ask"
      [] OTHER -> "done"

\* price_decision: a price cap always applies.
PriceDecision(amount, max_usdc, yes, interactive) ==
    CASE max_usdc # Absent -> IF amount > max_usdc THEN "done" ELSE "sign"
      [] max_usdc = Absent /\ yes -> "sign"
      [] max_usdc = Absent /\ ~yes /\ interactive -> "ask"
      [] OTHER -> "done"

\* into_response: the 402 of an API task, the challenge of X402Settler.
AcceptBody(invokes, price) ==
    LET challenge == Requirements(invokes, price) IN
    [maxAmountRequired |-> challenge.amount, asset |-> challenge.asset,
     payTo |-> challenge.pay_to]

\* parse_challenge: the terms as the command line reads them. It signs for the
\* asset and the payee the API names.
ParseChallenge(accept) ==
    [value |-> accept.maxAmountRequired, asset |-> accept.asset, pay_to |-> accept.payTo]

\* credit(), up to the decision: POST without a payment, which an API task of some
\* price answers with its challenge. Zero invokes are refused before it; an error
\* status, no answer, a challenge that does not parse or no private key end the
\* session. Without a payment the API never answers with success.
CliQuote(c) ==
    /\ cli[c].pc = "idle"
    /\ \E a \in Accounts, invokes \in InvokeCounts, price \in Prices,
          max_usdc \in MaxUsdc \cup {Absent}, yes, interactive \in BOOLEAN :
        /\ cli[c].account \in {Absent, a}
        /\ \/ invokes = 0 /\ CliStop(c, "Refused")
           \/ CliStop(c, "Failed")
           \/ /\ Priced(invokes, price)
              /\ LET quote == ParseChallenge(AcceptBody(invokes, price))
                     decision == PriceDecision(quote.value, max_usdc, yes, interactive) IN
                 IF decision = "done"
                   THEN CliStop(c, "Refused")
                   ELSE cli' = [cli EXCEPT ![c].pc = decision, ![c].account = a,
                                           ![c].invokes = invokes,
                                           ![c].max_usdc = max_usdc,
                                           ![c].quote = quote]
    /\ UNCHANGED purchaseVars

\* confirm(): the user answers the prompt.
CliConfirm(c) ==
    /\ cli[c].pc = "ask"
    /\ cli' = [cli EXCEPT ![c].pc = "sign"] \/ CliStop(c, "Cancelled")
    /\ UNCHANGED purchaseVars

\* payment_signature: the authorization has the terms of the challenge, and the
\* signature covers them and the nonce.
PaymentSignature(quote) ==
    [value |-> quote.value, asset |-> quote.asset, pay_to |-> quote.pay_to]

\* Sign under a fresh nonce and send the request again; a key that does not
\* parse ends the session. The signed request may get lost on its way.
CliPay(c) ==
    /\ cli[c].pc = "sign"
    /\ \/ CliStop(c, "Failed") /\ UNCHANGED payVars
       \/ \E n \in Nonces, price \in Prices :
            LET auth == PaymentSignature(cli[c].quote) IN
            /\ auths[n] = Absent /\ n \notin expired
            /\ auths' = [auths EXCEPT ![n] = auth]
            /\ \/ /\ CreditRequest(c, cli[c].account, cli[c].invokes, price, n, auth)
                  /\ cli' = [cli EXCEPT ![c].pc = "sent", ![c].nonce = n]
               \/ /\ cli' = [cli EXCEPT ![c].pc = "done", ![c].nonce = n,
                                        ![c].result = "Failed"]
                  /\ UNCHANGED pay
            /\ UNCHANGED <<settled, expired, inflight>>
    /\ UNCHANGED storeVars

\* The answer is read, or the client's 60 seconds were over before it came: nothing
\* depends on when the session notices.
CliAnswer(c) ==
    /\ cli[c].pc = "sent" /\ pay[c].pc \in {"done", "gone"}
    /\ \/ CliStop(c, "Failed")
       \/ pay[c].result = "Ok" /\ CliStop(c, "Ok")
    /\ UNCHANGED purchaseVars

CliStep(c) ==
    CliCreate(c) \/ CliQuote(c) \/ CliConfirm(c) \/ CliPay(c) \/ CliAnswer(c)

CheckoutNext ==
    \/ \E c \in Sessions : CliStep(c)
    \/ /\ \/ \E b \in Buyers \ Sessions : CreditStart(b)
          \/ \E b \in Buyers : CreditStep(b) \/ PayDrop(b) \/ LateCredit(b)
          \/ \E n \in Nonces : Expire(n)
          \/ PayCreate \/ PayCatchUp
       /\ UNCHANGED cli

CheckoutSpec == CheckoutInit /\ [][CheckoutNext]_checkoutVars

\* An API task that is not killed keeps running its handlers.
FairCheckoutSpec ==
    CheckoutSpec /\ \A b \in Buyers : WF_checkoutVars(CreditStep(b) /\ UNCHANGED cli)

-----------------------------------------------------------------------------
(* Properties.                                                             *)

\* "A price cap always applies": what the chain takes for a checkout is what was
\* quoted to it and within --max-usdc, whichever task settles it and whoever
\* sends the header again; a session that says nothing was signed has signed
\* nothing; and one that prints a balance has its payment credited.
CheckoutKeepsItsWord ==
    \A c \in Sessions :
        LET n == cli[c].nonce IN
        /\ n # Absent =>
            /\ auths[n].value = cli[c].quote.value
            /\ cli[c].max_usdc # Absent => auths[n].value <= cli[c].max_usdc
        /\ cli[c].result \in {"Refused", "Cancelled"} => n = Absent
        /\ cli[c].result = "Ok" =>
            /\ n \in settled /\ receipts[n] # Absent
            /\ \E price \in Prices : receipts[n].invokes * price = cli[c].quote.value
=============================================================================
