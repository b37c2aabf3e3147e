--------------------------- MODULE CheckoutProofs ---------------------------
(***************************************************************************)
(* Proofs about CreditPurchase and Checkout for every set of accounts,     *)
(* payments, prices, requests and sessions of the command line: the        *)
(* inductive invariant CheckoutInv and the safety properties that follow   *)
(* from it.                                                                *)
(***************************************************************************)
EXTENDS Checkout, CreditSums

USE AbsentAssumption, CreditPurchaseAssumption, NoPaymentAssumption, CheckoutAssumption

-----------------------------------------------------------------------------
(* The inductive invariant.                                                *)

\* The payment n is signed, in USDC to the platform, over the price of these
\* invokes at some task of the platform.
Backed(n, invokes) ==
    /\ auths[n] # Absent
    /\ auths[n].asset = USDC /\ auths[n].pay_to = PAY_TO
    /\ \E price \in Prices : auths[n].value = invokes * price

\* Behind every receipt is a backed payment the chain executed.
ReceiptsBacked ==
    \A n \in Nonces :
        receipts[n] # Absent => n \in settled /\ Backed(n, receipts[n].invokes)

\* The lagging copy never shows a receipt the table does not have.
ReplicaBehind ==
    \A n \in Nonces : receiptsReplica[n] # Absent => receipts[n] # Absent

\* What was ever added to an account is what its receipts add up to.
CreditedIsSum ==
    \A a \in Accounts : credited[a] = Invokes(receipts, ReceiptsOf(a))

\* A request past payment_nonce holds a payment that covers what it asks for;
\* one that credits, or has a write on its way, has seen it settled; one that
\* saw a receipt is right about it.
BuyerOK(b) ==
    LET p == pay[b] IN
    /\ p.pc = "idle" => p.nonce = Absent
    /\ p.nonce # Absent =>
        p.account \in Accounts /\ p.invokes \in InvokeCounts /\ Backed(p.nonce, p.invokes)
    /\ p.pc \notin {"idle", "done", "gone"} \/ p.result = "Ok" \/ b \in inflight
        => p.nonce # Absent
    /\ p.pc \in {"credit", "applied", "check", "replay"} \/ b \in inflight
        => p.nonce \in settled
    /\ p.pc \in {"applied", "replay", "lookup_balance"} \/ p.result = "Ok"
        => receipts[p.nonce] # Absent

\* A session signs what it was quoted, within its cap, and only once; until it
\* has signed, its paid request does not exist.
SessionOK(c) ==
    LET s == cli[c] IN
    /\ s.pc \in {"idle", "ask", "sign"} => s.nonce = Absent /\ pay[c].pc = "idle"
    /\ s.pc \in {"ask", "sign", "sent"} =>
        s.account \in Accounts /\ s.invokes \in InvokeCounts /\ s.quote # Absent
    /\ s.quote # Absent /\ s.max_usdc # Absent => s.quote.value <= s.max_usdc
    /\ s.nonce # Absent =>
        /\ s.quote # Absent /\ auths[s.nonce] # Absent
        /\ auths[s.nonce].value = s.quote.value
    /\ s.pc = "sent" => s.nonce # Absent /\ pay[c].nonce \in {s.nonce, Absent}
    /\ s.result \in {"Refused", "Cancelled"} => s.nonce = Absent /\ s.pc = "done"
    /\ s.result = "Ok" => s.nonce # Absent /\ receipts[s.nonce] # Absent

CheckoutInv ==
    /\ CheckoutTypeOK
    /\ ReceiptsBacked
    /\ ReplicaBehind
    /\ CreditedIsSum
    /\ SettledAccountedFor
    /\ \A b \in Buyers : BuyerOK(b)
    /\ \A c \in Sessions : SessionOK(c)

\* A request that keeps a settled payment on the books.
Carries(p) ==
    \/ p.pc \in {"credit", "check"}
    \/ p.pc = "done" /\ p.result \in {"Storage", "NotFound"}
    \/ p.pc = "gone"

\* Nothing signed, credited or settled is ever changed or taken back.
Grows ==
    /\ \A n \in Nonces : auths[n] # Absent => auths'[n] = auths[n]
    /\ \A n \in Nonces : receipts[n] # Absent => receipts'[n] = receipts[n]
    /\ settled \subseteq settled'

-----------------------------------------------------------------------------
(* What a step leaves alone stays right while the books only grow.         *)

\* A backed payment stays backed.
LEMMA BackedKept ==
    ASSUME Grows, NEW n \in Nonces, NEW i, Backed(n, i)
    PROVE  Backed(n, i)'
  BY Zenon DEF Grows, Backed

\* A request that does not move stays right.
LEMMA BuyerKept ==
    ASSUME CheckoutTypeOK, Grows, NEW b \in Buyers, BuyerOK(b), pay'[b] = pay[b],
           b \in inflight' => b \in inflight
    PROVE  BuyerOK(b)'
  <1>1. pay[b].nonce \in Nonces \cup {Absent}
    BY DEF CheckoutTypeOK, PayTypeOK, Purchase
  <1>2. PICK p : p = pay[b] /\ p = pay'[b]
    OBVIOUS
  <1>3. p.nonce # Absent /\ Backed(p.nonce, p.invokes) => Backed(p.nonce, p.invokes)'
    BY <1>1, <1>2, BackedKept
  <1>4. /\ p.nonce \in settled => p.nonce \in settled'
        /\ p.nonce # Absent /\ receipts[p.nonce] # Absent => receipts'[p.nonce] # Absent
    BY <1>1, <1>2 DEF Grows
  <1>5. QED
    BY <1>1, <1>2, <1>3, <1>4 DEF BuyerOK

\* A session that does not move, whose request moves on at most once it
\* exists, stays right.
LEMMA SessionKept ==
    ASSUME CheckoutTypeOK, Grows, NEW c \in Sessions, SessionOK(c), cli'[c] = cli[c],
           pay'[c].nonce = pay[c].nonce, pay[c].pc = "idle" => pay'[c].pc = "idle"
    PROVE  SessionOK(c)'
  <1>1. cli[c].nonce \in Nonces \cup {Absent}
    BY DEF CheckoutTypeOK, Session
  <1>2. QED
    BY <1>1 DEF SessionOK, Grows

\* A step that writes no receipt keeps the books.
LEMMA BooksKept ==
    ASSUME CheckoutTypeOK, ReceiptsBacked, CreditedIsSum, Grows,
           UNCHANGED <<receipts, credited>>
    PROVE  ReceiptsBacked' /\ CreditedIsSum'
  <1>1. ReceiptsBacked'
    <2> SUFFICES ASSUME NEW n \in Nonces, receipts[n] # Absent
                 PROVE  n \in settled' /\ Backed(n, receipts[n].invokes)'
      BY DEF ReceiptsBacked, Backed
    <2>1. n \in settled /\ Backed(n, receipts[n].invokes)
      BY DEF ReceiptsBacked
    <2>2. PICK i : i = receipts[n].invokes
      OBVIOUS
    <2>3. Backed(n, i)'
      BY <2>1, <2>2, BackedKept
    <2>4. QED
      BY <2>1, <2>2, <2>3 DEF Grows, Backed
  <1>2. CreditedIsSum'
    <2>1. \A a \in Accounts : ReceiptsOf(a)' = ReceiptsOf(a)
      BY DEF ReceiptsOf
    <2>2. QED
      BY <2>1 DEF CreditedIsSum
  <1>3. QED
    BY <1>1, <1>2

-----------------------------------------------------------------------------
(* A credit that commits.                                                  *)

\* The transaction of a request that has seen its payment settled adds one
\* backed receipt and its invokes to one balance.
LEMMA CommitKeeps ==
    ASSUME CheckoutInv, NEW b \in Buyers, pay[b].nonce # Absent,
           pay[b].nonce \in settled, CommitCreditOf(b), UNCHANGED <<auths, settled>>
    PROVE  /\ StoreTypeOK' /\ Grows /\ ReceiptsBacked' /\ ReplicaBehind' /\ CreditedIsSum'
           /\ receipts'[pay[b].nonce] # Absent
  <1>1. PICK n \in Nonces, a \in Accounts, i \in InvokeCounts :
            n = pay[b].nonce /\ a = pay[b].account /\ i = pay[b].invokes
    BY DEF CheckoutInv, BuyerOK, CheckoutTypeOK, PayTypeOK, Purchase
  <1>2. Backed(n, i) /\ n \in settled /\ i \in Nat
    BY <1>1 DEF CheckoutInv, BuyerOK
  <1>3. StoreTypeOK
    BY DEF CheckoutInv, CheckoutTypeOK, PayTypeOK
  <1> DEFINE r == [account_id |-> a, invokes |-> i]
  <1>4. r \in Receipt /\ r # Absent /\ r.account_id = a /\ r.invokes = i
    BY <1>2 DEF Receipt
  <1>5. /\ receipts[n] = Absent /\ receipts' = [receipts EXCEPT ![n] = r]
        /\ accounts[a] # Absent /\ accounts' = [accounts EXCEPT ![a] = @ + i]
        /\ credited' = [credited EXCEPT ![a] = @ + i]
        /\ UNCHANGED <<keys, accountsReplica, keysReplica, receiptsReplica, cap>>
    BY <1>1 DEF CommitCreditOf, CreditTx, replicas
  <1> HIDE DEF r
  <1>6. StoreTypeOK'
    <2>1. receipts' \in [Nonces -> Receipt \cup {Absent}]
      BY <1>3, <1>4, <1>5 DEF StoreTypeOK
    <2>2. accounts' \in [Accounts -> Nat \cup {Absent}] /\ credited' \in [Accounts -> Nat]
      <3>1. accounts[a] \in Nat /\ credited[a] \in Nat
        BY <1>3, <1>5 DEF StoreTypeOK
      <3>2. accounts[a] + i \in Nat /\ credited[a] + i \in Nat
        BY <3>1, <1>2
      <3>3. QED
        BY <3>2, <1>3, <1>5 DEF StoreTypeOK
    <2>3. QED
      BY <2>1, <2>2, <1>3, <1>5 DEF StoreTypeOK
  <1>7. /\ receipts'[n] = r
        /\ \A m \in Nonces : m # n => receipts'[m] = receipts[m]
    BY <1>3, <1>5 DEF StoreTypeOK
  <1>8. Grows
    BY <1>5, <1>7 DEF Grows
  <1>9. ReceiptsBacked'
    <2> SUFFICES ASSUME NEW m \in Nonces, receipts'[m] # Absent
                 PROVE  m \in settled /\ Backed(m, receipts[m].invokes)'
      BY DEF ReceiptsBacked, Backed
    <2>1. CASE m = n
      BY <2>1, <1>2, <1>4, <1>7 DEF Backed
    <2>2. CASE m # n
      <3>1. m \in settled /\ Backed(m, receipts[m].invokes)
        BY <2>2, <1>7 DEF CheckoutInv, ReceiptsBacked
      <3>2. QED
        BY <3>1, <2>2, <1>7 DEF Backed
    <2>3. QED
      BY <2>1, <2>2
  <1>10. ReplicaBehind'
    BY <1>4, <1>5, <1>7 DEF CheckoutInv, ReplicaBehind
  <1>11. CreditedIsSum'
    <2> SUFFICES ASSUME NEW d \in Accounts
                 PROVE  credited'[d] = Invokes(receipts', ReceiptsOf(d)')
      BY DEF CreditedIsSum
    <2>1. credited[d] = Invokes(receipts, ReceiptsOf(d))
      BY DEF CheckoutInv, CreditedIsSum
    <2>2. ReceiptsOf(d) \subseteq Nonces /\ n \notin ReceiptsOf(d)
      BY <1>5 DEF ReceiptsOf
    <2>3. IsFiniteSet(ReceiptsOf(d))
      BY <2>2, FS_Subset
    <2>4. \A m \in ReceiptsOf(d) :
            receipts[m].invokes = receipts'[m].invokes /\ receipts[m].invokes \in Nat
      BY <2>2, <1>3, <1>7 DEF ReceiptsOf, StoreTypeOK, Receipt
    <2>5. Invokes(receipts', ReceiptsOf(d)) = credited[d]
      BY <2>1, <2>3, <2>4, InvokesSame
    <2>6. CASE d = a
      <3>1. ReceiptsOf(d)' = ReceiptsOf(d) \cup {n}
        BY <2>6, <1>4, <1>7 DEF ReceiptsOf
      <3>2. \A m \in ReceiptsOf(d) \cup {n} : receipts'[m].invokes \in Nat
        BY <2>4, <1>2, <1>4, <1>7
      <3>3. Invokes(receipts', ReceiptsOf(d) \cup {n})
              = Invokes(receipts', ReceiptsOf(d)) + receipts'[n].invokes
        BY <3>2, <2>2, <2>3, InvokesAdd
      <3>4. credited'[d] = credited[d] + i
        BY <2>6, <1>3, <1>5 DEF StoreTypeOK
      <3>5. QED
        BY <3>1, <3>3, <3>4, <2>5, <1>4, <1>7
    <2>7. CASE d # a
      <3>1. ReceiptsOf(d)' = ReceiptsOf(d)
        BY <2>7, <1>4, <1>5, <1>7 DEF ReceiptsOf
      <3>2. credited'[d] = credited[d]
        BY <2>7, <1>3, <1>5 DEF StoreTypeOK
      <3>3. QED
        BY <3>1, <3>2, <2>5
    <2>8. QED
      BY <2>6, <2>7
  <1>12. QED
    BY <1>1, <1>4, <1>6, <1>7, <1>8, <1>9, <1>10, <1>11

-----------------------------------------------------------------------------
(* A step of one request.                                                  *)

\* A step of request b, after it was accepted, that moves its record to q,
\* may settle its payment and may commit its credit keeps the invariant,
\* provided that the request is right afterwards and still carries the
\* payment unless that is credited.
LEMMA PurchaseStep ==
    ASSUME CheckoutInv, NEW b \in Buyers, NEW q \in Purchase,
           pay[b].pc # "idle", q.pc # "idle", q.nonce = pay[b].nonce,
           pay' = [pay EXCEPT ![b] = q],
           StoreTypeOK' /\ ReceiptsBacked' /\ ReplicaBehind' /\ CreditedIsSum',
           Grows, UNCHANGED <<auths, expired, cli>>,
           settled' = settled \/ (settled' = settled \cup {q.nonce} /\ q.nonce \in Nonces),
           inflight' \subseteq inflight \cup {b},
           BuyerOK(b)',
           (Carries(pay[b]) \/ settled' # settled) /\ q.nonce \in Nonces
               => receipts'[q.nonce] # Absent \/ Carries(q)
    PROVE  CheckoutInv'
  <1>1. pay \in [Buyers -> Purchase] /\ cli \in [Sessions -> Session] /\ CheckoutTypeOK
    BY DEF CheckoutInv, CheckoutTypeOK, PayTypeOK
  <1>2. pay' \in [Buyers -> Purchase] /\ pay'[b] = q
        /\ \A d \in Buyers : d # b => pay'[d] = pay[d]
    BY <1>1
  <1>3. CheckoutTypeOK'
    <2>1. settled' \subseteq Nonces /\ inflight' \subseteq Buyers
      BY DEF CheckoutInv, CheckoutTypeOK, PayTypeOK
    <2>2. QED
      BY <1>2, <2>1 DEF CheckoutInv, CheckoutTypeOK, PayTypeOK
  <1>4. ASSUME NEW d \in Buyers
        PROVE  BuyerOK(d)'
    <2>1. CASE d = b
      BY <2>1
    <2>2. CASE d # b
      <3>1. pay'[d] = pay[d] /\ (d \in inflight' => d \in inflight) /\ BuyerOK(d)
        BY <1>2, <2>2 DEF CheckoutInv
      <3>2. QED
        BY <1>1, <3>1, BuyerKept
    <2>3. QED
      BY <2>1, <2>2
  <1>5. ASSUME NEW c \in Sessions
        PROVE  SessionOK(c)'
    <2>1. /\ pay'[c].nonce = pay[c].nonce /\ (pay[c].pc = "idle" => pay'[c].pc = "idle")
          /\ cli'[c] = cli[c] /\ SessionOK(c)
      BY <1>2 DEF CheckoutInv
    <2>2. QED
      BY <1>1, <2>1, SessionKept
  <1>6. SettledAccountedFor'
    <2> SUFFICES ASSUME NEW n \in settled', receipts'[n] = Absent
                 PROVE  \E d \in Buyers : pay'[d].nonce = n /\ Carries(pay'[d])
      BY DEF SettledAccountedFor, Carries
    <2>1. n \in Nonces
      BY <1>3 DEF CheckoutTypeOK, PayTypeOK
    <2>2. CASE n \in settled
      <3>1. receipts[n] = Absent
        BY <2>1 DEF Grows
      <3>2. PICK d \in Buyers : pay[d].nonce = n /\ Carries(pay[d])
        BY <3>1, <2>2, Zenon DEF CheckoutInv, SettledAccountedFor, Carries
      <3>3. QED
        BY <3>2, <1>2, <2>1
    <2>3. CASE n \notin settled
      BY <2>3, <2>1, <1>2
    <2>4. QED
      BY <2>2, <2>3
  <1>7. QED
    BY <1>3, <1>4, <1>5, <1>6 DEF CheckoutInv

\* What a step of a request leaves of everything but requests.
BooksKeep ==
    /\ StoreTypeOK' /\ ReceiptsBacked' /\ ReplicaBehind' /\ CreditedIsSum'
    /\ Grows
    /\ UNCHANGED <<auths, expired, cli>>

\* A step that writes nothing to the tables keeps the books.
LEMMA LocalBooks ==
    ASSUME CheckoutInv, UNCHANGED <<storeVars, auths, expired, cli>>,
           settled \subseteq settled'
    PROVE  BooksKeep
  <1>1. Grows
    BY DEF Grows, storeVars
  <1>2. ReceiptsBacked' /\ CreditedIsSum'
    BY <1>1, BooksKept DEF CheckoutInv, storeVars
  <1>3. StoreTypeOK' /\ ReplicaBehind'
    BY DEF CheckoutInv, CheckoutTypeOK, PayTypeOK, StoreTypeOK, ReplicaBehind, storeVars
  <1>4. QED
    BY <1>1, <1>2, <1>3 DEF BooksKeep

\* The same, with what a request must know in its new state spelled out.
LEMMA PurchaseMoves ==
    ASSUME CheckoutInv, NEW b \in Buyers, NEW q \in Purchase, BooksKeep,
           pay[b].pc \notin {"idle", "done", "gone"}, q.pc # "idle",
           q.nonce = pay[b].nonce, q.account = pay[b].account, q.invokes = pay[b].invokes,
           pay' = [pay EXCEPT ![b] = q],
           settled' = settled \/ settled' = settled \cup {q.nonce},
           inflight' \subseteq inflight \cup {b},
           q.pc \in {"credit", "applied", "check", "replay"} \/ b \in inflight'
               => q.nonce \in settled',
           q.pc \in {"applied", "replay", "lookup_balance"} \/ q.result = "Ok"
               => receipts'[q.nonce] # Absent,
           Carries(pay[b]) \/ settled' # settled
               => receipts'[q.nonce] # Absent \/ Carries(q)
    PROVE  CheckoutInv'
  <1>1. pay \in [Buyers -> Purchase] /\ BuyerOK(b)
    BY DEF CheckoutInv, CheckoutTypeOK, PayTypeOK
  <1>2. q.nonce # Absent /\ q.nonce \in Nonces
    BY <1>1 DEF BuyerOK, Purchase
  <1>3. /\ q.account \in Accounts /\ q.invokes \in InvokeCounts
        /\ Backed(q.nonce, q.invokes)
    BY <1>1, <1>2 DEF BuyerOK
  <1>4. Backed(q.nonce, q.invokes)'
    BY <1>2, <1>3, BackedKept DEF BooksKeep
  <1>5. pay'[b] = q
    BY <1>1
  <1>6. BuyerOK(b)'
    BY <1>2, <1>3, <1>4, <1>5 DEF BuyerOK
  <1>7. QED
    BY <1>2, <1>6, PurchaseStep DEF BooksKeep

\* The record PayGoTo leaves.
LEMMA GoToRecord ==
    ASSUME CheckoutInv, NEW b \in Buyers, NEW pc \in PayPC, PayGoTo(b, pc)
    PROVE  \E q \in Purchase :
             /\ pay' = [pay EXCEPT ![b] = q]
             /\ q.pc = pc /\ q.result = pay[b].result
             /\ q.nonce = pay[b].nonce /\ q.account = pay[b].account
             /\ q.invokes = pay[b].invokes
  <1> DEFINE q == [pay[b] EXCEPT !.pc = pc]
  <1>1. pay[b] \in Purchase
    BY DEF CheckoutInv, CheckoutTypeOK, PayTypeOK
  <1>2. q \in Purchase
    BY <1>1, Zenon DEF Purchase
  <1>3. /\ q.pc = pc /\ q.result = pay[b].result
        /\ q.nonce = pay[b].nonce /\ q.account = pay[b].account
        /\ q.invokes = pay[b].invokes
    BY <1>1, Zenon DEF Purchase
  <1>4. pay' = [pay EXCEPT ![b] = q]
    BY DEF PayGoTo
  <1> HIDE DEF q
  <1>5. QED
    BY <1>2, <1>3, <1>4

\* The record PayAnswer leaves.
LEMMA AnswerRecord ==
    ASSUME CheckoutInv, NEW b \in Buyers, NEW result \in PayResults, PayAnswer(b, result)
    PROVE  \E q \in Purchase :
             /\ pay' = [pay EXCEPT ![b] = q]
             /\ q.pc = "done" /\ q.result = result
             /\ q.nonce = pay[b].nonce /\ q.account = pay[b].account
             /\ q.invokes = pay[b].invokes
  <1> DEFINE q == [pay[b] EXCEPT !.pc = "done", !.result = result]
  <1>1. pay[b] \in Purchase /\ "done" \in PayPC
    BY DEF CheckoutInv, CheckoutTypeOK, PayTypeOK, PayPC
  <1>2. q \in Purchase
    BY <1>1, Zenon DEF Purchase
  <1>3. /\ q.pc = "done" /\ q.result = result
        /\ q.nonce = pay[b].nonce /\ q.account = pay[b].account
        /\ q.invokes = pay[b].invokes
    BY <1>1, Zenon DEF Purchase
  <1>4. pay' = [pay EXCEPT ![b] = q]
    BY DEF PayAnswer
  <1> HIDE DEF q
  <1>5. QED
    BY <1>2, <1>3, <1>4

\* The record Retry leaves.
LEMMA RetryRecord ==
    ASSUME CheckoutInv, NEW b \in Buyers, Retry(b)
    PROVE  \E q \in Purchase :
             /\ pay' = [pay EXCEPT ![b] = q]
             /\ \/ q.pc = "credit" /\ q.result = pay[b].result
                \/ q.pc = "done" /\ q.result = "Storage"
             /\ q.nonce = pay[b].nonce /\ q.account = pay[b].account
             /\ q.invokes = pay[b].invokes
  <1>1. pay[b] \in Purchase /\ "credit" \in PayPC /\ "Storage" \in PayResults
    BY DEF CheckoutInv, CheckoutTypeOK, PayTypeOK, PayPC, PayResults
  <1>2. CASE pay[b].attempt < CREDIT_ATTEMPTS
    <2> DEFINE k == pay[b].attempt + 1
               q == [pay[b] EXCEPT !.pc = "credit", !.attempt = k]
    <2>1. pay' = [pay EXCEPT ![b] = q]
      BY <1>2 DEF Retry
    <2>2. k \in 0..CREDIT_ATTEMPTS
      BY <1>1, <1>2 DEF Purchase
    <2> HIDE DEF k
    <2>3. q \in Purchase
      BY <1>1, <2>2, Zenon DEF Purchase
    <2>4. /\ q.pc = "credit" /\ q.result = pay[b].result
          /\ q.nonce = pay[b].nonce /\ q.account = pay[b].account
          /\ q.invokes = pay[b].invokes
      BY <1>1, Zenon DEF Purchase
    <2> HIDE DEF q
    <2>5. QED
      BY <2>1, <2>3, <2>4
  <1>3. CASE ~(pay[b].attempt < CREDIT_ATTEMPTS)
    <2>1. PayAnswer(b, "Storage")
      BY <1>3 DEF Retry
    <2>2. QED
      BY <2>1, <1>1, AnswerRecord
  <1>4. QED
    BY <1>2, <1>3

\* A request that goes to pc.
LEMMA GoToKeeps ==
    ASSUME CheckoutInv, NEW b \in Buyers, NEW pc \in PayPC \ {"idle", "done"},
           PayGoTo(b, pc), BooksKeep, pay[b].pc \notin {"idle", "done", "gone"},
           settled' = settled \/ settled' = settled \cup {pay[b].nonce},
           inflight' \subseteq inflight \cup {b},
           pc \in {"credit", "applied", "check", "replay"} \/ b \in inflight'
               => pay[b].nonce \in settled',
           pc \in {"applied", "replay", "lookup_balance"}
               => receipts'[pay[b].nonce] # Absent,
           Carries(pay[b]) \/ settled' # settled
               => receipts'[pay[b].nonce] # Absent \/ pc \in {"credit", "check", "gone"}
    PROVE  CheckoutInv'
  <1>1. PICK q \in Purchase :
             /\ pay' = [pay EXCEPT ![b] = q]
             /\ q.pc = pc /\ q.result = pay[b].result
             /\ q.nonce = pay[b].nonce /\ q.account = pay[b].account
             /\ q.invokes = pay[b].invokes
    BY GoToRecord
  <1>2. BuyerOK(b) /\ pay[b].nonce \in Nonces \cup {Absent}
    BY DEF CheckoutInv, CheckoutTypeOK, PayTypeOK, Purchase
  <1>3. pay[b].result = "Ok" => receipts'[pay[b].nonce] # Absent
    BY <1>2 DEF BuyerOK, BooksKeep, Grows
  <1>4. pc \in {"credit", "check", "gone"} => Carries(q)
    BY <1>1 DEF Carries
  <1>5. QED
    BY <1>1, <1>3, <1>4, PurchaseMoves

\* A request that is answered.
LEMMA AnswerKeeps ==
    ASSUME CheckoutInv, NEW b \in Buyers, NEW result \in PayResults,
           PayAnswer(b, result), BooksKeep, pay[b].pc \notin {"idle", "done", "gone"},
           settled' = settled \/ settled' = settled \cup {pay[b].nonce},
           inflight' \subseteq inflight \cup {b},
           b \in inflight' => pay[b].nonce \in settled',
           result = "Ok" => receipts'[pay[b].nonce] # Absent,
           Carries(pay[b]) \/ settled' # settled
               => receipts'[pay[b].nonce] # Absent \/ result \in {"Storage", "NotFound"}
    PROVE  CheckoutInv'
  <1>1. PICK q \in Purchase :
             /\ pay' = [pay EXCEPT ![b] = q]
             /\ q.pc = "done" /\ q.result = result
             /\ q.nonce = pay[b].nonce /\ q.account = pay[b].account
             /\ q.invokes = pay[b].invokes
    BY AnswerRecord
  <1>2. result \in {"Storage", "NotFound"} => Carries(q)
    BY <1>1 DEF Carries
  <1>3. QED
    BY <1>1, <1>2, PurchaseMoves

\* A request that tries again, or gives up.
LEMMA RetryKeeps ==
    ASSUME CheckoutInv, NEW b \in Buyers, Retry(b), BooksKeep,
           pay[b].pc \in {"credit", "applied", "check", "replay"},
           settled' = settled, inflight' \subseteq inflight \cup {b}
    PROVE  CheckoutInv'
  <1>1. PICK q \in Purchase :
             /\ pay' = [pay EXCEPT ![b] = q]
             /\ \/ q.pc = "credit" /\ q.result = pay[b].result
                \/ q.pc = "done" /\ q.result = "Storage"
             /\ q.nonce = pay[b].nonce /\ q.account = pay[b].account
             /\ q.invokes = pay[b].invokes
    BY RetryRecord
  <1>2. BuyerOK(b) /\ pay[b].nonce \in Nonces \cup {Absent}
    BY DEF CheckoutInv, CheckoutTypeOK, PayTypeOK, Purchase
  <1>3. /\ pay[b].result = "Ok" => receipts'[pay[b].nonce] # Absent
        /\ pay[b].nonce \in settled
    BY <1>2 DEF BuyerOK, BooksKeep, Grows
  <1>4. Carries(q)
    BY <1>1 DEF Carries
  <1>5. QED
    BY <1>1, <1>3, <1>4, PurchaseMoves

-----------------------------------------------------------------------------
(* The steps of a request.                                                 *)

\* What a request has seen is a row of the receipts table or of its copy.
LEMMA SeenReceipt ==
    ASSUME CheckoutInv, NEW b \in Buyers, pay[b].nonce # Absent,
           NEW row \in ReadReceipt(pay[b].nonce), row # Absent
    PROVE  receipts[pay[b].nonce] # Absent
  <1>1. pay[b].nonce \in Nonces
    BY DEF CheckoutInv, CheckoutTypeOK, PayTypeOK, Purchase
  <1>2. QED
    BY <1>1 DEF CheckoutInv, ReplicaBehind, ReadReceipt

\* The lookup keeps the invariant: a hit is a receipt.
LEMMA CreditLookupKeeps ==
    ASSUME CheckoutInv, NEW b \in Buyers, CreditLookup(b), UNCHANGED cli
    PROVE  CheckoutInv'
  <1>1. /\ pay[b].pc = "lookup" /\ pay[b].nonce # Absent /\ ~Carries(pay[b])
        /\ b \in inflight => pay[b].nonce \in settled
    BY DEF CreditLookup, CheckoutInv, BuyerOK, Carries
  <1>2. BooksKeep /\ UNCHANGED <<receipts, settled, inflight>>
    BY LocalBooks DEF CreditLookup, PayLocal, storeVars
  <1>3. CASE PayAnswer(b, "Storage")
    <2>1. "Storage" \in PayResults
      BY DEF PayResults
    <2>2. QED
      BY <1>1, <1>2, <1>3, <2>1, AnswerKeeps
  <1>4. ASSUME NEW row \in ReadReceipt(pay[b].nonce),
               PayGoTo(b, IF row = Absent THEN "settle" ELSE "lookup_balance")
        PROVE  CheckoutInv'
    <2>1. {"settle", "lookup_balance"} \subseteq PayPC \ {"idle", "done"}
      BY DEF PayPC
    <2>2. CASE row = Absent
      BY <1>1, <1>2, <1>4, <2>1, <2>2, GoToKeeps
    <2>3. CASE row # Absent
      <3>1. receipts[pay[b].nonce] # Absent
        BY <1>1, <2>3, SeenReceipt
      <3>2. PayGoTo(b, "lookup_balance")
        BY <1>4, <2>3
      <3>3. QED
        BY <1>1, <1>2, <2>1, <3>1, <3>2, GoToKeeps
    <2>4. QED
      BY <2>2, <2>3
  <1>5. QED
    BY <1>3, <1>4 DEF CreditLookup

\* Settling keeps the invariant, also when the answer is lost.
LEMMA SettleKeeps ==
    ASSUME CheckoutInv, NEW b \in Buyers, Settle(b), UNCHANGED cli
    PROVE  CheckoutInv'
  <1>1. /\ pay[b].pc = "settle" /\ pay[b].nonce # Absent /\ ~Carries(pay[b])
        /\ b \in inflight => pay[b].nonce \in settled
        /\ pay[b].result = "Ok" => receipts[pay[b].nonce] # Absent
        /\ pay[b] \in Purchase
    BY DEF Settle, CheckoutInv, BuyerOK, Carries, CheckoutTypeOK, PayTypeOK
  <1>2. /\ UNCHANGED <<storeVars, auths, expired, cli, inflight>>
        /\ settled' = settled \/ settled' = settled \cup {pay[b].nonce}
    BY DEF Settle, SettleExact
  <1>3. BooksKeep /\ UNCHANGED receipts
    BY <1>2, LocalBooks DEF storeVars
  <1>4. {"BadRequest", "Storage"} \subseteq PayResults /\ "credit" \in PayPC
    BY DEF PayResults, PayPC
  <1>5. CASE PayAnswer(b, "BadRequest") /\ UNCHANGED settled
    BY <1>1, <1>2, <1>3, <1>4, <1>5, AnswerKeeps
  <1>6. CASE PayAnswer(b, "Storage")
    BY <1>1, <1>2, <1>3, <1>4, <1>6, AnswerKeeps
  <1>7. CASE /\ SettleExact(pay[b].nonce)
             /\ pay' = [pay EXCEPT ![b].pc = "credit", ![b].attempt = 1, ![b].mine = TRUE]
    <2> DEFINE q == [pay[b] EXCEPT !.pc = "credit", !.attempt = 1, !.mine = TRUE]
    <2>1. pay' = [pay EXCEPT ![b] = q]
      BY <1>7
    <2>2. 1 \in 0..CREDIT_ATTEMPTS /\ TRUE \in BOOLEAN
      OBVIOUS
    <2>3. q \in Purchase
      BY <1>1, <1>4, <2>2, Zenon DEF Purchase
    <2>4. /\ q.pc = "credit" /\ q.result = pay[b].result
          /\ q.nonce = pay[b].nonce /\ q.account = pay[b].account
          /\ q.invokes = pay[b].invokes
      BY <1>1, Zenon DEF Purchase
    <2> HIDE DEF q
    <2>5. Carries(q) /\ pay[b].nonce \in settled'
      BY <1>7, <2>4 DEF Carries, SettleExact
    <2>6. QED
      BY <1>1, <1>2, <1>3, <2>1, <2>3, <2>4, <2>5, PurchaseMoves
  <1>8. QED
    BY <1>5, <1>6, <1>7 DEF Settle

\* The credit write keeps the invariant, committed, cancelled or in doubt.
LEMMA CreditWriteKeeps ==
    ASSUME CheckoutInv, NEW b \in Buyers, CreditWrite(b), UNCHANGED cli
    PROVE  CheckoutInv'
  <1>1. /\ pay[b].pc = "credit" /\ pay[b].nonce # Absent /\ pay[b].nonce \in settled
        /\ UNCHANGED <<auths, settled, expired>>
    BY DEF CreditWrite, CheckoutInv, BuyerOK
  <1>2. {"applied", "check"} \subseteq PayPC \ {"idle", "done"}
    BY DEF PayPC
  <1>3. CASE PayGoTo(b, "applied") /\ CommitCreditOf(b) /\ UNCHANGED inflight
    <2>1. BooksKeep /\ receipts'[pay[b].nonce] # Absent
      BY <1>1, <1>3, CommitKeeps DEF BooksKeep
    <2>2. QED
      BY <1>1, <1>2, <1>3, <2>1, GoToKeeps
  <1>4. CASE PayGoTo(b, "check") /\ UNCHANGED <<storeVars, inflight>>
    <2>1. BooksKeep
      BY <1>1, <1>4, LocalBooks
    <2>2. QED
      BY <1>1, <1>2, <1>4, <2>1, GoToKeeps
  <1>5. CASE Retry(b) /\ inflight' = inflight \cup {b} /\ UNCHANGED storeVars
    <2>1. BooksKeep
      BY <1>1, <1>5, LocalBooks
    <2>2. QED
      BY <1>1, <1>5, <2>1, RetryKeeps
  <1>6. QED
    BY <1>3, <1>4, <1>5 DEF CreditWrite

\* The check after a cancelled write keeps the invariant.
LEMMA CreditCheckKeeps ==
    ASSUME CheckoutInv, NEW b \in Buyers, CreditCheck(b), UNCHANGED cli
    PROVE  CheckoutInv'
  <1>1. /\ pay[b].pc = "check" /\ pay[b].nonce # Absent /\ pay[b].nonce \in settled
    BY DEF CreditCheck, CheckoutInv, BuyerOK
  <1>2. BooksKeep /\ UNCHANGED <<receipts, settled, inflight>>
    BY LocalBooks DEF CreditCheck, PayLocal, storeVars
  <1>3. "NotFound" \in PayResults /\ "replay" \in PayPC \ {"idle", "done"}
    BY DEF PayResults, PayPC
  <1>4. CASE Retry(b)
    BY <1>1, <1>2, <1>4, RetryKeeps
  <1>5. ASSUME NEW row \in ReadReceipt(pay[b].nonce),
               IF row = Absent THEN PayAnswer(b, "NotFound") ELSE PayGoTo(b, "replay")
        PROVE  CheckoutInv'
    <2>1. CASE row = Absent
      BY <1>1, <1>2, <1>3, <1>5, <2>1, AnswerKeeps
    <2>2. CASE row # Absent
      <3>1. receipts[pay[b].nonce] # Absent
        BY <1>1, <2>2, SeenReceipt
      <3>2. PayGoTo(b, "replay")
        BY <1>5, <2>2
      <3>3. QED
        BY <1>1, <1>2, <1>3, <3>1, <3>2, GoToKeeps
    <2>3. QED
      BY <2>1, <2>2
  <1>6. QED
    BY <1>4, <1>5 DEF CreditCheck

\* The answer with a balance keeps the invariant.
LEMMA ReadBalanceKeeps ==
    ASSUME CheckoutInv, NEW b \in Buyers, ReadBalance(b), UNCHANGED cli
    PROVE  CheckoutInv'
  <1>1. /\ pay[b].pc \in {"applied", "replay", "lookup_balance"}
        /\ pay[b].nonce # Absent /\ receipts[pay[b].nonce] # Absent
        /\ b \in inflight => pay[b].nonce \in settled
    BY DEF ReadBalance, CheckoutInv, BuyerOK
  <1>2. BooksKeep /\ UNCHANGED <<receipts, settled, inflight>>
    BY LocalBooks DEF ReadBalance, PayLocal, storeVars
  <1>3. {"NotFound", "Ok", "Storage"} \subseteq PayResults
    BY DEF PayResults
  <1>4. ASSUME NEW result \in {"NotFound", "Ok", "Storage"}, PayAnswer(b, result)
        PROVE  CheckoutInv'
    BY <1>1, <1>2, <1>3, <1>4, AnswerKeeps
  <1>5. CASE pay[b].pc # "lookup_balance" /\ Retry(b)
    BY <1>1, <1>2, <1>5, RetryKeeps
  <1>6. CASE pay[b].pc = "lookup_balance" /\ PayAnswer(b, "Storage")
    BY <1>4, <1>6
  <1>7. ASSUME NEW row \in ReadAccount(pay[b].account),
               PayAnswer(b, IF row = Absent THEN "NotFound" ELSE "Ok")
        PROVE  CheckoutInv'
    BY <1>4, <1>7
  <1>8. QED
    BY <1>5, <1>6, <1>7 DEF ReadBalance

\* A dropped request keeps the invariant, whatever its last call still does.
LEMMA PayDropKeeps ==
    ASSUME CheckoutInv, NEW b \in Buyers, PayDrop(b), UNCHANGED cli
    PROVE  CheckoutInv'
  <1>1. /\ pay[b].pc \notin {"idle", "done", "gone"} /\ pay[b].nonce # Absent
        /\ b \in inflight => pay[b].nonce \in settled
        /\ pay[b].pc = "credit" => pay[b].nonce \in settled
        /\ PayGoTo(b, "gone") /\ UNCHANGED <<storeVars, auths, expired>>
    BY DEF PayDrop, CheckoutInv, BuyerOK
  <1>2. /\ settled' = settled \/ settled' = settled \cup {pay[b].nonce}
        /\ inflight' \subseteq inflight \cup {b}
        /\ b \in inflight' => b \in inflight \/ pay[b].pc = "credit"
    BY DEF PayDrop, SettleExact
  <1>3. BooksKeep
    BY <1>1, <1>2, LocalBooks
  <1>4. "gone" \in PayPC \ {"idle", "done"}
    BY DEF PayPC
  <1>5. QED
    BY <1>1, <1>2, <1>3, <1>4, GoToKeeps

-----------------------------------------------------------------------------
(* The steps that move no request.                                         *)

\* A step that moves no request and no session and forgets no payment keeps
\* the invariant if it keeps the tables and the books.
LEMMA QuietStep ==
    ASSUME CheckoutInv, UNCHANGED <<pay, auths, settled, cli>>, Grows,
           StoreTypeOK' /\ ReceiptsBacked' /\ ReplicaBehind' /\ CreditedIsSum',
           expired' \subseteq Nonces, inflight' \subseteq inflight
    PROVE  CheckoutInv'
  <1>1. CheckoutTypeOK'
    BY DEF CheckoutInv, CheckoutTypeOK, PayTypeOK
  <1>2. ASSUME NEW b \in Buyers
        PROVE  BuyerOK(b)'
    BY BuyerKept DEF CheckoutInv
  <1>3. ASSUME NEW c \in Sessions
        PROVE  SessionOK(c)'
    BY SessionKept DEF CheckoutInv
  <1>4. SettledAccountedFor'
    <2> SUFFICES ASSUME NEW n \in settled, receipts'[n] = Absent
                 PROVE  \E d \in Buyers : pay[d].nonce = n /\ Carries(pay[d])
      BY DEF SettledAccountedFor, Carries
    <2>1. n \in Nonces
      BY DEF CheckoutInv, CheckoutTypeOK, PayTypeOK
    <2>2. receipts[n] = Absent
      BY <2>1 DEF Grows
    <2>3. QED
      BY <2>2, Zenon DEF CheckoutInv, SettledAccountedFor, Carries
  <1>5. QED
    BY <1>1, <1>2, <1>3, <1>4 DEF CheckoutInv

\* A late credit is as good as one that is waited for.
LEMMA LateCreditKeeps ==
    ASSUME CheckoutInv, NEW b \in Buyers, LateCredit(b), UNCHANGED cli
    PROVE  CheckoutInv'
  <1>1. /\ pay[b].nonce # Absent /\ pay[b].nonce \in settled
        /\ UNCHANGED <<pay, auths, settled, expired, cli>> /\ inflight' \subseteq inflight
        /\ expired' \subseteq Nonces
    BY DEF LateCredit, CheckoutInv, BuyerOK, CheckoutTypeOK, PayTypeOK
  <1>2. CASE CommitCreditOf(b)
    BY <1>1, <1>2, CommitKeeps, QuietStep
  <1>3. CASE UNCHANGED storeVars
    <2>1. BooksKeep
      BY <1>1, <1>3, LocalBooks
    <2>2. QED
      BY <1>1, <2>1, QuietStep DEF BooksKeep
  <1>4. QED
    BY <1>2, <1>3 DEF LateCredit

\* Time passes.
LEMMA ExpireKeeps ==
    ASSUME CheckoutInv, NEW n \in Nonces, Expire(n), UNCHANGED cli
    PROVE  CheckoutInv'
  <1>1. Grows
    BY DEF Expire, Grows, storeVars
  <1>2. ReceiptsBacked' /\ CreditedIsSum'
    BY <1>1, BooksKept DEF CheckoutInv, Expire, storeVars
  <1>3. StoreTypeOK' /\ ReplicaBehind'
    BY DEF CheckoutInv, CheckoutTypeOK, PayTypeOK, StoreTypeOK, ReplicaBehind, Expire, storeVars
  <1>4. expired' \subseteq Nonces
    BY DEF CheckoutInv, CheckoutTypeOK, PayTypeOK, Expire
  <1>5. QED
    BY <1>1, <1>2, <1>3, <1>4, QuietStep DEF Expire

\* Opening an account writes no receipt.
LEMMA CreateTxKeeps ==
    ASSUME CheckoutInv, NEW a \in Accounts, NEW s, CreateTx(a, s), UNCHANGED payVars
    PROVE  /\ StoreTypeOK' /\ ReceiptsBacked' /\ ReplicaBehind' /\ CreditedIsSum' /\ Grows
  <1>1. Grows
    BY DEF CreateTx, Grows, payVars
  <1>2. ReceiptsBacked' /\ CreditedIsSum'
    BY <1>1, BooksKept DEF CheckoutInv, CreateTx, history
  <1>3. ReplicaBehind'
    BY DEF CheckoutInv, ReplicaBehind, CreateTx, replicas
  <1>4. StoreTypeOK'
    <2> DEFINE k == NewKey(a, FALSE, 0)
    <2>1. k \in KeyRecord
      BY DEF NewKey, KeyRecord
    <2>2. keys' = [keys EXCEPT ![s] = k] /\ accounts' = [accounts EXCEPT ![a] = 0]
      BY DEF CreateTx
    <2> HIDE DEF k
    <2>3. StoreTypeOK
      BY DEF CheckoutInv, CheckoutTypeOK, PayTypeOK
    <2>4. keys' \in [Secrets -> KeyRecord \cup {Absent}]
      BY <2>1, <2>2, <2>3 DEF StoreTypeOK
    <2>5. accounts' \in [Accounts -> Nat \cup {Absent}]
      BY <2>2, <2>3 DEF StoreTypeOK
    <2>6. QED
      BY <2>3, <2>4, <2>5 DEF StoreTypeOK, CreateTx, replicas, history
  <1>5. QED
    BY <1>1, <1>2, <1>3, <1>4

\* An account is opened by someone else.
LEMMA PayCreateKeeps ==
    ASSUME CheckoutInv, PayCreate, UNCHANGED cli
    PROVE  CheckoutInv'
  <1>1. PICK a \in Accounts : CreateTx(a, FirstSecret[a])
    BY DEF PayCreate
  <1>2. UNCHANGED payVars
    BY DEF PayCreate
  <1>3. /\ UNCHANGED <<pay, auths, settled, cli>> /\ inflight' \subseteq inflight
        /\ expired' \subseteq Nonces
    BY <1>2 DEF payVars, CheckoutInv, CheckoutTypeOK, PayTypeOK
  <1>4. QED
    BY <1>1, <1>2, <1>3, CreateTxKeeps, QuietStep

\* A copy catches up.
LEMMA PayCatchUpKeeps ==
    ASSUME CheckoutInv, PayCatchUp, UNCHANGED cli
    PROVE  CheckoutInv'
  <1>1. UNCHANGED <<pay, auths, settled, expired, inflight>>
    BY DEF PayCatchUp, payVars
  <1>2. UNCHANGED <<accounts, keys, receipts, credited, cap, keysReplica>>
    BY DEF PayCatchUp, ReplicateAccount, ReplicateReceipt, tables, history
  <1>3. Grows
    BY <1>1, <1>2 DEF Grows
  <1>4. ReceiptsBacked' /\ CreditedIsSum'
    BY <1>2, <1>3, BooksKept DEF CheckoutInv
  <1>5. StoreTypeOK
    BY DEF CheckoutInv, CheckoutTypeOK, PayTypeOK
  <1>6. StoreTypeOK' /\ ReplicaBehind'
    <2>1. CASE ReplicateAccount
      <3>1. accountsReplica' \in [Accounts -> Nat \cup {Absent}]
        BY <2>1, <1>5 DEF ReplicateAccount, StoreTypeOK
      <3>2. QED
        BY <2>1, <3>1, <1>2, <1>5
        DEF ReplicateAccount, StoreTypeOK, ReplicaBehind, CheckoutInv
    <2>2. CASE ReplicateReceipt
      <3>1. PICK n \in Nonces :
              receiptsReplica' = [receiptsReplica EXCEPT ![n] = receipts[n]]
        BY <2>2 DEF ReplicateReceipt
      <3>2. receiptsReplica' \in [Nonces -> Receipt \cup {Absent}]
        BY <3>1, <1>5 DEF StoreTypeOK
      <3>3. QED
        BY <2>2, <3>1, <3>2, <1>2, <1>5
        DEF ReplicateReceipt, StoreTypeOK, ReplicaBehind, CheckoutInv
    <2>3. QED
      BY <2>1, <2>2 DEF PayCatchUp
  <1>7. QED
    BY <1>1, <1>3, <1>4, <1>6, QuietStep DEF CheckoutInv, CheckoutTypeOK, PayTypeOK

-----------------------------------------------------------------------------
(* A request arrives.                                                      *)

\* The record CreditRequest leaves: the request is refused, or it holds a
\* payment that covers what it asks for.
LEMMA RequestRecord ==
    ASSUME CheckoutInv, NEW b \in Buyers, NEW a \in Accounts, NEW invokes \in InvokeCounts,
           NEW price \in Prices, NEW n \in Nonces, NEW auth \in ExactAuthorization,
           CreditRequest(b, a, invokes, price, n, auth), auths'[n] = auth
    PROVE  \E q \in Purchase :
             /\ pay' = [pay EXCEPT ![b] = q]
             /\ \/ q.pc = "done" /\ q.result = "BadRequest" /\ q.nonce = pay[b].nonce
                \/ /\ q.pc = "lookup" /\ q.result = pay[b].result /\ q.nonce = n
                   /\ q.account = a /\ q.invokes = invokes /\ Backed(n, invokes)'
  <1>1. CASE ~(Priced(invokes, price) /\ CheckExact(n, auth, Requirements(invokes, price)))
    <2>1. PayAnswer(b, "BadRequest") /\ "BadRequest" \in PayResults
      BY <1>1 DEF CreditRequest, PayResults
    <2>2. QED
      BY <2>1, AnswerRecord
  <1>2. CASE Priced(invokes, price) /\ CheckExact(n, auth, Requirements(invokes, price))
    <2> DEFINE k == accounts[a] # Absent
               q == [pay[b] EXCEPT !.pc = "lookup", !.account = a, !.nonce = n,
                                   !.invokes = invokes, !.known = k]
    <2>1. pay' = [pay EXCEPT ![b] = q]
      BY <1>2 DEF CreditRequest
    <2>2. pay[b] \in Purchase /\ "lookup" \in PayPC /\ k \in BOOLEAN
      BY DEF CheckoutInv, CheckoutTypeOK, PayTypeOK, PayPC
    <2> HIDE DEF k
    <2>3. q \in Purchase
      BY <2>2, Zenon DEF Purchase
    <2>4. /\ q.pc = "lookup" /\ q.result = pay[b].result /\ q.nonce = n
          /\ q.account = a /\ q.invokes = invokes
      BY <2>2, Zenon DEF Purchase
    <2> HIDE DEF q
    <2>5. auth.asset = USDC /\ auth.pay_to = PAY_TO /\ auth.value = invokes * price
      BY <1>2 DEF Priced, CheckExact, Requirements, DueUsdc
    <2>6. Backed(n, invokes)'
      BY <2>5 DEF Backed
    <2>7. QED
      BY <2>1, <2>3, <2>4, <2>6
  <1>3. QED
    BY <1>1, <1>2

\* The first step of a request keeps the invariant if it leaves the request
\* and every session right.
LEMMA FirstStep ==
    ASSUME CheckoutInv, NEW b \in Buyers, NEW q \in Purchase, pay[b].pc = "idle",
           pay' = [pay EXCEPT ![b] = q],
           \/ /\ q.pc = "done" /\ q.nonce = pay[b].nonce /\ q.result # "Ok"
           \/ /\ q.pc = "lookup" /\ q.result = pay[b].result /\ q.nonce \in Nonces
              /\ q.account \in Accounts /\ q.invokes \in InvokeCounts
              /\ Backed(q.nonce, q.invokes)',
           UNCHANGED <<storeVars, settled, expired, inflight>>,
           auths' \in [Nonces -> ExactAuthorization \cup {Absent}],
           \A n \in Nonces : auths[n] # Absent => auths'[n] = auths[n],
           cli' \in [Sessions -> Session], \A c \in Sessions : SessionOK(c)'
    PROVE  CheckoutInv'
  <1>1. pay \in [Buyers -> Purchase] /\ CheckoutTypeOK
    BY DEF CheckoutInv, CheckoutTypeOK, PayTypeOK
  <1>2. pay' \in [Buyers -> Purchase] /\ pay'[b] = q
        /\ \A d \in Buyers : d # b => pay'[d] = pay[d]
    BY <1>1
  <1>3. Grows
    BY DEF Grows, storeVars
  <1>4. ReceiptsBacked' /\ CreditedIsSum'
    BY <1>1, <1>3, BooksKept DEF CheckoutInv, storeVars
  <1>5. ReplicaBehind'
    BY DEF CheckoutInv, ReplicaBehind, storeVars
  <1>6. CheckoutTypeOK'
    <2>1. StoreTypeOK'
      BY DEF CheckoutInv, CheckoutTypeOK, PayTypeOK, StoreTypeOK, storeVars
    <2>2. QED
      BY <2>1, <1>2 DEF CheckoutInv, CheckoutTypeOK, PayTypeOK
  <1>7. ASSUME NEW d \in Buyers
        PROVE  BuyerOK(d)'
    <2>1. CASE d # b
      BY <1>1, <1>2, <1>3, <2>1, BuyerKept DEF CheckoutInv
    <2>2. CASE d = b
      <3>1. pay[b].nonce = Absent /\ pay[b].result # "Ok" /\ b \notin inflight
        BY DEF CheckoutInv, BuyerOK
      <3>2. QED
        BY <3>1, <2>2, <1>2 DEF BuyerOK
    <2>3. QED
      BY <2>1, <2>2
  <1>8. SettledAccountedFor'
    <2> SUFFICES ASSUME NEW n \in settled, receipts[n] = Absent
                 PROVE  \E d \in Buyers : pay'[d].nonce = n /\ Carries(pay'[d])
      BY DEF SettledAccountedFor, Carries, storeVars
    <2>1. PICK d \in Buyers : pay[d].nonce = n /\ Carries(pay[d])
      BY Zenon DEF CheckoutInv, SettledAccountedFor, Carries
    <2>2. d # b
      BY <2>1 DEF Carries
    <2>3. QED
      BY <2>1, <2>2, <1>2
  <1>9. QED
    BY <1>4, <1>5, <1>6, <1>7, <1>8 DEF CheckoutInv

\* A request of any other client keeps the invariant.
LEMMA CreditStartKeeps ==
    ASSUME CheckoutInv, NEW b \in Buyers \ Sessions, CreditStart(b), UNCHANGED cli
    PROVE  CheckoutInv'
  <1>1. /\ pay[b].pc = "idle" /\ UNCHANGED <<storeVars, settled, expired, inflight>>
        /\ pay \in [Buyers -> Purchase]
        /\ auths \in [Nonces -> ExactAuthorization \cup {Absent}]
        /\ cli' \in [Sessions -> Session] /\ CheckoutTypeOK
    BY DEF CreditStart, CheckoutInv, CheckoutTypeOK, PayTypeOK
  <1>2. ASSUME NEW q, pay' = [pay EXCEPT ![b] = q], NEW c \in Sessions,
               \A n \in Nonces : auths[n] # Absent => auths'[n] = auths[n]
        PROVE  SessionOK(c)'
    <2>1. pay'[c] = pay[c]
      BY <1>1, <1>2
    <2>2. Grows
      BY <1>1, <1>2 DEF Grows, storeVars
    <2>3. QED
      BY <1>1, <2>1, <2>2, SessionKept DEF CheckoutInv
  <1>3. ASSUME NEW result \in {"PaymentChallenge", "BadRequest"}, PayAnswer(b, result),
               UNCHANGED auths
        PROVE  CheckoutInv'
    <2>1. result \in PayResults
      BY DEF PayResults
    <2>2. PICK q \in Purchase :
             /\ pay' = [pay EXCEPT ![b] = q]
             /\ q.pc = "done" /\ q.result = result /\ q.nonce = pay[b].nonce
      BY <1>3, <2>1, AnswerRecord
    <2>3. auths' \in [Nonces -> ExactAuthorization \cup {Absent}]
      BY <1>1, <1>3
    <2>4. QED
      BY <1>1, <1>2, <1>3, <2>2, <2>3, FirstStep
  <1>4. ASSUME NEW invokes \in InvokeCounts, NEW price \in Prices, NEW a \in Accounts,
               NEW n \in Nonces, NEW auth \in ExactAuthorization,
               auths[n] \in {Absent, auth}, auths' = [auths EXCEPT ![n] = auth],
               CreditRequest(b, a, invokes, price, n, auth)
        PROVE  CheckoutInv'
    <2>1. /\ auths'[n] = auth
          /\ auths' \in [Nonces -> ExactAuthorization \cup {Absent}]
          /\ \A m \in Nonces : auths[m] # Absent => auths'[m] = auths[m]
      BY <1>1, <1>4
    <2>2. PICK q \in Purchase :
             /\ pay' = [pay EXCEPT ![b] = q]
             /\ \/ q.pc = "done" /\ q.result = "BadRequest" /\ q.nonce = pay[b].nonce
                \/ /\ q.pc = "lookup" /\ q.result = pay[b].result /\ q.nonce = n
                   /\ q.account = a /\ q.invokes = invokes /\ Backed(n, invokes)'
      BY <1>4, <2>1, RequestRecord
    <2>3. QED
      BY <1>1, <1>2, <2>1, <2>2, FirstStep
  <1>5. QED
    BY <1>3, <1>4 DEF CreditStart, NoPayment, MalformedPayment

-----------------------------------------------------------------------------
(* The command line.                                                       *)

\* A step of a session that sends no payment keeps the invariant if it leaves
\* the session right.
LEMMA SessionStep ==
    ASSUME CheckoutInv, UNCHANGED payVars, Grows,
           StoreTypeOK' /\ ReceiptsBacked' /\ ReplicaBehind' /\ CreditedIsSum',
           NEW c \in Sessions, NEW s \in Session, cli' = [cli EXCEPT ![c] = s],
           SessionOK(c)'
    PROVE  CheckoutInv'
  <1>1. cli \in [Sessions -> Session] /\ UNCHANGED <<pay, auths, settled, expired, inflight>>
    BY DEF CheckoutInv, CheckoutTypeOK, payVars
  <1>2. CheckoutTypeOK'
    BY <1>1 DEF CheckoutInv, CheckoutTypeOK, PayTypeOK
  <1>3. ASSUME NEW b \in Buyers
        PROVE  BuyerOK(b)'
    BY <1>1, BuyerKept DEF CheckoutInv
  <1>4. ASSUME NEW d \in Sessions
        PROVE  SessionOK(d)'
    <2>1. d # c => cli'[d] = cli[d]
      BY <1>1
    <2>2. QED
      BY <1>1, <2>1, SessionKept DEF CheckoutInv
  <1>5. SettledAccountedFor'
    <2> SUFFICES ASSUME NEW n \in settled, receipts'[n] = Absent
                 PROVE  \E d \in Buyers : pay[d].nonce = n /\ Carries(pay[d])
      BY <1>1 DEF SettledAccountedFor, Carries
    <2>1. n \in Nonces
      BY DEF CheckoutInv, CheckoutTypeOK, PayTypeOK
    <2>2. receipts[n] = Absent
      BY <2>1 DEF Grows
    <2>3. QED
      BY <2>2, Zenon DEF CheckoutInv, SettledAccountedFor, Carries
  <1>6. QED
    BY <1>2, <1>3, <1>4, <1>5 DEF CheckoutInv

\* The same for a step that changes nothing but the session.
LEMMA SessionOnly ==
    ASSUME CheckoutInv, UNCHANGED purchaseVars,
           NEW c \in Sessions, NEW s \in Session, cli' = [cli EXCEPT ![c] = s],
           SessionOK(c)'
    PROVE  CheckoutInv'
  <1>1. UNCHANGED payVars /\ UNCHANGED storeVars
    BY DEF purchaseVars
  <1>2. Grows
    BY <1>1 DEF Grows, storeVars, payVars
  <1>3. ReceiptsBacked' /\ CreditedIsSum'
    BY <1>1, <1>2, BooksKept DEF CheckoutInv, storeVars
  <1>4. StoreTypeOK' /\ ReplicaBehind'
    BY <1>1
    DEF CheckoutInv, CheckoutTypeOK, PayTypeOK, StoreTypeOK, ReplicaBehind, storeVars
  <1>5. QED
    BY <1>1, <1>2, <1>3, <1>4, SessionStep

\* The record CliStop leaves.
LEMMA StopRecord ==
    ASSUME CheckoutInv, NEW c \in Sessions, NEW result \in CliResults, CliStop(c, result)
    PROVE  \E s \in Session :
             /\ cli' = [cli EXCEPT ![c] = s] /\ cli'[c] = s
             /\ s.pc = "done" /\ s.result = result
             /\ s.nonce = cli[c].nonce /\ s.quote = cli[c].quote
             /\ s.max_usdc = cli[c].max_usdc
  <1> DEFINE s == [cli[c] EXCEPT !.pc = "done", !.result = result]
  <1>1. cli \in [Sessions -> Session] /\ cli[c] \in Session
    BY DEF CheckoutInv, CheckoutTypeOK
  <1>2. s \in Session
    <2>1. "done" \in {"idle", "ask", "sign", "sent", "done"}
      OBVIOUS
    <2>2. QED
      BY <1>1, <2>1, Zenon DEF Session
  <1>3. /\ s.pc = "done" /\ s.result = result
        /\ s.nonce = cli[c].nonce /\ s.quote = cli[c].quote
        /\ s.max_usdc = cli[c].max_usdc
    BY <1>1, Zenon DEF Session
  <1>4. cli' = [cli EXCEPT ![c] = s]
    BY DEF CliStop
  <1> HIDE DEF s
  <1>5. QED
    BY <1>1, <1>2, <1>3, <1>4

\* A session that stops and says no more than it knows stays right.
LEMMA StopKeeps ==
    ASSUME CheckoutInv, UNCHANGED payVars, Grows,
           StoreTypeOK' /\ ReceiptsBacked' /\ ReplicaBehind' /\ CreditedIsSum',
           NEW c \in Sessions, NEW result \in CliResults, CliStop(c, result),
           result \in {"Refused", "Cancelled"} => cli[c].nonce = Absent,
           result = "Ok" => cli[c].nonce # Absent /\ receipts'[cli[c].nonce] # Absent
    PROVE  CheckoutInv'
  <1>1. PICK s \in Session :
             /\ cli' = [cli EXCEPT ![c] = s] /\ cli'[c] = s
             /\ s.pc = "done" /\ s.result = result
             /\ s.nonce = cli[c].nonce /\ s.quote = cli[c].quote
             /\ s.max_usdc = cli[c].max_usdc
    BY StopRecord
  <1>2. auths' = auths
    BY DEF payVars
  <1>3. SessionOK(c)'
    BY <1>1, <1>2 DEF CheckoutInv, SessionOK
  <1>4. QED
    BY <1>1, <1>3, SessionStep

\* The same for a step that changes nothing but the session.
LEMMA StopOnly ==
    ASSUME CheckoutInv, UNCHANGED purchaseVars,
           NEW c \in Sessions, NEW result \in CliResults, CliStop(c, result),
           result \in {"Refused", "Cancelled"} => cli[c].nonce = Absent,
           result = "Ok" => cli[c].nonce # Absent /\ receipts[cli[c].nonce] # Absent
    PROVE  CheckoutInv'
  <1>1. PICK s \in Session :
             /\ cli' = [cli EXCEPT ![c] = s] /\ cli'[c] = s
             /\ s.pc = "done" /\ s.result = result
             /\ s.nonce = cli[c].nonce /\ s.quote = cli[c].quote
             /\ s.max_usdc = cli[c].max_usdc
    BY StopRecord
  <1>2. auths' = auths /\ receipts' = receipts
    BY DEF purchaseVars, payVars, storeVars
  <1>3. SessionOK(c)'
    BY <1>1, <1>2 DEF CheckoutInv, SessionOK
  <1>4. QED
    BY <1>1, <1>3, SessionOnly

\* `account create` keeps the invariant.
LEMMA CliCreateKeeps ==
    ASSUME CheckoutInv, NEW c \in Sessions, CliCreate(c)
    PROVE  CheckoutInv'
  <1>1. PICK a \in Accounts :
          /\ CreateTx(a, FirstSecret[a])
          /\ cli' = [cli EXCEPT ![c].account = a] \/ CliStop(c, "Failed")
    BY DEF CliCreate
  <1>2. UNCHANGED payVars /\ cli[c].pc = "idle"
    BY DEF CliCreate
  <1>3. /\ StoreTypeOK' /\ ReceiptsBacked' /\ ReplicaBehind' /\ CreditedIsSum' /\ Grows
    BY <1>1, <1>2, CreateTxKeeps
  <1>4. CASE CliStop(c, "Failed")
    <2>1. "Failed" \in CliResults
      BY DEF CliResults
    <2>2. QED
      BY <1>2, <1>3, <1>4, <2>1, StopKeeps
  <1>5. CASE cli' = [cli EXCEPT ![c].account = a]
    <2> DEFINE s == [cli[c] EXCEPT !.account = a]
    <2>1. cli \in [Sessions -> Session] /\ cli[c] \in Session /\ SessionOK(c)
      BY DEF CheckoutInv, CheckoutTypeOK
    <2>2. s \in Session
      BY <2>1, Zenon DEF Session
    <2>3. /\ s.pc = cli[c].pc /\ s.result = cli[c].result /\ s.nonce = cli[c].nonce
          /\ s.quote = cli[c].quote /\ s.max_usdc = cli[c].max_usdc
      BY <2>1, Zenon DEF Session
    <2>4. cli' = [cli EXCEPT ![c] = s]
      BY <1>5
    <2> HIDE DEF s
    <2>5. cli'[c] = s /\ pay' = pay /\ auths' = auths
      BY <2>1, <2>4, <1>2 DEF payVars
    <2>6. receipts' = receipts
      BY <1>1 DEF CreateTx
    <2>7. SessionOK(c)'
      BY <2>1, <2>3, <2>5, <2>6, <1>2 DEF SessionOK
    <2>8. QED
      BY <1>2, <1>3, <2>2, <2>4, <2>7, SessionStep
  <1>6. QED
    BY <1>1, <1>4, <1>5

\* A challenge is an authorization's terms, and one the decision lets through
\* is within the cap.
LEMMA QuoteTerms ==
    ASSUME NEW invokes \in InvokeCounts, NEW price \in Prices, Priced(invokes, price),
           NEW max_usdc \in MaxUsdc \cup {Absent}, NEW yes \in BOOLEAN,
           NEW interactive \in BOOLEAN, NEW quote,
           quote = ParseChallenge(AcceptBody(invokes, price))
    PROVE  /\ quote \in ExactAuthorization /\ quote # Absent
           /\ PriceDecision(quote.value, max_usdc, yes, interactive)
                \in {"sign", "ask", "done"}
           /\ PriceDecision(quote.value, max_usdc, yes, interactive) # "done"
                /\ max_usdc # Absent => quote.value <= max_usdc
  <1>1. invokes \in Nat /\ price \in Nat /\ MAX_U64 \in Nat /\ MaxUsdc \subseteq Nat
    OBVIOUS
  <1>2. invokes * price \in 0..MAX_U64 /\ DueUsdc(invokes, price) = invokes * price
    BY <1>1 DEF Priced, DueUsdc
  <1>3. quote = [value |-> DueUsdc(invokes, price), asset |-> USDC, pay_to |-> PAY_TO]
    BY DEF ParseChallenge, AcceptBody, Requirements
  <1>4. quote \in ExactAuthorization /\ quote.value \in Nat
    BY <1>2, <1>3 DEF ExactAuthorization
  <1> DEFINE v == quote.value
             d == PriceDecision(v, max_usdc, yes, interactive)
  <1>5. v \in Nat
    BY <1>4
  <1> HIDE DEF v
  <1>6. CASE max_usdc = Absent
    <2>1. d \in {"sign", "ask", "done"}
      BY <1>6 DEF PriceDecision
    <2>2. QED
      BY <2>1, <1>4, <1>6 DEF v
  <1>7. CASE max_usdc # Absent
    <2>1. max_usdc \in Nat
      BY <1>1, <1>7
    <2>2. d = IF v > max_usdc THEN "done" ELSE "sign"
      BY <1>7 DEF PriceDecision
    <2>3. d \in {"sign", "ask", "done"} /\ (d # "done" => v <= max_usdc)
      BY <2>1, <2>2, <1>5
    <2>4. QED
      BY <2>3, <1>4 DEF v
  <1>8. QED
    BY <1>6, <1>7

\* The quote and the decision keep the invariant.
LEMMA CliQuoteKeeps ==
    ASSUME CheckoutInv, NEW c \in Sessions, CliQuote(c)
    PROVE  CheckoutInv'
  <1>1. /\ cli[c].pc = "idle" /\ cli[c].nonce = Absent /\ pay[c].pc = "idle"
        /\ UNCHANGED purchaseVars /\ cli \in [Sessions -> Session] /\ cli[c] \in Session
        /\ cli[c].result # "Ok"
    BY DEF CliQuote, CheckoutInv, CheckoutTypeOK, SessionOK
  <1>2. {"Refused", "Failed"} \subseteq CliResults
    BY DEF CliResults
  <1>3. ASSUME NEW result \in {"Refused", "Failed"}, CliStop(c, result)
        PROVE  CheckoutInv'
    BY <1>1, <1>2, <1>3, StopOnly
  <1>4. PICK a \in Accounts, invokes \in InvokeCounts, price \in Prices,
             max_usdc \in MaxUsdc \cup {Absent}, yes, interactive \in BOOLEAN :
        /\ cli[c].account \in {Absent, a}
        /\ \/ invokes = 0 /\ CliStop(c, "Refused")
           \/ CliStop(c, "Failed")
           \/ /\ Priced(invokes, price)
              /\ LET quote == ParseChallenge(AcceptBody(invokes, price))
                     decision == PriceDecision(quote.value, max_usdc, yes, interactive) IN
                 IF decision = "done"
                   THEN CliStop(c, "Refused")
                   ELSE cli' = [cli EXCEPT ![c].pc = decision, ![c].account = a,
                                           ![c].invokes = invokes,
                                           ![c].max_usdc = max_usdc,
                                           ![c].quote = quote]
    BY Zenon DEF CliQuote
  <1>5. PICK quote : quote = ParseChallenge(AcceptBody(invokes, price))
    OBVIOUS
  <1>6. PICK decision : decision = PriceDecision(quote.value, max_usdc, yes, interactive)
    OBVIOUS
  <1>7. CASE /\ Priced(invokes, price) /\ decision # "done"
             /\ cli' = [cli EXCEPT ![c].pc = decision, ![c].account = a,
                                   ![c].invokes = invokes, ![c].max_usdc = max_usdc,
                                   ![c].quote = quote]
    <2> DEFINE s == [cli[c] EXCEPT !.pc = decision, !.account = a, !.invokes = invokes,
                                   !.max_usdc = max_usdc, !.quote = quote]
    <2>1. /\ quote \in ExactAuthorization /\ quote # Absent
          /\ decision \in {"sign", "ask"}
          /\ max_usdc # Absent => quote.value <= max_usdc
      BY <1>5, <1>6, <1>7, QuoteTerms
    <2>2. decision \in {"idle", "ask", "sign", "sent", "done"}
      BY <2>1
    <2>3. s \in Session
      BY <1>1, <2>1, <2>2, Zenon DEF Session
    <2>4. /\ s.pc = decision /\ s.result = cli[c].result /\ s.nonce = cli[c].nonce
          /\ s.quote = quote /\ s.max_usdc = max_usdc /\ s.account = a
          /\ s.invokes = invokes
      BY <1>1, Zenon DEF Session
    <2>5. cli' = [cli EXCEPT ![c] = s]
      BY <1>7
    <2> HIDE DEF s
    <2>6. cli'[c] = s /\ UNCHANGED <<pay, auths, receipts>>
      BY <1>1, <2>5 DEF purchaseVars, payVars, storeVars
    <2>7. cli[c].result \notin {"Refused", "Cancelled"}
      BY <1>1 DEF CheckoutInv, SessionOK
    <2>8. SessionOK(c)'
      BY <1>1, <2>1, <2>4, <2>6, <2>7 DEF SessionOK
    <2>9. QED
      BY <1>1, <2>3, <2>5, <2>8, SessionOnly
  <1>8. QED
    BY <1>3, <1>4, <1>5, <1>6, <1>7

\* The prompt keeps the invariant.
LEMMA CliConfirmKeeps ==
    ASSUME CheckoutInv, NEW c \in Sessions, CliConfirm(c)
    PROVE  CheckoutInv'
  <1>1. /\ cli[c].pc = "ask" /\ cli[c].nonce = Absent /\ pay[c].pc = "idle"
        /\ UNCHANGED purchaseVars /\ cli \in [Sessions -> Session] /\ cli[c] \in Session
        /\ SessionOK(c)
    BY DEF CliConfirm, CheckoutInv, CheckoutTypeOK, SessionOK
  <1>2. CASE CliStop(c, "Cancelled")
    <2>1. "Cancelled" \in CliResults
      BY DEF CliResults
    <2>2. QED
      BY <1>1, <1>2, <2>1, StopOnly
  <1>3. CASE cli' = [cli EXCEPT ![c].pc = "sign"]
    <2> DEFINE s == [cli[c] EXCEPT !.pc = "sign"]
    <2>1. "sign" \in {"idle", "ask", "sign", "sent", "done"}
      OBVIOUS
    <2>2. s \in Session
      BY <1>1, <2>1, Zenon DEF Session
    <2>3. /\ s.pc = "sign" /\ s.result = cli[c].result /\ s.nonce = cli[c].nonce
          /\ s.quote = cli[c].quote /\ s.max_usdc = cli[c].max_usdc
          /\ s.account = cli[c].account /\ s.invokes = cli[c].invokes
      BY <1>1, Zenon DEF Session
    <2>4. cli' = [cli EXCEPT ![c] = s]
      BY <1>3
    <2> HIDE DEF s
    <2>5. cli'[c] = s /\ UNCHANGED <<pay, auths, receipts>>
      BY <1>1, <2>4 DEF purchaseVars, payVars, storeVars
    <2>6. SessionOK(c)'
      BY <1>1, <2>3, <2>5 DEF SessionOK
    <2>7. QED
      BY <1>1, <2>2, <2>4, <2>6, SessionOnly
  <1>4. QED
    BY <1>2, <1>3 DEF CliConfirm

\* Signing and sending keeps the invariant: the signature covers the quote.
LEMMA CliPayKeeps ==
    ASSUME CheckoutInv, NEW c \in Sessions, CliPay(c)
    PROVE  CheckoutInv'
  <1>1. /\ cli[c].pc = "sign" /\ cli[c].nonce = Absent /\ pay[c].pc = "idle"
        /\ cli[c].account \in Accounts /\ cli[c].invokes \in InvokeCounts
        /\ cli[c].quote # Absent /\ UNCHANGED storeVars
        /\ cli \in [Sessions -> Session] /\ cli[c] \in Session /\ SessionOK(c)
        /\ pay \in [Buyers -> Purchase] /\ c \in Buyers
        /\ auths \in [Nonces -> ExactAuthorization \cup {Absent}]
    BY DEF CliPay, CheckoutInv, CheckoutTypeOK, PayTypeOK, SessionOK
  <1>2. CASE CliStop(c, "Failed") /\ UNCHANGED payVars
    <2>1. "Failed" \in CliResults /\ UNCHANGED purchaseVars
      BY <1>1, <1>2 DEF CliResults, purchaseVars
    <2>2. QED
      BY <1>2, <2>1, StopOnly
  <1>3. PICK auth : auth = PaymentSignature(cli[c].quote)
    OBVIOUS
  <1>4. auth \in ExactAuthorization /\ auth # Absent /\ auth.value = cli[c].quote.value
    <2>1. cli[c].quote \in ExactAuthorization
      BY <1>1 DEF Session
    <2>2. QED
      BY <2>1, <1>3 DEF PaymentSignature, ExactAuthorization
  <1>5. ASSUME NEW n \in Nonces, NEW price \in Prices, auths[n] = Absent,
               auths' = [auths EXCEPT ![n] = auth],
               \/ /\ CreditRequest(c, cli[c].account, cli[c].invokes, price, n, auth)
                  /\ cli' = [cli EXCEPT ![c].pc = "sent", ![c].nonce = n]
               \/ /\ cli' = [cli EXCEPT ![c].pc = "done", ![c].nonce = n,
                                        ![c].result = "Failed"]
                  /\ UNCHANGED pay,
               UNCHANGED <<settled, expired, inflight>>
        PROVE  CheckoutInv'
    <2>1. /\ auths'[n] = auth
          /\ auths' \in [Nonces -> ExactAuthorization \cup {Absent}]
          /\ \A m \in Nonces : auths[m] # Absent => auths'[m] = auths[m]
      BY <1>1, <1>4, <1>5
    <2>2. Grows
      BY <1>1, <1>5, <2>1 DEF Grows, storeVars
    <2>3. /\ {"sent", "done"} \subseteq {"idle", "ask", "sign", "sent", "done"}
          /\ "Failed" \in CliResults
      BY DEF CliResults
    <2>4. CASE /\ CreditRequest(c, cli[c].account, cli[c].invokes, price, n, auth)
               /\ cli' = [cli EXCEPT ![c].pc = "sent", ![c].nonce = n]
      <3> DEFINE s == [cli[c] EXCEPT !.pc = "sent", !.nonce = n]
      <3>1. s \in Session
        BY <1>1, <2>3, Zenon DEF Session
      <3>2. /\ s.pc = "sent" /\ s.result = cli[c].result /\ s.nonce = n
            /\ s.quote = cli[c].quote /\ s.max_usdc = cli[c].max_usdc
            /\ s.account = cli[c].account /\ s.invokes = cli[c].invokes
        BY <1>1, Zenon DEF Session
      <3>3. cli' = [cli EXCEPT ![c] = s]
        BY <2>4
      <3> HIDE DEF s
      <3>4. cli' \in [Sessions -> Session] /\ cli'[c] = s
            /\ \A d \in Sessions : d # c => cli'[d] = cli[d]
        BY <1>1, <3>1, <3>3
      <3>5. PICK q \in Purchase :
              /\ pay' = [pay EXCEPT ![c] = q]
              /\ \/ q.pc = "done" /\ q.result = "BadRequest" /\ q.nonce = pay[c].nonce
                 \/ /\ q.pc = "lookup" /\ q.result = pay[c].result /\ q.nonce = n
                    /\ q.account = cli[c].account /\ q.invokes = cli[c].invokes
                    /\ Backed(n, cli[c].invokes)'
        <4>1. PICK a \in Accounts, i \in InvokeCounts : a = cli[c].account /\ i = cli[c].invokes
          BY <1>1
        <4>2. PICK q \in Purchase :
                /\ pay' = [pay EXCEPT ![c] = q]
                /\ \/ q.pc = "done" /\ q.result = "BadRequest" /\ q.nonce = pay[c].nonce
                   \/ /\ q.pc = "lookup" /\ q.result = pay[c].result /\ q.nonce = n
                      /\ q.account = a /\ q.invokes = i /\ Backed(n, i)'
          BY <1>1, <1>4, <2>1, <2>4, <4>1, RequestRecord
        <4>3. cli'[c].invokes = i
          BY <3>2, <3>4, <4>1
        <4>4. QED
          BY <4>1, <4>2, <4>3
      <3>6. pay'[c] = q /\ pay[c].nonce = Absent
        BY <1>1, <3>5 DEF CheckoutInv, BuyerOK
      <3>7. ASSUME NEW d \in Sessions
            PROVE  SessionOK(d)'
        <4>1. CASE d # c
          <5>1. pay'[d] = pay[d] /\ cli'[d] = cli[d]
            BY <1>1, <3>4, <3>5, <4>1
          <5>2. QED
            BY <2>2, <5>1, SessionKept DEF CheckoutInv
        <4>2. CASE d = c
          <5>1. cli[c].result \notin {"Refused", "Cancelled", "Ok"}
            BY <1>1 DEF SessionOK
          <5>2. pay'[c].nonce \in {n, Absent}
            BY <3>5, <3>6
          <5>3. QED
            BY <1>1, <1>4, <2>1, <3>2, <3>4, <4>2, <5>1, <5>2 DEF SessionOK
        <4>3. QED
          BY <4>1, <4>2
      <3>8. q.nonce \in Nonces /\ q.pc = "lookup" => Backed(q.nonce, q.invokes)'
        BY <3>2, <3>4, <3>5 DEF Backed
      <3>9. QED
        BY <1>1, <1>5, <2>1, <3>4, <3>5, <3>7, <3>8, FirstStep
    <2>5. CASE /\ cli' = [cli EXCEPT ![c].pc = "done", ![c].nonce = n,
                                     ![c].result = "Failed"]
               /\ UNCHANGED pay
      <3> DEFINE s == [cli[c] EXCEPT !.pc = "done", !.nonce = n, !.result = "Failed"]
      <3>1. s \in Session
        BY <1>1, <2>3, Zenon DEF Session
      <3>2. /\ s.pc = "done" /\ s.result = "Failed" /\ s.nonce = n
            /\ s.quote = cli[c].quote /\ s.max_usdc = cli[c].max_usdc
        BY <1>1, Zenon DEF Session
      <3>3. cli' = [cli EXCEPT ![c] = s]
        BY <2>5
      <3> HIDE DEF s
      <3>4. cli' \in [Sessions -> Session] /\ cli'[c] = s
            /\ \A d \in Sessions : d # c => cli'[d] = cli[d]
        BY <1>1, <3>1, <3>3
      <3>5. ASSUME NEW d \in Sessions
            PROVE  SessionOK(d)'
        <4>1. CASE d # c
          BY <2>2, <2>5, <3>4, <4>1, SessionKept DEF CheckoutInv
        <4>2. CASE d = c
          BY <1>1, <1>4, <2>1, <3>2, <3>4, <4>2 DEF SessionOK
        <4>3. QED
          BY <4>1, <4>2
      <3>6. ReceiptsBacked' /\ CreditedIsSum'
        BY <1>1, <2>2, BooksKept DEF CheckoutInv, storeVars
      <3>7. ReplicaBehind' /\ StoreTypeOK'
        BY <1>1
        DEF CheckoutInv, CheckoutTypeOK, PayTypeOK, StoreTypeOK, ReplicaBehind, storeVars
      <3>8. CheckoutTypeOK'
        BY <1>5, <2>1, <2>5, <3>4, <3>7 DEF CheckoutInv, CheckoutTypeOK, PayTypeOK
      <3>9. \A b \in Buyers : BuyerOK(b)'
        BY <1>5, <2>2, <2>5, BuyerKept DEF CheckoutInv
      <3>10. SettledAccountedFor'
        BY <1>1, <1>5, <2>5 DEF CheckoutInv, SettledAccountedFor, storeVars
      <3>11. QED
        BY <3>5, <3>6, <3>7, <3>8, <3>9, <3>10 DEF CheckoutInv
    <2>6. QED
      BY <1>5, <2>4, <2>5
  <1>6. QED
    BY <1>2, <1>3, <1>5 DEF CliPay

\* Reading the answer keeps the invariant: a balance means a receipt.
LEMMA CliAnswerKeeps ==
    ASSUME CheckoutInv, NEW c \in Sessions, CliAnswer(c)
    PROVE  CheckoutInv'
  <1>1. /\ cli[c].pc = "sent" /\ cli[c].nonce # Absent /\ pay[c].nonce \in {cli[c].nonce, Absent}
        /\ UNCHANGED purchaseVars /\ BuyerOK(c)
    BY DEF CliAnswer, CheckoutInv, SessionOK
  <1>2. {"Failed", "Ok"} \subseteq CliResults
    BY DEF CliResults
  <1>3. CASE CliStop(c, "Failed")
    BY <1>1, <1>2, <1>3, StopOnly
  <1>4. CASE pay[c].result = "Ok" /\ CliStop(c, "Ok")
    <2>1. receipts[cli[c].nonce] # Absent
      BY <1>1, <1>4 DEF BuyerOK
    <2>2. QED
      BY <1>1, <1>2, <1>4, <2>1, StopOnly
  <1>5. QED
    BY <1>3, <1>4 DEF CliAnswer

-----------------------------------------------------------------------------
(* The invariant and what follows from it.                                 *)

\* The tables are empty at first, and nobody has asked for anything.
LEMMA CheckoutInvInit == CheckoutInit => CheckoutInv
  <1> SUFFICES ASSUME CheckoutInit
               PROVE  CheckoutInv
    OBVIOUS
  <1>1. StoreTypeOK
    BY DEF CheckoutInit, PayInit, StoreInit, StoreTypeOK
  <1> DEFINE p == [pc |-> "idle", account |-> Absent, nonce |-> Absent,
                   invokes |-> Absent, attempt |-> 0, result |-> "None", mine |-> FALSE,
                   known |-> FALSE]
             s == [pc |-> "idle", account |-> Absent, invokes |-> Absent,
                   max_usdc |-> Absent, quote |-> Absent, nonce |-> Absent,
                   result |-> "None"]
  <1>2. p \in Purchase
    BY DEF Purchase, PayPC, PayResults
  <1>3. s \in Session
    BY DEF Session, CliResults
  <1>4. pay = [b \in Buyers |-> p] /\ cli = [c \in Sessions |-> s]
    BY DEF CheckoutInit, PayInit
  <1>5. /\ p.pc = "idle" /\ p.nonce = Absent /\ p.result = "None"
        /\ s.pc = "idle" /\ s.nonce = Absent /\ s.result = "None" /\ s.quote = Absent
    OBVIOUS
  <1> HIDE DEF p, s
  <1>6. CheckoutTypeOK
    BY <1>1, <1>2, <1>3, <1>4 DEF CheckoutTypeOK, PayTypeOK, CheckoutInit, PayInit
  <1>7. ReceiptsBacked /\ ReplicaBehind /\ SettledAccountedFor
    BY DEF CheckoutInit, PayInit, StoreInit, ReceiptsBacked, ReplicaBehind,
           SettledAccountedFor
  <1>8. CreditedIsSum
    <2> SUFFICES ASSUME NEW a \in Accounts
                 PROVE  credited[a] = Invokes(receipts, ReceiptsOf(a))
      BY DEF CreditedIsSum
    <2>1. ReceiptsOf(a) = {} /\ credited[a] = 0
      BY DEF CheckoutInit, PayInit, StoreInit, ReceiptsOf
    <2>2. QED
      BY <2>1, InvokesEmpty
  <1>9. ASSUME NEW b \in Buyers
        PROVE  BuyerOK(b)
    BY <1>4, <1>5 DEF BuyerOK, CheckoutInit, PayInit
  <1>10. ASSUME NEW c \in Sessions
         PROVE  SessionOK(c)
    BY <1>4, <1>5 DEF SessionOK
  <1>11. QED
    BY <1>6, <1>7, <1>8, <1>9, <1>10 DEF CheckoutInv

\* Every step of every request, session, account and copy keeps the invariant.
LEMMA CheckoutInvNext == CheckoutInv /\ [CheckoutNext]_checkoutVars => CheckoutInv'
  <1> SUFFICES ASSUME CheckoutInv, [CheckoutNext]_checkoutVars
               PROVE  CheckoutInv'
    OBVIOUS
  <1>1. ASSUME NEW c \in Sessions, CliStep(c)
        PROVE  CheckoutInv'
    BY <1>1, CliCreateKeeps, CliQuoteKeeps, CliConfirmKeeps, CliPayKeeps, CliAnswerKeeps
    DEF CliStep
  <1>2. ASSUME NEW b \in Buyers \ Sessions, CreditStart(b), UNCHANGED cli
        PROVE  CheckoutInv'
    BY <1>2, CreditStartKeeps
  <1>3. ASSUME NEW b \in Buyers, CreditStep(b), UNCHANGED cli
        PROVE  CheckoutInv'
    BY <1>3, CreditLookupKeeps, SettleKeeps, CreditWriteKeeps, CreditCheckKeeps,
       ReadBalanceKeeps
    DEF CreditStep
  <1>4. ASSUME NEW b \in Buyers, PayDrop(b) \/ LateCredit(b), UNCHANGED cli
        PROVE  CheckoutInv'
    BY <1>4, PayDropKeeps, LateCreditKeeps
  <1>5. ASSUME NEW n \in Nonces, Expire(n), UNCHANGED cli
        PROVE  CheckoutInv'
    BY <1>5, ExpireKeeps
  <1>6. CASE (PayCreate \/ PayCatchUp) /\ UNCHANGED cli
    BY <1>6, PayCreateKeeps, PayCatchUpKeeps
  <1>7. CASE UNCHANGED checkoutVars
    <2>1. UNCHANGED <<storeVars, pay, auths, settled, expired, inflight, cli>>
      BY <1>7 DEF checkoutVars, purchaseVars, payVars
    <2>2. BooksKeep
      BY <2>1, LocalBooks
    <2>3. QED
      BY <2>1, <2>2, QuietStep DEF BooksKeep, CheckoutInv, CheckoutTypeOK, PayTypeOK
  <1>8. QED
    BY <1>1, <1>2, <1>3, <1>4, <1>5, <1>6, <1>7 DEF CheckoutNext

\* CheckoutInv holds in every state the API tasks, their clients and the command
\* line can reach together.
THEOREM CheckoutInvariant == CheckoutSpec => []CheckoutInv
  BY CheckoutInvInit, CheckoutInvNext, PTL DEF CheckoutSpec

\* Every variable of the purchase and of the command line keeps its type.
THEOREM CheckoutTypeCorrect == CheckoutSpec => []CheckoutTypeOK
  <1>1. CheckoutInv => CheckoutTypeOK
    BY DEF CheckoutInv
  <1>2. QED
    BY <1>1, CheckoutInvariant, PTL

\* Accounts::credit: every receipt was paid for on chain at a price of the
\* platform, and what an account was credited is what its receipts add up to, for
\* any number of retries, replays, crashes and prices.
THEOREM CreditsPaidFor == CheckoutSpec => []CreditsArePaidFor
  <1>1. CheckoutInv => CreditsArePaidFor
    <2> SUFFICES ASSUME CheckoutInv
                 PROVE  CreditsArePaidFor
      OBVIOUS
    <2>1. ASSUME NEW a \in Accounts
          PROVE  credited[a] = MapThenSumSet(LAMBDA n : receipts[n].invokes, ReceiptsOf(a))
      BY Zenon DEF CheckoutInv, CreditedIsSum, Invokes
    <2>2. ASSUME NEW n \in Nonces, receipts[n] # Absent
          PROVE  /\ n \in settled
                 /\ auths[n].asset = USDC /\ auths[n].pay_to = PAY_TO
                 /\ \E price \in Prices : auths[n].value = receipts[n].invokes * price
      BY <2>2 DEF CheckoutInv, ReceiptsBacked, Backed
    <2>3. QED
      BY <2>1, <2>2, Zenon DEF CreditsArePaidFor
  <1>2. QED
    BY <1>1, CheckoutInvariant, PTL

\* Accounts::credit: a buyer who is told a balance has a receipt for the payment.
THEOREM OkIsCredited == CheckoutSpec => []OkMeansCredited
  <1>1. CheckoutInv => OkMeansCredited
    BY DEF CheckoutInv, BuyerOK, OkMeansCredited
  <1>2. QED
    BY <1>1, CheckoutInvariant, PTL

\* Accounts::credit: a settled payment without a receipt still has a request that
\* is crediting it, was answered with an error or was dropped.
THEOREM SettledIsAccountedFor == CheckoutSpec => []SettledAccountedFor
  <1>1. CheckoutInv => SettledAccountedFor
    BY DEF CheckoutInv
  <1>2. QED
    BY <1>1, CheckoutInvariant, PTL

\* `account credit`: what the chain takes for a session is what it was quoted and
\* within --max-usdc, a refusal signed nothing and a balance is a credited payment.
THEOREM CheckoutIsHonest == CheckoutSpec => []CheckoutKeepsItsWord
  <1>1. CheckoutInv => CheckoutKeepsItsWord
    <2> SUFFICES ASSUME CheckoutInv, NEW c \in Sessions
                 PROVE  LET n == cli[c].nonce IN
        /\ n # Absent =>
            /\ auths[n].value = cli[c].quote.value
            /\ cli[c].max_usdc # Absent => auths[n].value <= cli[c].max_usdc
        /\ cli[c].result \in {"Refused", "Cancelled"} => n = Absent
        /\ cli[c].result = "Ok" =>
            /\ n \in settled /\ receipts[n] # Absent
            /\ \E price \in Prices : receipts[n].invokes * price = cli[c].quote.value
      BY Zenon DEF CheckoutKeepsItsWord
    <2>1. SessionOK(c) /\ cli[c].nonce \in Nonces \cup {Absent}
      BY DEF CheckoutInv, CheckoutTypeOK, Session
    <2>2. cli[c].result = "Ok" =>
            /\ cli[c].nonce \in Nonces /\ receipts[cli[c].nonce] # Absent
            /\ cli[c].nonce \in settled
            /\ \E price \in Prices :
                 auths[cli[c].nonce].value = receipts[cli[c].nonce].invokes * price
      BY <2>1 DEF SessionOK, CheckoutInv, ReceiptsBacked, Backed
    <2>3. QED
      BY <2>1, <2>2 DEF SessionOK
  <1>2. QED
    BY <1>1, CheckoutInvariant, PTL
=============================================================================
