------------------------- MODULE PaidInvokeProofs -------------------------
(***************************************************************************)
(* Proofs about PaidInvoke for every set of accounts, keys, payments and   *)
(* requests and every cost: the inductive invariant LedgerInv, the safety  *)
(* properties that follow from it, and the refinement of CreditEscrow.     *)
(***************************************************************************)
EXTENDS PaidInvoke, FiniteSetTheorems, TLAPS

USE AbsentAssumption, PaidInvokeAssumption

-----------------------------------------------------------------------------
(* Arithmetic and cardinalities of the sets of standing charges.           *)

\* One more standing charge costs one more InvokeCost.
LEMMA TimesSucc ==
    ASSUME NEW c \in Nat, NEW n \in Nat
    PROVE  c * (n + 1) = c * n + c /\ c * n \in Nat
  OBVIOUS

\* The sets of requests with a standing charge are finite.
LEMMA HeldFinite ==
    /\ \A a : IsFiniteSet(HeldOn(a)) /\ Cardinality(HeldOn(a)) \in Nat
    /\ \A s : IsFiniteSet(HeldBy(s)) /\ Cardinality(HeldBy(s)) \in Nat
  <1>1. \A S \in SUBSET Requests : IsFiniteSet(S) /\ Cardinality(S) \in Nat
    BY FS_Subset, FS_CardinalityType
  <1>2. \A a : HeldOn(a) \in SUBSET Requests
    BY DEF HeldOn
  <1>3. \A s : HeldBy(s) \in SUBSET Requests
    BY DEF HeldBy
  <1>4. QED
    BY <1>1, <1>2, <1>3

\* Adding a new request to a finite set of charges adds one to its size.
LEMMA AddCharge ==
    ASSUME NEW S \in SUBSET Requests, NEW r \in Requests, r \notin S
    PROVE  Cardinality(S \cup {r}) = Cardinality(S) + 1
  BY FS_Subset, FS_AddElement

\* Removing a request from a finite set of charges takes one from its size.
LEMMA RemoveCharge ==
    ASSUME NEW S \in SUBSET Requests, NEW r \in S
    PROVE  Cardinality(S) = Cardinality(S \ {r}) + 1
  <1>1. S \ {r} \in SUBSET Requests /\ r \notin S \ {r} /\ r \in Requests
    OBVIOUS
  <1>2. (S \ {r}) \cup {r} = S
    OBVIOUS
  <1>3. QED
    BY <1>1, <1>2, AddCharge

-----------------------------------------------------------------------------
(* Conservation under the two writes of a host and under everything else.  *)

\* A step that moves no charge and changes no balance, credit or cap keeps
\* both conservation laws.
LEMMA ConservedFrame ==
    ASSUME CreditsConserved, CapConserved,
           UNCHANGED <<accounts, keys, credited, cap, charge>>,
           \A r \in Requests : charge[r] = "held" =>
               req'[r].key = req[r].key /\ req'[r].secret = req[r].secret
    PROVE  CreditsConserved' /\ CapConserved'
  <1>1. \A a : HeldOn(a)' = HeldOn(a)
    BY DEF HeldOn
  <1>2. \A s : HeldBy(s)' = HeldBy(s)
    BY DEF HeldBy
  <1>3. QED
    BY <1>1, <1>2 DEF CreditsConserved, CapConserved

\* A debit that commits moves exactly one InvokeCost from the balance, and
\* from the cap of a capped key, into the standing charges.
LEMMA ConservedDebit ==
    ASSUME LedgerInv, NEW r \in Requests, req[r].pc = "debit", CommitDebit(r),
           req' \in [Requests -> Request],
           \A q \in Requests :
               req'[q].key = req[q].key /\ req'[q].secret = req[q].secret
    PROVE  CreditsConserved' /\ CapConserved'
  <1> DEFINE s0 == req[r].secret
             a0 == req[r].key.account_id
             cp == req[r].key.capped
  <1>1. /\ charge[r] = "none"
        /\ s0 \in Secrets /\ a0 \in Accounts /\ cp \in BOOLEAN
        /\ Agrees(req[r].key, s0)
    BY DEF LedgerInv, ChargeFollowsPC, RequestKeyAgrees, KeyRecord
  <1>2. charge' = [charge EXCEPT ![r] = "held"] /\ charge \in [Requests -> {"none", "held", "returned"}]
    BY DEF CommitDebit, LedgerInv, InvokeTypeOK
  <1>3. ASSUME NEW a \in Accounts
        PROVE  HeldOn(a)' = IF a = a0 THEN HeldOn(a) \cup {r} ELSE HeldOn(a)
    BY <1>2 DEF HeldOn
  <1>4. ASSUME NEW s \in Secrets
        PROVE  HeldBy(s)' = IF s = s0 THEN HeldBy(s) \cup {r} ELSE HeldBy(s)
    BY <1>2 DEF HeldBy
  <1>5. CreditsConserved'
    <2> SUFFICES ASSUME NEW a \in Accounts
                 PROVE  IF accounts'[a] = Absent
                          THEN credited'[a] = 0 /\ HeldOn(a)' = {}
                          ELSE accounts'[a] + InvokeCost * Cardinality(HeldOn(a)')
                                 = credited'[a]
      BY DEF CreditsConserved
    <2>1. /\ accounts[a0] # Absent /\ accounts[a0] >= InvokeCost
          /\ accounts' = [accounts EXCEPT ![a0] = @ - InvokeCost]
          /\ credited' = credited
          /\ accounts \in [Accounts -> Nat \cup {Absent}]
      BY DEF CommitDebit, DebitTx, history, LedgerInv, InvokeTypeOK, StoreTypeOK
    <2>2. IF accounts[a] = Absent
            THEN credited[a] = 0 /\ HeldOn(a) = {}
            ELSE accounts[a] + InvokeCost * Cardinality(HeldOn(a)) = credited[a]
      BY DEF LedgerInv, CreditsConserved
    <2>3. CASE a # a0
      BY <2>1, <2>2, <2>3, <1>1, <1>3
    <2>4. CASE a = a0
      <3>1. r \notin HeldOn(a) /\ HeldOn(a) \in SUBSET Requests
        BY <1>1 DEF HeldOn
      <3>2. Cardinality(HeldOn(a)') = Cardinality(HeldOn(a)) + 1
        BY <3>1, <1>3, <2>4, AddCharge
      <3>3. Cardinality(HeldOn(a)) \in Nat
        BY HeldFinite
      <3>4. InvokeCost * Cardinality(HeldOn(a)') = InvokeCost * Cardinality(HeldOn(a)) + InvokeCost
            /\ InvokeCost * Cardinality(HeldOn(a)) \in Nat
        BY <3>2, <3>3, TimesSucc
      <3>5. accounts[a] \in Nat /\ accounts'[a] = accounts[a] - InvokeCost /\ accounts'[a] # Absent
        BY <2>1, <2>4, <1>1
      <3>6. QED
        BY <3>4, <3>5, <2>1, <2>2
    <2>5. QED
      BY <2>3, <2>4
  <1>6. CapConserved'
    <2> SUFFICES ASSUME NEW s \in Secrets, keys'[s] # Absent, keys'[s].capped
                 PROVE  keys'[s].cap_remaining + InvokeCost * Cardinality(HeldBy(s)')
                          = cap'[s]
      BY DEF CapConserved
    <2>1. /\ keys[s0] # Absent /\ keys[s0].capped = cp
          /\ cp => keys[s0].cap_remaining >= InvokeCost
          /\ keys' = IF cp
                       THEN [keys EXCEPT ![s0].cap_remaining = @ - InvokeCost]
                       ELSE [keys EXCEPT ![s0].revoked = FALSE]
          /\ cap' = cap
          /\ keys \in [Secrets -> KeyRecord \cup {Absent}]
      BY DEF CommitDebit, DebitTx, history, LedgerInv, InvokeTypeOK, StoreTypeOK
    <2>2. keys[s] # Absent /\ keys[s].capped =>
            keys[s].cap_remaining + InvokeCost * Cardinality(HeldBy(s)) = cap[s]
      BY DEF LedgerInv, CapConserved
    <2>3. CASE s # s0
      BY <2>1, <2>2, <2>3, <1>1, <1>4
    <2>4. CASE s = s0
      <3>1. r \notin HeldBy(s) /\ HeldBy(s) \in SUBSET Requests
        BY <1>1 DEF HeldBy
      <3>2. Cardinality(HeldBy(s)') = Cardinality(HeldBy(s)) + 1
        BY <3>1, <1>4, <2>4, AddCharge
      <3>3. Cardinality(HeldBy(s)) \in Nat
        BY HeldFinite
      <3>4. InvokeCost * Cardinality(HeldBy(s)') = InvokeCost * Cardinality(HeldBy(s)) + InvokeCost
            /\ InvokeCost * Cardinality(HeldBy(s)) \in Nat
        BY <3>2, <3>3, TimesSucc
      <3>5. keys[s] \in KeyRecord
        BY <2>1, <2>4, <1>1
      <3>6. cp
        BY <2>1, <2>4, <1>1, <3>5 DEF KeyRecord
      <3>7. /\ keys[s].capped
            /\ keys[s].cap_remaining \in Nat
            /\ keys'[s].cap_remaining = keys[s].cap_remaining - InvokeCost
        BY <2>1, <2>4, <1>1, <3>5, <3>6 DEF KeyRecord
      <3>8. QED
        BY <3>4, <3>7, <2>1, <2>2, <2>4
    <2>5. QED
      BY <2>3, <2>4
  <1>7. QED
    BY <1>5, <1>6

\* A refund that commits moves the same InvokeCost back.
LEMMA ConservedRefund ==
    ASSUME LedgerInv, NEW r \in Requests, req[r].pc = "refund", CommitRefund(r),
           \A q \in Requests :
               req'[q].key = req[q].key /\ req'[q].secret = req[q].secret
    PROVE  CreditsConserved' /\ CapConserved'
  <1> DEFINE s0 == req[r].secret
             a0 == req[r].key.account_id
             cp == req[r].key.capped
  <1>1. /\ charge[r] = "held"
        /\ s0 \in Secrets /\ a0 \in Accounts /\ cp \in BOOLEAN
        /\ Agrees(req[r].key, s0)
    BY DEF LedgerInv, ChargeFollowsPC, RequestKeyAgrees, KeyRecord
  <1>2. /\ charge' = [charge EXCEPT ![r] = "returned"]
        /\ charge \in [Requests -> {"none", "held", "returned"}]
    BY DEF CommitRefund, LedgerInv, InvokeTypeOK
  <1>3. ASSUME NEW a \in Accounts
        PROVE  HeldOn(a)' = IF a = a0 THEN HeldOn(a) \ {r} ELSE HeldOn(a)
    BY <1>2 DEF HeldOn
  <1>4. ASSUME NEW s \in Secrets
        PROVE  HeldBy(s)' = IF s = s0 THEN HeldBy(s) \ {r} ELSE HeldBy(s)
    BY <1>2 DEF HeldBy
  <1>5. CreditsConserved'
    <2> SUFFICES ASSUME NEW a \in Accounts
                 PROVE  IF accounts'[a] = Absent
                          THEN credited'[a] = 0 /\ HeldOn(a)' = {}
                          ELSE accounts'[a] + InvokeCost * Cardinality(HeldOn(a)')
                                 = credited'[a]
      BY DEF CreditsConserved
    <2>1. /\ accounts[a0] # Absent
          /\ accounts' = [accounts EXCEPT ![a0] = @ + InvokeCost]
          /\ credited' = credited
          /\ accounts \in [Accounts -> Nat \cup {Absent}]
      BY DEF CommitRefund, RefundTx, history, LedgerInv, InvokeTypeOK, StoreTypeOK
    <2>2. IF accounts[a] = Absent
            THEN credited[a] = 0 /\ HeldOn(a) = {}
            ELSE accounts[a] + InvokeCost * Cardinality(HeldOn(a)) = credited[a]
      BY DEF LedgerInv, CreditsConserved
    <2>3. CASE a # a0
      BY <2>1, <2>2, <2>3, <1>1, <1>3
    <2>4. CASE a = a0
      <3>1. r \in HeldOn(a) /\ HeldOn(a) \in SUBSET Requests
        BY <1>1, <2>4 DEF HeldOn
      <3>2. Cardinality(HeldOn(a)) = Cardinality(HeldOn(a)') + 1
        BY <3>1, <1>3, <2>4, RemoveCharge
      <3>3. Cardinality(HeldOn(a)') \in Nat
        BY <3>1, <1>3, <2>4, FS_Subset, FS_CardinalityType
      <3>4. /\ InvokeCost * Cardinality(HeldOn(a))
                 = InvokeCost * Cardinality(HeldOn(a)') + InvokeCost
            /\ InvokeCost * Cardinality(HeldOn(a)') \in Nat
        BY <3>2, <3>3, TimesSucc
      <3>5. /\ accounts[a] \in Nat
            /\ accounts'[a] = accounts[a] + InvokeCost
            /\ accounts'[a] # Absent
        BY <2>1, <2>4, <1>1
      <3>6. QED
        BY <3>4, <3>5, <2>1, <2>2
    <2>5. QED
      BY <2>3, <2>4
  <1>6. CapConserved'
    <2> SUFFICES ASSUME NEW s \in Secrets, keys'[s] # Absent, keys'[s].capped
                 PROVE  keys'[s].cap_remaining + InvokeCost * Cardinality(HeldBy(s)')
                          = cap'[s]
      BY DEF CapConserved
    <2>1. /\ keys[s0] # Absent /\ keys[s0].capped = cp
          /\ keys' = IF cp
                       THEN [keys EXCEPT ![s0].cap_remaining = @ + InvokeCost]
                       ELSE keys
          /\ cap' = cap
          /\ keys \in [Secrets -> KeyRecord \cup {Absent}]
      BY <1>1 DEF CommitRefund, RefundTx, history, LedgerInv, InvokeTypeOK,
                  StoreTypeOK, Agrees
    <2>2. keys[s] # Absent /\ keys[s].capped =>
            keys[s].cap_remaining + InvokeCost * Cardinality(HeldBy(s)) = cap[s]
      BY DEF LedgerInv, CapConserved
    <2>3. CASE s # s0
      BY <2>1, <2>2, <2>3, <1>1, <1>4
    <2>4. CASE s = s0
      <3>1. r \in HeldBy(s) /\ HeldBy(s) \in SUBSET Requests
        BY <1>1, <2>4 DEF HeldBy
      <3>2. Cardinality(HeldBy(s)) = Cardinality(HeldBy(s)') + 1
        BY <3>1, <1>4, <2>4, RemoveCharge
      <3>3. Cardinality(HeldBy(s)') \in Nat
        BY <3>1, <1>4, <2>4, FS_Subset, FS_CardinalityType
      <3>4. /\ InvokeCost * Cardinality(HeldBy(s))
                 = InvokeCost * Cardinality(HeldBy(s)') + InvokeCost
            /\ InvokeCost * Cardinality(HeldBy(s)') \in Nat
        BY <3>2, <3>3, TimesSucc
      <3>5. keys[s] \in KeyRecord
        BY <2>1, <2>4, <1>1
      <3>6. cp
        BY <2>1, <2>4, <1>1, <3>5 DEF KeyRecord
      <3>7. /\ keys[s].capped
            /\ keys[s].cap_remaining \in Nat
            /\ keys'[s].cap_remaining = keys[s].cap_remaining + InvokeCost
        BY <2>1, <2>4, <1>1, <3>5, <3>6 DEF KeyRecord
      <3>8. QED
        BY <3>4, <3>7, <2>1, <2>2, <2>4
    <2>5. QED
      BY <2>3, <2>4
  <1>7. QED
    BY <1>5, <1>6

-----------------------------------------------------------------------------
(* LedgerInv holds initially and is preserved by every step.               *)

\* The empty tables and idle requests satisfy the inductive invariant.
LEMMA LedgerInvInit == Init => LedgerInv
  <1> SUFFICES ASSUME Init PROVE LedgerInv
    OBVIOUS
  <1>1. InvokeTypeOK
    BY DEF Init, StoreInit, InvokeTypeOK, StoreTypeOK, Request, PC, Results
  <1>2. ReplicaAgrees /\ KeyHasAccount
    BY DEF Init, StoreInit, ReplicaAgrees, KeyHasAccount
  <1>3. RequestHasBearer /\ RequestKeyAgrees /\ ChargeFollowsPC
    BY DEF Init, RequestHasBearer, RequestKeyAgrees, ChargeFollowsPC
  <1>4. CreditsConserved
    BY DEF Init, StoreInit, CreditsConserved, HeldOn
  <1>5. CapConserved
    BY DEF Init, StoreInit, CapConserved
  <1>6. RefusedNotCharged /\ UnearnedChargeExplained
    BY DEF Init, RefusedNotCharged, UnearnedChargeExplained
  <1>7. QED
    BY <1>1, <1>2, <1>3, <1>4, <1>5, <1>6 DEF LedgerInv

\* A handler step that touches neither the tables nor the charges only has to
\* leave its own request in order.
LEMMA LocalStep ==
    ASSUME LedgerInv, NEW r \in Requests, NEW x \in Request, NoEffect,
           req' = [req EXCEPT ![r] = x],
           charge[r] # "none" => x.key = req[r].key /\ x.secret = req[r].secret,
           x.pc \in {"read_key", "reread_key"} => x.secret \in Secrets,
           x.pc \in {"read_account", "debit", "reread_account", "refund"}
             => x.secret \in Secrets /\ x.key \in KeyRecord /\ Agrees(x.key, x.secret),
           x.pc \in {"idle", "read_key", "read_account", "debit",
                    "reread_key", "reread_account"}
             => charge[r] = "none" /\ ~entered[r],
           x.pc \in {"read_key", "read_account", "debit",
                    "reread_key", "reread_account"}
             => InvokeCost > 0,
           x.pc = "load" => charge[r] = "none" /\ InvokeCost = 0 /\ ~entered[r],
           x.pc # "guest",
           x.pc = "refund" => /\ charge[r] = "held" /\ ~entered[r]
                              /\ InvokeCost > 0 /\ x.result \in FailedBeforeGuest,
           x.pc = "done" /\ x.result \in {"Unauthorized", "InsufficientCredits"}
             => charge[r] = "none",
           x.pc = "done" /\ charge[r] = "held" /\ ~entered[r]
             => x.result \in {"Storage", "PayloadTooLarge", "Invoke", "Trap", "Timeout"}
    PROVE  LedgerInv'
  <1>0. /\ UNCHANGED <<accounts, keys, receipts, accountsReplica, keysReplica,
                       receiptsReplica, credited, cap, charge, entered>>
        /\ req \in [Requests -> Request]
        /\ \A q \in Requests : req'[q] = IF q = r THEN x ELSE req[q]
    BY DEF NoEffect, storeVars, LedgerInv, InvokeTypeOK
  <1>1. InvokeTypeOK'
    BY <1>0 DEF LedgerInv, InvokeTypeOK, StoreTypeOK
  <1>2. ReplicaAgrees' /\ KeyHasAccount'
    BY <1>0 DEF LedgerInv, ReplicaAgrees, KeyHasAccount, Agrees
  <1>3. RequestHasBearer'
    BY <1>0 DEF LedgerInv, RequestHasBearer
  <1>4. RequestKeyAgrees'
    BY <1>0 DEF LedgerInv, RequestKeyAgrees, Agrees
  <1>5. ChargeFollowsPC'
    BY <1>0 DEF LedgerInv, ChargeFollowsPC
  <1>6. CreditsConserved' /\ CapConserved'
    <2>1. \A q \in Requests : charge[q] = "held" =>
             req'[q].key = req[q].key /\ req'[q].secret = req[q].secret
      BY <1>0
    <2>2. QED
      BY <2>1, <1>0, ConservedFrame DEF LedgerInv
  <1>7. RefusedNotCharged' /\ UnearnedChargeExplained'
    BY <1>0 DEF LedgerInv, RefusedNotCharged, UnearnedChargeExplained
  <1>8. QED
    BY <1>1, <1>2, <1>3, <1>4, <1>5, <1>6, <1>7 DEF LedgerInv

\* A step that answers a request, or moves it on, in terms of LocalStep.
LEMMA AnswerIsLocal ==
    ASSUME LedgerInv, NEW r \in Requests, NEW res \in Results, Answer(r, res)
    PROVE  LET x == [req[r] EXCEPT !.pc = "done", !.result = res]
           IN  /\ x \in Request
               /\ req' = [req EXCEPT ![r] = x]
               /\ x.pc = "done" /\ x.result = res
               /\ x.key = req[r].key /\ x.secret = req[r].secret
  BY DEF LedgerInv, InvokeTypeOK, Answer, Request, PC

\* The same for a step that only moves the program counter.
LEMMA GoToIsLocal ==
    ASSUME LedgerInv, NEW r \in Requests, NEW p \in PC, GoTo(r, p)
    PROVE  LET x == [req[r] EXCEPT !.pc = p]
           IN  /\ x \in Request
               /\ req' = [req EXCEPT ![r] = x]
               /\ x.pc = p /\ x.result = req[r].result
               /\ x.key = req[r].key /\ x.secret = req[r].secret
  BY DEF LedgerInv, InvokeTypeOK, GoTo, Request, PC

\* Answering without touching the ledger is safe when the answer fits the
\* charge.
LEMMA AnswerSafe ==
    ASSUME LedgerInv, NEW r \in Requests, NEW res \in Results,
           Answer(r, res), NoEffect,
           res \in {"Unauthorized", "InsufficientCredits"} => charge[r] = "none",
           charge[r] = "held" /\ ~entered[r] =>
               res \in {"Storage", "PayloadTooLarge", "Invoke", "Trap", "Timeout"}
    PROVE  LedgerInv'
  <1> DEFINE x == [req[r] EXCEPT !.pc = "done", !.result = res]
  <1>1. /\ x \in Request
        /\ req' = [req EXCEPT ![r] = x]
        /\ x.pc = "done" /\ x.result = res
        /\ x.key = req[r].key /\ x.secret = req[r].secret
    BY AnswerIsLocal
  <1> HIDE DEF x
  <1>2. QED
    BY <1>1, LocalStep

\* execute(): taking the bearer, or skipping it when invokes are free.
LEMMA ExecuteInv ==
    ASSUME LedgerInv, NEW r \in Requests, Execute(r)
    PROVE  LedgerInv'
  <1>1. NoEffect /\ req[r].pc = "idle" /\ charge[r] = "none" /\ ~entered[r]
    BY DEF Execute, LedgerInv, ChargeFollowsPC
  <1>2. CASE InvokeCost = 0 /\ GoTo(r, "load")
    <2> DEFINE x == [req[r] EXCEPT !.pc = "load"]
    <2>1. /\ x \in Request
          /\ req' = [req EXCEPT ![r] = x]
          /\ x.pc = "load"
          /\ x.key = req[r].key /\ x.secret = req[r].secret
      BY <1>2, GoToIsLocal DEF PC
    <2> HIDE DEF x
    <2>2. QED
      BY <1>1, <1>2, <2>1, LocalStep
  <1>3. CASE Answer(r, "Unauthorized")
    BY <1>1, <1>3, AnswerSafe DEF Results
  <1>4. ASSUME NEW s \in Secrets, InvokeCost # 0,
               req' = [req EXCEPT ![r].pc = "read_key", ![r].secret = s]
        PROVE  LedgerInv'
    <2> DEFINE x == [req[r] EXCEPT !.pc = "read_key", !.secret = s]
    <2>1. /\ x \in Request
          /\ req' = [req EXCEPT ![r] = x]
          /\ x.pc = "read_key" /\ x.secret = s
      BY <1>4 DEF LedgerInv, InvokeTypeOK, Request, PC
    <2> HIDE DEF x
    <2>2. InvokeCost > 0
      BY <1>4
    <2>3. QED
      BY <1>1, <2>1, <2>2, LocalStep
  <1>5. QED
    BY <1>2, <1>3, <1>4 DEF Execute

\* debit(): the key row read, also from a lagging replica, agrees with the table.
LEMMA DebitReadKeyInv ==
    ASSUME LedgerInv, NEW r \in Requests, DebitReadKey(r)
    PROVE  LedgerInv'
  <1>1. /\ NoEffect /\ req[r].pc \in {"read_key", "reread_key"}
        /\ charge[r] = "none" /\ ~entered[r] /\ req[r].secret \in Secrets
        /\ InvokeCost > 0
    BY DEF DebitReadKey, LedgerInv, ChargeFollowsPC, RequestHasBearer
  <1>2. CASE Answer(r, "Storage")
    BY <1>1, <1>2, AnswerSafe DEF Results, LoadErrors, FailedBeforeGuest
  <1>3. CASE Answer(r, "Unauthorized")
    BY <1>1, <1>3, AnswerSafe DEF Results
  <1>4. ASSUME NEW row \in ReadKey(req[r].secret), row # Absent,
               NEW p \in {"read_account", "reread_account"},
               req' = [req EXCEPT ![r].pc = p, ![r].key = row]
        PROVE  LedgerInv'
    <2> DEFINE x == [req[r] EXCEPT !.pc = p, !.key = row]
    <2>1. row \in KeyRecord /\ Agrees(row, req[r].secret)
      BY <1>1, <1>4 DEF ReadKey, LedgerInv, InvokeTypeOK, StoreTypeOK,
                        ReplicaAgrees, Agrees
    <2>2. /\ x \in Request
          /\ req' = [req EXCEPT ![r] = x]
          /\ x.pc = p /\ x.key = row /\ x.secret = req[r].secret
      BY <1>4, <2>1 DEF LedgerInv, InvokeTypeOK, Request, PC
    <2> HIDE DEF x
    <2>3. QED
      BY <1>1, <2>1, <2>2, LocalStep
  <1>5. CASE \E row \in ReadKey(req[r].secret) :
              /\ row # Absent
              /\ \E p \in {"read_account", "reread_account"} :
                   req' = [req EXCEPT ![r].pc = p, ![r].key = row]
    BY <1>4, <1>5
  <1>6. QED
    BY <1>2, <1>3, <1>5 DEF DebitReadKey

\* debit(): reading the balance and denying a short one charges nothing.
LEMMA DebitReadAccountInv ==
    ASSUME LedgerInv, NEW r \in Requests, DebitReadAccount(r)
    PROVE  LedgerInv'
  <1>1. /\ NoEffect /\ req[r].pc \in {"read_account", "reread_account"}
        /\ charge[r] = "none" /\ ~entered[r] /\ InvokeCost > 0
        /\ req[r].secret \in Secrets /\ req[r].key \in KeyRecord
        /\ Agrees(req[r].key, req[r].secret)
    BY DEF DebitReadAccount, LedgerInv, ChargeFollowsPC, RequestKeyAgrees
  <1>2. CASE Answer(r, "Storage")
    BY <1>1, <1>2, AnswerSafe DEF Results, LoadErrors, FailedBeforeGuest
  <1>3. CASE Answer(r, "InsufficientCredits")
    BY <1>1, <1>3, AnswerSafe DEF Results
  <1>4. CASE GoTo(r, "debit")
    <2> DEFINE x == [req[r] EXCEPT !.pc = "debit"]
    <2>1. /\ x \in Request
          /\ req' = [req EXCEPT ![r] = x]
          /\ x.pc = "debit"
          /\ x.key = req[r].key /\ x.secret = req[r].secret
      BY <1>4, GoToIsLocal DEF PC
    <2> HIDE DEF x
    <2>2. QED
      BY <1>1, <2>1, LocalStep
  <1>5. QED
    BY <1>2, <1>3, <1>4 DEF DebitReadAccount

\* The debit write, whether the handler learns of it, loses its answer or is
\* gone by then.
LEMMA CommitDebitSafe ==
    ASSUME LedgerInv, NEW r \in Requests, req[r].pc = "debit", InvokeCost > 0,
           CommitDebit(r), NEW x \in Request, req' = [req EXCEPT ![r] = x],
           x.key = req[r].key, x.secret = req[r].secret,
           x.pc \in {"load", "done", "gone"},
           x.pc = "done" => x.result = "Storage"
    PROVE  LedgerInv'
  <1> DEFINE s0 == req[r].secret
             a0 == req[r].key.account_id
             cp == req[r].key.capped
  <1>1. /\ charge[r] = "none" /\ ~entered[r]
        /\ s0 \in Secrets /\ a0 \in Accounts /\ cp \in BOOLEAN
        /\ req[r].key \in KeyRecord
        /\ Agrees(req[r].key, s0)
    BY DEF LedgerInv, ChargeFollowsPC, RequestKeyAgrees, KeyRecord
  <1>2. /\ req \in [Requests -> Request]
        /\ charge \in [Requests -> {"none", "held", "returned"}]
        /\ charge' = [charge EXCEPT ![r] = "held"]
        /\ entered' = entered
        /\ \A q \in Requests : req'[q] = IF q = r THEN x ELSE req[q]
    BY DEF CommitDebit, LedgerInv, InvokeTypeOK
  <1>3. /\ accounts \in [Accounts -> Nat \cup {Absent}]
        /\ keys \in [Secrets -> KeyRecord \cup {Absent}]
        /\ accounts[a0] # Absent /\ accounts[a0] >= InvokeCost
        /\ accounts' = [accounts EXCEPT ![a0] = @ - InvokeCost]
        /\ keys[s0] # Absent /\ ~keys[s0].revoked /\ keys[s0].capped = cp
        /\ cp => keys[s0].cap_remaining >= InvokeCost
        /\ keys' = IF cp
                     THEN [keys EXCEPT ![s0].cap_remaining = @ - InvokeCost]
                     ELSE [keys EXCEPT ![s0].revoked = FALSE]
        /\ UNCHANGED <<receipts, accountsReplica, keysReplica, receiptsReplica,
                       credited, cap>>
    BY DEF CommitDebit, DebitTx, history, replicas, LedgerInv, InvokeTypeOK,
           StoreTypeOK
  <1>4. accounts[a0] \in Nat /\ accounts' \in [Accounts -> Nat \cup {Absent}]
        /\ \A a \in Accounts : accounts[a] # Absent => accounts'[a] # Absent
    BY <1>1, <1>3
  <1>5. /\ keys' \in [Secrets -> KeyRecord \cup {Absent}]
        /\ \A s \in Secrets :
             /\ keys'[s] # Absent <=> keys[s] # Absent
             /\ keys[s] # Absent =>
                  /\ keys'[s].account_id = keys[s].account_id
                  /\ keys'[s].capped = keys[s].capped
    <2>1. keys[s0] \in KeyRecord
      BY <1>1, <1>3
    <2>2. CASE cp
      BY <1>1, <1>3, <2>1, <2>2 DEF KeyRecord
    <2>3. CASE ~cp
      BY <1>1, <1>3, <2>1, <2>3 DEF KeyRecord
    <2>4. QED
      BY <2>2, <2>3
  <1> HIDE DEF s0, a0, cp
  <1>6. InvokeTypeOK'
    BY <1>2, <1>3, <1>4, <1>5 DEF LedgerInv, InvokeTypeOK, StoreTypeOK
  <1>7. ReplicaAgrees' /\ KeyHasAccount'
    BY <1>3, <1>4, <1>5 DEF LedgerInv, ReplicaAgrees, KeyHasAccount, Agrees,
                             InvokeTypeOK, StoreTypeOK, KeyRecord
  <1>8. RequestHasBearer'
    BY <1>2 DEF LedgerInv, RequestHasBearer
  <1>9. RequestKeyAgrees'
    <2>1. \A s \in Secrets : \A row : Agrees(row, s) => Agrees(row, s)'
      BY <1>5 DEF Agrees
    <2>2. QED
      BY <1>1, <1>2, <2>1 DEF LedgerInv, RequestKeyAgrees, s0, Agrees
  <1>10. ChargeFollowsPC'
    BY <1>1, <1>2 DEF LedgerInv, ChargeFollowsPC
  <1>11. CreditsConserved' /\ CapConserved'
    <2>1. /\ req' \in [Requests -> Request]
          /\ \A q \in Requests :
               req'[q].key = req[q].key /\ req'[q].secret = req[q].secret
      BY <1>2
    <2>2. QED
      BY <2>1, ConservedDebit
  <1>12. RefusedNotCharged' /\ UnearnedChargeExplained'
    BY <1>2 DEF LedgerInv, RefusedNotCharged, UnearnedChargeExplained
  <1>13. QED
    BY <1>6, <1>7, <1>8, <1>9, <1>10, <1>11, <1>12 DEF LedgerInv

\* The refund write, in the same three situations.
LEMMA CommitRefundSafe ==
    ASSUME LedgerInv, NEW r \in Requests, req[r].pc = "refund",
           CommitRefund(r), NEW x \in Request, req' = [req EXCEPT ![r] = x],
           x.key = req[r].key, x.secret = req[r].secret,
           x.pc \in {"done", "gone"},
           x.result \in FailedBeforeGuest
    PROVE  LedgerInv'
  <1> DEFINE s0 == req[r].secret
             a0 == req[r].key.account_id
             cp == req[r].key.capped
  <1>1. /\ charge[r] = "held" /\ ~entered[r] /\ InvokeCost > 0
        /\ s0 \in Secrets /\ a0 \in Accounts /\ cp \in BOOLEAN
        /\ req[r].key \in KeyRecord
        /\ Agrees(req[r].key, s0)
    BY DEF LedgerInv, ChargeFollowsPC, RequestKeyAgrees, KeyRecord
  <1>2. /\ req \in [Requests -> Request]
        /\ charge \in [Requests -> {"none", "held", "returned"}]
        /\ charge' = [charge EXCEPT ![r] = "returned"]
        /\ entered' = entered
        /\ \A q \in Requests : req'[q] = IF q = r THEN x ELSE req[q]
    BY DEF CommitRefund, LedgerInv, InvokeTypeOK
  <1>3. /\ accounts \in [Accounts -> Nat \cup {Absent}]
        /\ keys \in [Secrets -> KeyRecord \cup {Absent}]
        /\ accounts[a0] # Absent
        /\ accounts' = [accounts EXCEPT ![a0] = @ + InvokeCost]
        /\ keys[s0] # Absent
        /\ keys' = IF cp
                     THEN [keys EXCEPT ![s0].cap_remaining = @ + InvokeCost]
                     ELSE keys
        /\ UNCHANGED <<receipts, accountsReplica, keysReplica, receiptsReplica,
                       credited, cap>>
    BY <1>1 DEF CommitRefund, RefundTx, history, replicas, LedgerInv,
                InvokeTypeOK, StoreTypeOK, Agrees
  <1>4. accounts[a0] \in Nat /\ accounts' \in [Accounts -> Nat \cup {Absent}]
        /\ \A a \in Accounts : accounts[a] # Absent => accounts'[a] # Absent
    BY <1>1, <1>3
  <1>5. /\ keys' \in [Secrets -> KeyRecord \cup {Absent}]
        /\ \A s \in Secrets :
             /\ keys'[s] # Absent <=> keys[s] # Absent
             /\ keys[s] # Absent =>
                  /\ keys'[s].account_id = keys[s].account_id
                  /\ keys'[s].capped = keys[s].capped
    <2>1. keys[s0] \in KeyRecord
      BY <1>1, <1>3
    <2>2. CASE cp
      BY <1>1, <1>3, <2>1, <2>2 DEF KeyRecord
    <2>3. CASE ~cp
      BY <1>1, <1>3, <2>1, <2>3 DEF KeyRecord
    <2>4. QED
      BY <2>2, <2>3
  <1> HIDE DEF s0, a0, cp
  <1>6. InvokeTypeOK'
    BY <1>2, <1>3, <1>4, <1>5 DEF LedgerInv, InvokeTypeOK, StoreTypeOK
  <1>7. ReplicaAgrees' /\ KeyHasAccount'
    BY <1>3, <1>4, <1>5 DEF LedgerInv, ReplicaAgrees, KeyHasAccount, Agrees,
                             InvokeTypeOK, StoreTypeOK, KeyRecord
  <1>8. RequestHasBearer'
    BY <1>2 DEF LedgerInv, RequestHasBearer
  <1>9. RequestKeyAgrees'
    <2>1. \A s \in Secrets : \A row : Agrees(row, s) => Agrees(row, s)'
      BY <1>5 DEF Agrees
    <2>2. QED
      BY <1>1, <1>2, <2>1 DEF LedgerInv, RequestKeyAgrees, s0, Agrees
  <1>10. ChargeFollowsPC'
    BY <1>1, <1>2 DEF LedgerInv, ChargeFollowsPC
  <1>11. CreditsConserved' /\ CapConserved'
    <2>1. \A q \in Requests :
               req'[q].key = req[q].key /\ req'[q].secret = req[q].secret
      BY <1>2
    <2>2. QED
      BY <2>1, ConservedRefund
  <1>12. RefusedNotCharged' /\ UnearnedChargeExplained'
    BY <1>2 DEF LedgerInv, RefusedNotCharged, UnearnedChargeExplained,
                FailedBeforeGuest
  <1>13. QED
    BY <1>6, <1>7, <1>8, <1>9, <1>10, <1>11, <1>12 DEF LedgerInv

\* debit(): committed, cancelled, or with its answer lost.
LEMMA DebitInv ==
    ASSUME LedgerInv, NEW r \in Requests, Debit(r)
    PROVE  LedgerInv'
  <1>1. /\ req[r].pc = "debit" /\ InvokeCost > 0
        /\ charge[r] = "none" /\ ~entered[r] /\ req[r].secret \in Secrets
    BY DEF Debit, LedgerInv, ChargeFollowsPC, RequestKeyAgrees
  <1>2. CASE GoTo(r, "load") /\ CommitDebit(r)
    <2> DEFINE x == [req[r] EXCEPT !.pc = "load"]
    <2>1. /\ x \in Request
          /\ req' = [req EXCEPT ![r] = x]
          /\ x.pc = "load"
          /\ x.key = req[r].key /\ x.secret = req[r].secret
      BY <1>2, GoToIsLocal DEF PC
    <2> HIDE DEF x
    <2>2. QED
      BY <1>1, <1>2, <2>1, CommitDebitSafe
  <1>3. CASE GoTo(r, "reread_key") /\ NoEffect
    <2> DEFINE x == [req[r] EXCEPT !.pc = "reread_key"]
    <2>1. /\ x \in Request
          /\ req' = [req EXCEPT ![r] = x]
          /\ x.pc = "reread_key"
          /\ x.key = req[r].key /\ x.secret = req[r].secret
      BY <1>3, GoToIsLocal DEF PC
    <2> HIDE DEF x
    <2>2. QED
      BY <1>1, <1>3, <2>1, LocalStep
  <1>4. CASE Answer(r, "Storage") /\ CommitDebit(r)
    <2> DEFINE x == [req[r] EXCEPT !.pc = "done", !.result = "Storage"]
    <2>1. /\ x \in Request
          /\ req' = [req EXCEPT ![r] = x]
          /\ x.pc = "done" /\ x.result = "Storage"
          /\ x.key = req[r].key /\ x.secret = req[r].secret
      BY <1>4, AnswerIsLocal DEF Results, LoadErrors, FailedBeforeGuest
    <2> HIDE DEF x
    <2>2. QED
      BY <1>1, <1>4, <2>1, CommitDebitSafe
  <1>5. CASE Answer(r, "Storage") /\ NoEffect
    BY <1>1, <1>5, AnswerSafe DEF Results, LoadErrors, FailedBeforeGuest
  <1>6. QED
    BY <1>2, <1>3, <1>4, <1>5 DEF Debit

\* A load failure leads to the refund or keeps the charge for a named reason.
LEMMA LoadFailsInv ==
    ASSUME LedgerInv, NEW r \in Requests, LoadFails(r)
    PROVE  LedgerInv'
  <1>1. PICK err \in LoadErrors : Finish(r, err)
    BY DEF LoadFails
  <1>2. /\ req[r].pc = "load" /\ NoEffect /\ ~entered[r]
        /\ charge[r] = (IF InvokeCost > 0 THEN "held" ELSE "none")
        /\ err \in Results
    BY DEF LoadFails, LedgerInv, ChargeFollowsPC, Results
  <1>3. CASE err \in FailedBeforeGuest /\ InvokeCost > 0
    <2> DEFINE x == [req[r] EXCEPT !.pc = "refund", !.result = err]
    <2>1. /\ x \in Request
          /\ req' = [req EXCEPT ![r] = x]
          /\ x.pc = "refund" /\ x.result = err
          /\ x.key = req[r].key /\ x.secret = req[r].secret
      BY <1>1, <1>2, <1>3 DEF Finish, LedgerInv, InvokeTypeOK, Request, PC
    <2>2. /\ req[r].secret \in Secrets /\ req[r].key \in KeyRecord
          /\ Agrees(req[r].key, req[r].secret)
      BY <1>2, <1>3 DEF LedgerInv, RequestKeyAgrees
    <2> HIDE DEF x
    <2>3. QED
      BY <1>2, <1>3, <2>1, <2>2, LocalStep
  <1>4. CASE ~(err \in FailedBeforeGuest /\ InvokeCost > 0)
    <2>1. Answer(r, err)
      BY <1>1, <1>4 DEF Finish
    <2>2. charge[r] = "held" => err \in {"PayloadTooLarge", "Invoke", "Trap", "Timeout"}
      BY <1>2, <1>4 DEF LoadErrors, FailedBeforeGuest
    <2>3. err \notin {"Unauthorized", "InsufficientCredits"}
      BY DEF LoadErrors
    <2>4. QED
      BY <1>2, <2>1, <2>2, <2>3, AnswerSafe
  <1>5. QED
    BY <1>3, <1>4

\* The guest is entered only on a standing charge, or for free.
LEMMA EnterGuestInv ==
    ASSUME LedgerInv, NEW r \in Requests, EnterGuest(r)
    PROVE  LedgerInv'
  <1> DEFINE x == [req[r] EXCEPT !.pc = "guest"]
  <1>1. /\ x \in Request
        /\ req' = [req EXCEPT ![r] = x]
        /\ x.pc = "guest" /\ x.result = req[r].result
        /\ x.key = req[r].key /\ x.secret = req[r].secret
    BY GoToIsLocal DEF EnterGuest, PC
  <1> HIDE DEF x
  <1>2. /\ UNCHANGED <<accounts, keys, receipts, accountsReplica, keysReplica,
                       receiptsReplica, credited, cap, charge>>
        /\ entered' = [entered EXCEPT ![r] = TRUE]
        /\ entered \in [Requests -> BOOLEAN]
        /\ req[r].pc = "load"
        /\ req \in [Requests -> Request]
        /\ \A q \in Requests : req'[q] = IF q = r THEN x ELSE req[q]
    BY <1>1 DEF EnterGuest, storeVars, LedgerInv, InvokeTypeOK
  <1>3. InvokeTypeOK'
    BY <1>1, <1>2 DEF LedgerInv, InvokeTypeOK, StoreTypeOK
  <1>4. ReplicaAgrees' /\ KeyHasAccount'
    BY <1>2 DEF LedgerInv, ReplicaAgrees, KeyHasAccount, Agrees
  <1>5. RequestHasBearer'
    BY <1>1, <1>2 DEF LedgerInv, RequestHasBearer
  <1>6. RequestKeyAgrees'
    BY <1>1, <1>2 DEF LedgerInv, RequestKeyAgrees, Agrees
  <1>7. ChargeFollowsPC'
    BY <1>1, <1>2 DEF LedgerInv, ChargeFollowsPC
  <1>8. CreditsConserved' /\ CapConserved'
    <2>1. \A q \in Requests : charge[q] = "held" =>
             req'[q].key = req[q].key /\ req'[q].secret = req[q].secret
      BY <1>1, <1>2
    <2>2. QED
      BY <2>1, <1>2, ConservedFrame DEF LedgerInv
  <1>9. RefusedNotCharged' /\ UnearnedChargeExplained'
    BY <1>1, <1>2 DEF LedgerInv, RefusedNotCharged, UnearnedChargeExplained
  <1>10. QED
    BY <1>3, <1>4, <1>5, <1>6, <1>7, <1>8, <1>9 DEF LedgerInv

\* How a guest ends never leads to the refund.
LEMMA GuestEndsInv ==
    ASSUME LedgerInv, NEW r \in Requests, GuestEnds(r)
    PROVE  LedgerInv'
  <1>1. PICK result \in GuestOutcomes : Finish(r, result)
    BY DEF GuestEnds
  <1>2. NoEffect /\ entered[r] /\ result \in Results
    BY DEF GuestEnds, LedgerInv, ChargeFollowsPC, Results
  <1>3. /\ result \notin FailedBeforeGuest
        /\ result \notin {"Unauthorized", "InsufficientCredits"}
    BY DEF GuestOutcomes, FailedBeforeGuest
  <1>4. Answer(r, result)
    BY <1>1, <1>3 DEF Finish
  <1>5. QED
    BY <1>2, <1>3, <1>4, AnswerSafe

\* refund(): committed, with its answer lost, or failed.
LEMMA RefundInv ==
    ASSUME LedgerInv, NEW r \in Requests, Refund(r)
    PROVE  LedgerInv'
  <1>1. /\ req[r].pc = "refund" /\ charge[r] = "held" /\ ~entered[r]
        /\ req[r].result \in FailedBeforeGuest
    BY DEF Refund, LedgerInv, ChargeFollowsPC
  <1>2. CASE GoTo(r, "done") /\ CommitRefund(r)
    <2> DEFINE x == [req[r] EXCEPT !.pc = "done"]
    <2>1. /\ x \in Request
          /\ req' = [req EXCEPT ![r] = x]
          /\ x.pc = "done" /\ x.result = req[r].result
          /\ x.key = req[r].key /\ x.secret = req[r].secret
      BY <1>2, GoToIsLocal DEF PC
    <2> HIDE DEF x
    <2>2. QED
      BY <1>1, <1>2, <2>1, CommitRefundSafe
  <1>3. CASE Answer(r, "Storage") /\ CommitRefund(r)
    <2> DEFINE x == [req[r] EXCEPT !.pc = "done", !.result = "Storage"]
    <2>1. /\ x \in Request
          /\ req' = [req EXCEPT ![r] = x]
          /\ x.pc = "done" /\ x.result = "Storage"
          /\ x.key = req[r].key /\ x.secret = req[r].secret
      BY <1>3, AnswerIsLocal DEF Results, LoadErrors, FailedBeforeGuest
    <2>2. "Storage" \in FailedBeforeGuest
      BY DEF FailedBeforeGuest
    <2> HIDE DEF x
    <2>3. QED
      BY <1>1, <1>3, <2>1, <2>2, CommitRefundSafe
  <1>4. CASE Answer(r, "Storage") /\ NoEffect
    BY <1>1, <1>4, AnswerSafe DEF Results, LoadErrors, FailedBeforeGuest
  <1>5. QED
    BY <1>2, <1>3, <1>4 DEF Refund

\* A dropped request, with the write it had in flight committed or not.
LEMMA DropInv ==
    ASSUME LedgerInv, NEW r \in Requests, Drop(r)
    PROVE  LedgerInv'
  <1> DEFINE x == [req[r] EXCEPT !.pc = "gone"]
  <1>1. /\ x \in Request
        /\ req' = [req EXCEPT ![r] = x]
        /\ x.pc = "gone" /\ x.result = req[r].result
        /\ x.key = req[r].key /\ x.secret = req[r].secret
    BY GoToIsLocal DEF Drop, PC
  <1> HIDE DEF x
  <1>2. CASE NoEffect
    BY <1>1, <1>2, LocalStep
  <1>3. CASE req[r].pc = "debit" /\ CommitDebit(r)
    <2>1. InvokeCost > 0
      BY <1>3 DEF LedgerInv, ChargeFollowsPC
    <2>2. QED
      BY <1>1, <1>3, <2>1, CommitDebitSafe
  <1>4. CASE req[r].pc = "refund" /\ CommitRefund(r)
    <2>1. req[r].result \in FailedBeforeGuest
      BY <1>4 DEF LedgerInv, ChargeFollowsPC
    <2>2. QED
      BY <1>1, <1>4, <2>1, CommitRefundSafe
  <1>5. QED
    BY <1>2, <1>3, <1>4 DEF Drop

\* A write of an API task keeps every request in order as long as no key row
\* loses or changes its immutable fields.
LEMMA ApiFrame ==
    ASSUME LedgerInv, UNCHANGED invokeVars, StoreTypeOK',
           \A s \in Secrets : \A row : Agrees(row, s) => Agrees(row, s)'
    PROVE  /\ InvokeTypeOK' /\ RequestHasBearer' /\ RequestKeyAgrees'
           /\ ChargeFollowsPC' /\ RefusedNotCharged' /\ UnearnedChargeExplained'
           /\ \A a : HeldOn(a)' = HeldOn(a)
           /\ \A s : HeldBy(s)' = HeldBy(s)
  <1>1. req' = req /\ charge' = charge /\ entered' = entered
    BY DEF invokeVars
  <1>2. InvokeTypeOK'
    BY <1>1 DEF LedgerInv, InvokeTypeOK
  <1>3. RequestHasBearer'
    BY <1>1 DEF LedgerInv, RequestHasBearer
  <1>4. RequestKeyAgrees'
    BY <1>1 DEF LedgerInv, RequestKeyAgrees
  <1>5. ChargeFollowsPC' /\ RefusedNotCharged' /\ UnearnedChargeExplained'
    BY <1>1 DEF LedgerInv, ChargeFollowsPC, RefusedNotCharged,
                UnearnedChargeExplained
  <1>6. (\A a : HeldOn(a)' = HeldOn(a)) /\ (\A s : HeldBy(s)' = HeldBy(s))
    BY <1>1 DEF HeldOn, HeldBy
  <1>7. QED
    BY <1>2, <1>3, <1>4, <1>5, <1>6

\* No charge stands on a key that does not exist.
LEMMA NoChargeWithoutKey ==
    ASSUME LedgerInv, NEW s \in Secrets, keys[s] = Absent
    PROVE  HeldBy(s) = {}
  BY DEF LedgerInv, RequestKeyAgrees, Agrees, HeldBy

\* A new account holds no credits and no charge stands on it.
LEMMA CreateInv ==
    ASSUME LedgerInv, ApiCreate
    PROVE  LedgerInv'
  <1>1. PICK a0 \in Accounts, s0 \in Secrets : CreateTx(a0, s0)
    BY DEF ApiCreate
  <1> DEFINE k == NewKey(a0, FALSE, 0)
  <1>2. /\ accounts[a0] = Absent /\ keys[s0] = Absent
        /\ accounts' = [accounts EXCEPT ![a0] = 0]
        /\ keys' = [keys EXCEPT ![s0] = k]
        /\ UNCHANGED <<receipts, accountsReplica, keysReplica, receiptsReplica,
                       credited, cap>>
        /\ k \in KeyRecord /\ k.account_id = a0 /\ k.capped = FALSE
    BY <1>1 DEF CreateTx, replicas, history, NewKey, KeyRecord
  <1> HIDE DEF k
  <1>3. StoreTypeOK /\ UNCHANGED invokeVars
    BY DEF LedgerInv, InvokeTypeOK, ApiCreate
  <1>4. StoreTypeOK'
    BY <1>2, <1>3 DEF StoreTypeOK
  <1>5. \A s \in Secrets : \A row : Agrees(row, s) => Agrees(row, s)'
    BY <1>2, <1>3 DEF StoreTypeOK, Agrees
  <1>6. ReplicaAgrees'
    BY <1>2, <1>3, <1>5 DEF LedgerInv, ReplicaAgrees
  <1>7. KeyHasAccount'
    BY <1>2, <1>3 DEF LedgerInv, KeyHasAccount, StoreTypeOK, KeyRecord
  <1>8. CreditsConserved'
    <2>1. \A a \in Accounts : HeldOn(a)' = HeldOn(a)
      BY <1>3, <1>4, <1>5, ApiFrame
    <2>2. HeldOn(a0) = {} /\ credited[a0] = 0
      BY <1>2 DEF LedgerInv, CreditsConserved
    <2>3. InvokeCost * Cardinality(HeldOn(a0)) = 0
      BY <2>2, FS_EmptySet
    <2>4. accounts'[a0] = 0 /\ \A a \in Accounts \ {a0} : accounts'[a] = accounts[a]
      BY <1>2, <1>3 DEF StoreTypeOK
    <2>5. accounts'[a0] + InvokeCost * Cardinality(HeldOn(a0)') = credited'[a0]
      <3>1. HeldOn(a0)' = HeldOn(a0) /\ credited' = credited
        BY <1>2, <2>1
      <3>2. accounts'[a0] + InvokeCost * Cardinality(HeldOn(a0)') = 0 + 0
        BY <2>3, <2>4, <3>1
      <3>3. QED
        BY <2>2, <3>1, <3>2
    <2>6. accounts'[a0] # Absent
      BY <2>4
    <2>7. QED
      BY <1>2, <2>1, <2>4, <2>5, <2>6 DEF LedgerInv, CreditsConserved
  <1>9. CapConserved'
    <2>1. \A s \in Secrets : HeldBy(s)' = HeldBy(s)
      BY <1>3, <1>4, <1>5, ApiFrame
    <2>2. QED
      BY <1>2, <1>3, <2>1 DEF LedgerInv, CapConserved, StoreTypeOK
  <1>10. QED
    BY <1>3, <1>4, <1>5, <1>6, <1>7, <1>8, <1>9, ApiFrame DEF LedgerInv

\* A new key starts with its whole cap and nothing held by it.
LEMMA IssueKeyInv ==
    ASSUME LedgerInv, ApiIssueKey
    PROVE  LedgerInv'
  <1>1. PICK a0 \in Accounts, s0 \in Secrets, cp \in BOOLEAN, c \in Nat :
            accounts[a0] # Absent /\ PutKeyTx(a0, s0, cp, c)
    BY DEF ApiIssueKey
  <1> DEFINE k == NewKey(a0, cp, c)
  <1>2. /\ keys[s0] = Absent
        /\ keys' = [keys EXCEPT ![s0] = k]
        /\ cap' = [cap EXCEPT ![s0] = c]
        /\ UNCHANGED <<accounts, receipts, accountsReplica, keysReplica,
                       receiptsReplica, credited>>
        /\ k \in KeyRecord /\ k.account_id = a0 /\ k.cap_remaining = c
    BY <1>1 DEF PutKeyTx, replicas, NewKey, KeyRecord
  <1> HIDE DEF k
  <1>3. StoreTypeOK /\ UNCHANGED invokeVars
    BY DEF LedgerInv, InvokeTypeOK, ApiIssueKey
  <1>4. StoreTypeOK'
    BY <1>2, <1>3 DEF StoreTypeOK
  <1>5. \A s \in Secrets : \A row : Agrees(row, s) => Agrees(row, s)'
    BY <1>2, <1>3 DEF StoreTypeOK, Agrees
  <1>6. ReplicaAgrees'
    BY <1>2, <1>3, <1>5 DEF LedgerInv, ReplicaAgrees
  <1>7. KeyHasAccount'
    BY <1>1, <1>2, <1>3 DEF LedgerInv, KeyHasAccount, StoreTypeOK, KeyRecord
  <1>8. CreditsConserved'
    <2>1. \A a \in Accounts : HeldOn(a)' = HeldOn(a)
      BY <1>3, <1>4, <1>5, ApiFrame
    <2>2. QED
      BY <1>2, <2>1 DEF LedgerInv, CreditsConserved
  <1>9. CapConserved'
    <2>1. \A s \in Secrets : HeldBy(s)' = HeldBy(s)
      BY <1>3, <1>4, <1>5, ApiFrame
    <2>2. InvokeCost * Cardinality(HeldBy(s0)) = 0
      <3>1. HeldBy(s0) = {}
        BY <1>2, NoChargeWithoutKey
      <3>2. Cardinality(HeldBy(s0)) = 0
        BY <3>1, FS_EmptySet
      <3>3. QED
        BY <3>2
    <2>3. QED
      BY <1>2, <1>3, <2>1, <2>2 DEF LedgerInv, CapConserved, StoreTypeOK
  <1>10. QED
    BY <1>3, <1>4, <1>5, <1>6, <1>7, <1>8, <1>9, ApiFrame DEF LedgerInv

\* Revoking a key moves no credits and leaves its immutable fields alone.
LEMMA RevokeInv ==
    ASSUME LedgerInv, ApiRevoke
    PROVE  LedgerInv'
  <1>1. PICK a0 \in Accounts, s0 \in Secrets : RevokeTx(a0, s0)
    BY DEF ApiRevoke
  <1>2. /\ keys[s0] # Absent
        /\ keys' = [keys EXCEPT ![s0].revoked = TRUE]
        /\ UNCHANGED <<accounts, receipts, accountsReplica, keysReplica,
                       receiptsReplica, credited, cap>>
    BY <1>1 DEF RevokeTx, replicas, history
  <1>3. StoreTypeOK /\ UNCHANGED invokeVars
    BY DEF LedgerInv, InvokeTypeOK, ApiRevoke
  <1>4. /\ keys' \in [Secrets -> KeyRecord \cup {Absent}]
        /\ \A s \in Secrets :
             /\ keys'[s] # Absent <=> keys[s] # Absent
             /\ keys[s] # Absent =>
                  /\ keys'[s].account_id = keys[s].account_id
                  /\ keys'[s].capped = keys[s].capped
                  /\ keys'[s].cap_remaining = keys[s].cap_remaining
    <2>1. keys[s0] \in KeyRecord /\ keys \in [Secrets -> KeyRecord \cup {Absent}]
      BY <1>2, <1>3 DEF StoreTypeOK
    <2>2. QED
      BY <1>2, <2>1 DEF KeyRecord
  <1>5. StoreTypeOK'
    BY <1>2, <1>3, <1>4 DEF StoreTypeOK
  <1>6. \A s \in Secrets : \A row : Agrees(row, s) => Agrees(row, s)'
    BY <1>4 DEF Agrees
  <1>7. ReplicaAgrees' /\ KeyHasAccount'
    BY <1>2, <1>4, <1>6 DEF LedgerInv, ReplicaAgrees, KeyHasAccount
  <1>8. CreditsConserved' /\ CapConserved'
    <2>1. (\A a : HeldOn(a)' = HeldOn(a)) /\ (\A s : HeldBy(s)' = HeldBy(s))
      BY <1>3, <1>5, <1>6, ApiFrame
    <2>2. QED
      BY <1>2, <1>4, <2>1 DEF LedgerInv, CreditsConserved, CapConserved
  <1>9. QED
    BY <1>3, <1>5, <1>6, <1>7, <1>8, ApiFrame DEF LedgerInv

\* A payment adds to the balance what it adds to the credits.
LEMMA CreditInv ==
    ASSUME LedgerInv, ApiCredit
    PROVE  LedgerInv'
  <1>1. PICK a0 \in Accounts, n0 \in Nonces, i \in InvokeCounts :
            CreditTx(a0, i, n0)
    BY DEF ApiCredit
  <1>2. /\ accounts[a0] # Absent
        /\ accounts' = [accounts EXCEPT ![a0] = @ + i]
        /\ receipts' = [receipts EXCEPT
                         ![n0] = [account_id |-> a0, invokes |-> i]]
        /\ credited' = [credited EXCEPT ![a0] = @ + i]
        /\ UNCHANGED <<keys, accountsReplica, keysReplica, receiptsReplica, cap>>
        /\ i \in Nat
    BY <1>1 DEF CreditTx, replicas
  <1>3. StoreTypeOK /\ UNCHANGED invokeVars
    BY DEF LedgerInv, InvokeTypeOK, ApiCredit
  <1>4. StoreTypeOK'
    BY <1>2, <1>3 DEF StoreTypeOK, Receipt
  <1>5. \A s \in Secrets : \A row : Agrees(row, s) => Agrees(row, s)'
    BY <1>2 DEF Agrees
  <1>6. ReplicaAgrees'
    BY <1>2, <1>5 DEF LedgerInv, ReplicaAgrees
  <1>7. KeyHasAccount'
    BY <1>2, <1>3 DEF LedgerInv, KeyHasAccount, StoreTypeOK, KeyRecord
  <1>8. CreditsConserved'
    <2>1. \A a \in Accounts : HeldOn(a)' = HeldOn(a)
      BY <1>3, <1>4, <1>5, ApiFrame
    <2> SUFFICES ASSUME NEW a \in Accounts
                 PROVE  IF accounts'[a] = Absent
                          THEN credited'[a] = 0 /\ HeldOn(a)' = {}
                          ELSE accounts'[a] + InvokeCost * Cardinality(HeldOn(a)')
                                 = credited'[a]
      BY DEF CreditsConserved
    <2>2. CASE a = a0
      <3>1. /\ accounts[a] \in Nat /\ credited[a] \in Nat
            /\ accounts'[a] = accounts[a] + i
            /\ credited'[a] = credited[a] + i
            /\ accounts'[a] # Absent
        BY <1>2, <1>3, <2>2 DEF StoreTypeOK
      <3>2. InvokeCost * Cardinality(HeldOn(a)) \in Nat
        BY HeldFinite, TimesSucc
      <3>3. accounts[a] + InvokeCost * Cardinality(HeldOn(a)) = credited[a]
        BY <1>2, <2>2 DEF LedgerInv, CreditsConserved
      <3>4. QED
        BY <1>2, <2>1, <3>1, <3>2, <3>3
    <2>3. CASE a # a0
      BY <1>2, <1>3, <2>1, <2>3 DEF LedgerInv, CreditsConserved, StoreTypeOK
    <2>4. QED
      BY <2>2, <2>3
  <1>9. CapConserved'
    <2>1. \A s \in Secrets : HeldBy(s)' = HeldBy(s)
      BY <1>3, <1>4, <1>5, ApiFrame
    <2>2. QED
      BY <1>2, <2>1 DEF LedgerInv, CapConserved
  <1>10. QED
    BY <1>3, <1>4, <1>5, <1>6, <1>7, <1>8, <1>9, ApiFrame DEF LedgerInv

\* A replica that catches up copies a row of its table.
LEMMA CatchUpInv ==
    ASSUME LedgerInv, CatchUp
    PROVE  LedgerInv'
  <1>1. /\ UNCHANGED <<accounts, keys, receipts, credited, cap>>
        /\ UNCHANGED invokeVars /\ StoreTypeOK
    BY DEF CatchUp, ReplicateAccount, ReplicateKey, tables, history, LedgerInv, InvokeTypeOK
  <1>2. StoreTypeOK'
    BY <1>1 DEF CatchUp, ReplicateAccount, ReplicateKey, StoreTypeOK
  <1>3. \A s \in Secrets : \A row : Agrees(row, s) => Agrees(row, s)'
    BY <1>1 DEF Agrees
  <1>4. ReplicaAgrees'
    <2>1. \A s \in Secrets : keysReplica'[s] \in {keys[s], keysReplica[s]}
      BY <1>1 DEF CatchUp, ReplicateAccount, ReplicateKey, StoreTypeOK
    <2>2. QED
      BY <1>1, <2>1 DEF LedgerInv, ReplicaAgrees, Agrees
  <1>5. KeyHasAccount'
    BY <1>1 DEF LedgerInv, KeyHasAccount
  <1>6. CreditsConserved' /\ CapConserved'
    <2>1. (\A a : HeldOn(a)' = HeldOn(a)) /\ (\A s : HeldBy(s)' = HeldBy(s))
      BY <1>1, <1>2, <1>3, ApiFrame
    <2>2. QED
      BY <1>1, <2>1 DEF LedgerInv, CreditsConserved, CapConserved
  <1>7. QED
    BY <1>1, <1>2, <1>3, <1>4, <1>5, <1>6, ApiFrame DEF LedgerInv

\* Every step of every host, API task and replica preserves LedgerInv.
LEMMA LedgerInvNext == LedgerInv /\ [Next]_vars => LedgerInv'
  <1> SUFFICES ASSUME LedgerInv, [Next]_vars PROVE LedgerInv'
    OBVIOUS
  <1>1. ASSUME NEW r \in Requests, HostStep(r) PROVE LedgerInv'
    BY <1>1, ExecuteInv, DebitReadKeyInv, DebitReadAccountInv, DebitInv,
       LoadFailsInv, EnterGuestInv, GuestEndsInv, RefundInv DEF HostStep
  <1>2. ASSUME NEW r \in Requests, Drop(r) PROVE LedgerInv'
    BY <1>2, DropInv
  <1>3. CASE ApiCreate \/ ApiIssueKey \/ ApiRevoke \/ ApiCredit \/ CatchUp
    BY <1>3, CreateInv, IssueKeyInv, RevokeInv, CreditInv, CatchUpInv
  <1>4. CASE UNCHANGED vars
    <2>1. UNCHANGED invokeVars /\ UNCHANGED storeVars
      BY <1>4 DEF vars
    <2>2. QED
      BY <2>1 DEF invokeVars, storeVars, LedgerInv, InvokeTypeOK, StoreTypeOK,
         ReplicaAgrees, KeyHasAccount, RequestHasBearer, RequestKeyAgrees,
         Agrees, ChargeFollowsPC, CreditsConserved, CapConserved, HeldOn,
         HeldBy, RefusedNotCharged, UnearnedChargeExplained
  <1>5. QED
    BY <1>1, <1>2, <1>3, <1>4 DEF Next

\* The inductive invariant holds in every reachable state.
THEOREM LedgerInvariant == Spec => []LedgerInv
  BY LedgerInvInit, LedgerInvNext, PTL DEF Spec

\* Types of the tables and of the hosts' request state.
THEOREM TypeCorrect == Spec => []InvokeTypeOK
  <1>1. LedgerInv => InvokeTypeOK
    BY DEF LedgerInv
  <1>2. QED
    BY <1>1, LedgerInvariant, PTL

\* However debits, refunds and credits interleave, fail and are retried, an
\* account holds exactly what was credited less the charges that stand.
THEOREM Conservation == Spec => []CreditsConserved
  <1>1. LedgerInv => CreditsConserved
    BY DEF LedgerInv
  <1>2. QED
    BY <1>1, LedgerInvariant, PTL

\* A capped key never spends beyond its cap.
THEOREM CapRespected == Spec => []CapConserved
  <1>1. LedgerInv => CapConserved
    BY DEF LedgerInv
  <1>2. QED
    BY <1>1, LedgerInvariant, PTL

\* No guest runs without a standing debit.
THEOREM NoFreeGuest == Spec => []GuestIsPaid
  <1>1. LedgerInv => GuestIsPaid
    BY DEF LedgerInv, ChargeFollowsPC, GuestIsPaid
  <1>2. QED
    BY <1>1, LedgerInvariant, PTL

\* The holder of the presented key pays, although the host read the key from a
\* replica before the debit.
THEOREM PayerIsKeyHolder == Spec => []KeyHolderPays
  <1>1. LedgerInv => KeyHolderPays
    BY DEF LedgerInv, RequestKeyAgrees, Agrees, KeyHolderPays
  <1>2. QED
    BY <1>1, LedgerInvariant, PTL

\* A refused caller was not charged; a charge without a guest has one of three
\* causes.
THEOREM ChargesExplained == Spec => [](RefusedNotCharged /\ UnearnedChargeExplained)
  <1>1. LedgerInv => RefusedNotCharged /\ UnearnedChargeExplained
    BY DEF LedgerInv
  <1>2. QED
    BY <1>1, LedgerInvariant, PTL

-----------------------------------------------------------------------------
(* What one step can do to the ledger.                                     *)

\* A request keeps the key and the bearer it was charged with.
ChargedRequestsKept ==
    \A q \in Requests : charge[q] # "none" =>
        req'[q].key = req[q].key /\ req'[q].secret = req[q].secret

\* Key and bearer of every request are kept.
RequestsKept ==
    \A q \in Requests :
        req'[q].key = req[q].key /\ req'[q].secret = req[q].secret

\* A host step leaves the ledger alone, enters a guest, or is the commit of one
\* debit or one refund.
LEMMA HostStepKinds ==
    ASSUME LedgerInv, NEW r \in Requests, HostStep(r) \/ Drop(r)
    PROVE  \/ NoEffect /\ ChargedRequestsKept
           \/ EnterGuest(r) /\ RequestsKept
           \/ req[r].pc = "debit" /\ CommitDebit(r) /\ RequestsKept
           \/ req[r].pc = "refund" /\ CommitRefund(r) /\ RequestsKept
  <1> USE DEF RequestsKept, ChargedRequestsKept
  <1>1. req \in [Requests -> Request]
    BY DEF LedgerInv, InvokeTypeOK
  <1>2. ASSUME NEW p, GoTo(r, p) PROVE RequestsKept
    BY <1>1, <1>2 DEF GoTo, Request
  <1>3. ASSUME NEW res, Answer(r, res) PROVE RequestsKept
    BY <1>1, <1>3 DEF Answer, Request
  <1>4. ASSUME NEW res, Finish(r, res) PROVE RequestsKept
    BY <1>1, <1>3, <1>4 DEF Finish, Request
  <1>5. CASE Execute(r)
    <2>1. charge[r] = "none" /\ NoEffect
      BY <1>5 DEF Execute, LedgerInv, ChargeFollowsPC
    <2>2. \A q \in Requests \ {r} : req'[q] = req[q]
      BY <1>1, <1>5 DEF Execute, GoTo, Answer
    <2>3. QED
      BY <2>1, <2>2
  <1>6. CASE DebitReadKey(r)
    <2>1. charge[r] = "none" /\ NoEffect
      BY <1>6 DEF DebitReadKey, LedgerInv, ChargeFollowsPC
    <2>2. \A q \in Requests \ {r} : req'[q] = req[q]
      BY <1>1, <1>6 DEF DebitReadKey, Answer
    <2>3. QED
      BY <2>1, <2>2
  <1>7. CASE DebitReadAccount(r)
    BY <1>2, <1>3, <1>7 DEF DebitReadAccount
  <1>8. CASE Debit(r)
    BY <1>2, <1>3, <1>8 DEF Debit
  <1>9. CASE LoadFails(r) \/ GuestEnds(r)
    BY <1>4, <1>9 DEF LoadFails, GuestEnds
  <1>10. CASE EnterGuest(r)
    BY <1>2, <1>10 DEF EnterGuest
  <1>11. CASE Refund(r)
    BY <1>2, <1>3, <1>11 DEF Refund
  <1>12. CASE Drop(r)
    BY <1>2, <1>12 DEF Drop
  <1>13. QED
    BY <1>5, <1>6, <1>7, <1>8, <1>9, <1>10, <1>11, <1>12 DEF HostStep

\* One step of the system and a key that was revoked before it.
LEMMA RevocationStep ==
    ASSUME LedgerInv, [Next]_vars,
           NEW s \in Secrets, keys[s] # Absent, keys[s].revoked
    PROVE  keys'[s].revoked /\ HeldBy(s)' \subseteq HeldBy(s)
  <1>1. /\ req \in [Requests -> Request]
        /\ charge \in [Requests -> {"none", "held", "returned"}]
        /\ keys \in [Secrets -> KeyRecord \cup {Absent}]
        /\ keys[s] \in KeyRecord
    BY DEF LedgerInv, InvokeTypeOK, StoreTypeOK
  <1>2. ASSUME NEW r \in Requests, HostStep(r) \/ Drop(r)
        PROVE  keys'[s].revoked /\ HeldBy(s)' \subseteq HeldBy(s)
    <2>1. CASE (NoEffect /\ ChargedRequestsKept) \/ (EnterGuest(r) /\ RequestsKept)
      BY <2>1 DEF NoEffect, EnterGuest, storeVars, HeldBy, ChargedRequestsKept,
                  RequestsKept
    <2>2. CASE req[r].pc = "debit" /\ CommitDebit(r) /\ RequestsKept
      <3>1. /\ req[r].secret \in Secrets /\ req[r].secret # s
            /\ req[r].key.capped \in BOOLEAN
        BY <2>2 DEF LedgerInv, RequestKeyAgrees, KeyRecord, CommitDebit, DebitTx
      <3>2. keys'[s] = keys[s]
        BY <1>1, <2>2, <3>1 DEF CommitDebit, DebitTx
      <3>3. HeldBy(s)' \subseteq HeldBy(s)
        BY <1>1, <2>2, <3>1 DEF CommitDebit, HeldBy, RequestsKept
      <3>4. QED
        BY <3>2, <3>3
    <2>3. CASE req[r].pc = "refund" /\ CommitRefund(r) /\ RequestsKept
      <3>1. req[r].secret \in Secrets /\ keys[req[r].secret] \in KeyRecord
        BY <1>1, <2>3 DEF LedgerInv, RequestKeyAgrees, Agrees
      <3>2. keys'[s].revoked
        BY <1>1, <2>3, <3>1 DEF CommitRefund, RefundTx, KeyRecord
      <3>3. HeldBy(s)' \subseteq HeldBy(s)
        BY <1>1, <2>3 DEF CommitRefund, HeldBy, RequestsKept
      <3>4. QED
        BY <3>2, <3>3
    <2>4. QED
      BY <1>2, <2>1, <2>2, <2>3, HostStepKinds
  <1>3. CASE ApiCreate \/ ApiIssueKey \/ ApiRevoke \/ ApiCredit \/ CatchUp
    <2>1. HeldBy(s)' = HeldBy(s)
      BY <1>3 DEF ApiCreate, ApiIssueKey, ApiRevoke, ApiCredit, CatchUp,
                  invokeVars, HeldBy
    <2>2. keys'[s] = keys[s] \/ keys' = [keys EXCEPT ![s].revoked = TRUE]
      BY <1>1, <1>3 DEF ApiCreate, CreateTx, ApiIssueKey, PutKeyTx, ApiRevoke,
                  RevokeTx, ApiCredit, CreditTx, CatchUp, ReplicateAccount, ReplicateKey, tables
    <2>3. keys'[s].revoked
      BY <1>1, <2>2 DEF KeyRecord
    <2>4. QED
      BY <2>1, <2>3
  <1>4. CASE UNCHANGED vars
    BY <1>4 DEF vars, storeVars, invokeVars, HeldBy
  <1>5. QED
    BY <1>2, <1>3, <1>4 DEF Next

\* Revocation is immediate and permanent: with stale reads, concurrent debits
\* and the debit that writes revoked = false, no charge starts on a revoked key
\* and no key is brought back.
THEOREM RevocationHolds == Spec => RevocationIsFinal
  <1>1. LedgerInv /\ [Next]_vars =>
          [\A s \in Secrets :
              keys[s] # Absent /\ keys[s].revoked =>
                  /\ keys'[s].revoked
                  /\ HeldBy(s)' \subseteq HeldBy(s)]_vars
    BY RevocationStep
  <1>2. QED
    BY <1>1, LedgerInvariant, PTL DEF Spec, RevocationIsFinal

-----------------------------------------------------------------------------
(* The refinement of CreditEscrow.                                         *)

\* Every step of the system is a step of the escrow or leaves it unchanged.
LEMMA EscrowStep ==
    ASSUME LedgerInv, [Next]_vars
    PROVE  [Escrow!EscrowNext]_(Escrow!escrowVars)
  <1>1. /\ req \in [Requests -> Request]
        /\ charge \in [Requests -> {"none", "held", "returned"}]
        /\ entered \in [Requests -> BOOLEAN]
        /\ accounts \in [Accounts -> Nat \cup {Absent}]
    BY DEF LedgerInv, InvokeTypeOK, StoreTypeOK
  <1>2. ASSUME NEW r \in Requests, HostStep(r) \/ Drop(r)
        PROVE  [Escrow!EscrowNext]_(Escrow!escrowVars)
    <2>1. CASE NoEffect /\ ChargedRequestsKept
      <3>1. /\ accounts' = accounts /\ credited' = credited
            /\ charge' = charge /\ entered' = entered
        BY <2>1 DEF NoEffect, storeVars
      <3>2. escrowState' = escrowState
        BY <3>1 DEF escrowState
      <3>3. escrowPayer' = escrowPayer
        BY <2>1, <3>1 DEF escrowPayer, ChargedRequestsKept
      <3>4. QED
        BY <3>1, <3>2, <3>3 DEF Escrow!escrowVars
    <2>2. CASE EnterGuest(r) /\ RequestsKept
      <3>1. /\ accounts' = accounts /\ credited' = credited /\ charge' = charge
            /\ entered' = [entered EXCEPT ![r] = TRUE]
        BY <2>2 DEF EnterGuest, storeVars
      <3>2. ~entered[r] /\ charge[r] = (IF InvokeCost > 0 THEN "held" ELSE "none")
        BY <2>2 DEF EnterGuest, LedgerInv, ChargeFollowsPC
      <3>3. escrowState' = [escrowState EXCEPT ![r] = "used"]
        BY <1>1, <3>1 DEF escrowState
      <3>4. escrowPayer' = escrowPayer
        BY <2>2, <3>1 DEF escrowPayer, RequestsKept
      <3>5. escrowState[r] = "held" \/ (escrowState[r] = "none" /\ InvokeCost = 0)
        BY <3>2 DEF escrowState
      <3>6. Escrow!Use(r)
        BY <3>1, <3>3, <3>4, <3>5 DEF Escrow!Use
      <3>7. QED
        BY <3>6 DEF Escrow!EscrowNext
    <2>3. CASE req[r].pc = "debit" /\ CommitDebit(r) /\ RequestsKept
      <3> DEFINE a0 == req[r].key.account_id
      <3>1. ~entered[r] /\ charge[r] = "none" /\ a0 \in Accounts
        BY <2>3 DEF LedgerInv, ChargeFollowsPC, RequestKeyAgrees, KeyRecord
      <3>2. /\ accounts[a0] # Absent /\ accounts[a0] >= InvokeCost
            /\ accounts' = [accounts EXCEPT ![a0] = @ - InvokeCost]
            /\ charge' = [charge EXCEPT ![r] = "held"]
            /\ entered' = entered /\ credited' = credited
        BY <2>3 DEF CommitDebit, DebitTx, history
      <3>3. escrowState[r] = "none"
            /\ escrowState' = [escrowState EXCEPT ![r] = "held"]
        BY <1>1, <3>1, <3>2 DEF escrowState
      <3>4. escrowPayer' = [escrowPayer EXCEPT ![r] = a0]
        BY <1>1, <2>3, <3>1, <3>2 DEF escrowPayer, RequestsKept
      <3>5. Escrow!Reserve(r, a0)
        BY <3>2, <3>3, <3>4 DEF Escrow!Reserve
      <3>6. QED
        BY <3>1, <3>5 DEF Escrow!EscrowNext
    <2>4. CASE req[r].pc = "refund" /\ CommitRefund(r) /\ RequestsKept
      <3> DEFINE a0 == req[r].key.account_id
      <3>1. ~entered[r] /\ charge[r] = "held"
        BY <2>4 DEF LedgerInv, ChargeFollowsPC
      <3>2. /\ accounts' = [accounts EXCEPT ![a0] = @ + InvokeCost]
            /\ charge' = [charge EXCEPT ![r] = "returned"]
            /\ entered' = entered /\ credited' = credited
        BY <2>4 DEF CommitRefund, RefundTx, history
      <3>3. escrowState[r] = "held"
            /\ escrowState' = [escrowState EXCEPT ![r] = "returned"]
        BY <1>1, <3>1, <3>2 DEF escrowState
      <3>4. escrowPayer' = escrowPayer /\ escrowPayer[r] = a0
        BY <1>1, <2>4, <3>1, <3>2 DEF escrowPayer, RequestsKept
      <3>5. Escrow!Return(r)
        BY <3>2, <3>3, <3>4 DEF Escrow!Return
      <3>6. QED
        BY <3>5 DEF Escrow!EscrowNext
    <2>5. QED
      BY <1>2, <2>1, <2>2, <2>3, <2>4, HostStepKinds
  <1>3. ASSUME UNCHANGED invokeVars
        PROVE  escrowState' = escrowState /\ escrowPayer' = escrowPayer
    BY <1>3 DEF invokeVars, escrowState, escrowPayer
  <1>4. CASE ApiCreate
    <2>1. PICK a \in Accounts, s \in Secrets : CreateTx(a, s)
      BY <1>4 DEF ApiCreate
    <2>2. Escrow!Open(a)
      BY <1>3, <1>4, <2>1 DEF ApiCreate, CreateTx, Escrow!Open, history
    <2>3. QED
      BY <2>2 DEF Escrow!EscrowNext
  <1>5. CASE ApiCredit
    <2>1. PICK a \in Accounts, n \in Nonces, i \in InvokeCounts : CreditTx(a, i, n)
      BY <1>5 DEF ApiCredit
    <2>2. /\ accounts[a] # Absent
          /\ accounts' = [accounts EXCEPT ![a] = @ + i]
          /\ credited' = [credited EXCEPT ![a] = @ + i]
      BY <1>1, <2>1 DEF CreditTx
    <2>3. Escrow!Deposit(a, i)
      BY <1>3, <1>5, <2>2 DEF ApiCredit, Escrow!Deposit
    <2>4. QED
      BY <2>3 DEF Escrow!EscrowNext
  <1>6. CASE ApiIssueKey \/ ApiRevoke \/ CatchUp
    <2>1. accounts' = accounts /\ credited' = credited /\ UNCHANGED invokeVars
      BY <1>6 DEF ApiIssueKey, PutKeyTx, ApiRevoke, RevokeTx, CatchUp,
                  ReplicateAccount, ReplicateKey, tables, history
    <2>2. QED
      BY <1>3, <2>1 DEF Escrow!escrowVars
  <1>7. CASE UNCHANGED vars
    BY <1>3, <1>7 DEF vars, storeVars, Escrow!escrowVars
  <1>8. QED
    BY <1>2, <1>4, <1>5, <1>6, <1>7 DEF Next

\* The hosts, the API tasks and the tables together implement the escrow: the
\* cost of an invoke is taken before the guest starts and is then either used
\* or returned to the account that paid it, once.
THEOREM ImplementsEscrow == Spec => LedgerIsEscrow
  <1>1. Init => Escrow!EscrowInit
    BY DEF Init, StoreInit, escrowState, escrowPayer, Escrow!EscrowInit
  <1>2. QED
    BY <1>1, EscrowStep, LedgerInvariant, PTL
       DEF Spec, LedgerIsEscrow, Escrow!EscrowSpec
=============================================================================
