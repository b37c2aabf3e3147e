--------------------------- MODULE KeyAdminProofs ---------------------------
(***************************************************************************)
(* Proofs about KeyAdmin for every set of accounts, secrets, payments and  *)
(* requests: the inductive invariant AdminInv and the safety properties    *)
(* that follow from it.                                                    *)
(***************************************************************************)
EXTENDS KeyAdmin, FiniteSetTheorems, TLAPS

USE AbsentAssumption, KeyAdminAssumption

-----------------------------------------------------------------------------
(* The inductive invariant.                                                *)

\* Two rows of one key, an earlier and a later one: whose it is and whether it
\* is capped are fixed when it is issued, and a revocation is never undone.
Earlier(row, later) ==
    /\ later # Absent
    /\ later.account_id = row.account_id /\ later.capped = row.capped
    /\ row.revoked => later.revoked

\* The lagging copy of a key is an earlier row of it.
KeyCopiesLag ==
    \A s \in Secrets : keysReplica[s] # Absent => Earlier(keysReplica[s], keys[s])

PaymentsOf(a) == {n \in Nonces : receipts[n] # Absent /\ receipts[n].account_id = a}

\* No balance, nor a copy of one, is above what was bought for the account.
BalancesBought ==
    \A a \in Accounts :
        /\ IsFiniteSet(PaymentsOf(a))
        /\ accounts[a] # Absent => accounts[a] <= Bought(a)
        /\ accountsReplica[a] # Absent => accountsReplica[a] <= Bought(a)

\* A key that was never written has neither an issuer nor a revoker; behind
\* the others is a key that may administer them.
Lineage ==
    /\ \A s \in Secrets : keys[s] = Absent => issuer[s] = Absent /\ revoker[s] = {}
    /\ UncappedKeyBehindEveryChange

\* The secret of a key of the account.
Bears(s, a) == s # Absent /\ keys[s] # Absent /\ keys[s].account_id = a

Revoked(s) == keys[s] # Absent /\ keys[s].revoked

\* What a request in state r knows: one past its authorization presented an
\* uncapped key of the account; one that reads, a key of the account it reads,
\* and the balance it compares was bought; one past its write has revoked its
\* key.
RequestOK(r) ==
    /\ r.pc = "idle" => r.op = "none"
    /\ r.pc # "done" => r.result = "None"
    /\ r.op \in {"issue", "revoke", "read"} => r.account \in Accounts
    /\ r.op = "revoke" => r.target \in Secrets
    /\ r.pc \in {"put", "before", "find", "revoke", "after"} =>
        /\ r.op = IF r.pc = "put" THEN "issue" ELSE "revoke"
        /\ r.target \in Secrets
        /\ Bears(r.bearer, r.account) /\ ~keys[r.bearer].capped
    /\ r.pc \in {"account", "list"} =>
        r.op \in {"read", "deploy"} /\ r.owner \in Accounts /\ Bears(r.bearer, r.owner)
    /\ r.pc = "list" /\ r.op = "deploy" => r.before \in Nat /\ r.before <= Bought(r.owner)
    /\ r.pc = "after" \/ (r.op = "revoke" /\ r.result \in {"Ok", "BalanceChanged"})
        => Revoked(r.target)
    /\ r.op = "read" /\ r.result = "Ok" => Bears(r.bearer, r.account)
    /\ r.op = "deploy" /\ r.result = "Ok" =>
        \E a \in Accounts : Bears(r.bearer, a) /\ Bought(a) >= MinDeployCredits

AdminInv ==
    /\ AdminTypeOK
    /\ KeyCopiesLag
    /\ BalancesBought
    /\ Lineage
    /\ \A x \in Admins : RequestOK(adm[x])

\* Every key stays what it is, or is revoked.
KeysGrow == \A s \in Secrets : keys[s] # Absent => Earlier(keys[s], keys'[s])

\* Nothing bought is taken back.
BoughtGrows == \A a \in Accounts : Bought(a) <= Bought(a)'

\* What a step leaves of everything but requests.
LedgerKeeps ==
    /\ StoreTypeOK' /\ KeyCopiesLag' /\ BalancesBought' /\ Lineage'
    /\ issuer' \in [Secrets -> Secrets \cup {Absent}]
    /\ revoker' \in [Secrets -> SUBSET Secrets]
    /\ KeysGrow /\ BoughtGrows

-----------------------------------------------------------------------------
(* What a step leaves alone stays right while the ledger only grows.       *)

\* What an account bought is a number.
LEMMA BoughtIsNat ==
    ASSUME BalancesBought, NEW a \in Accounts
    PROVE  Bought(a) \in Nat /\ Bought(a) = AdminCredit * Cardinality(PaymentsOf(a))
  <1>1. Cardinality(PaymentsOf(a)) \in Nat
    BY FS_CardinalityType DEF BalancesBought
  <1>2. Bought(a) = AdminCredit * Cardinality(PaymentsOf(a))
    BY DEF Bought, PaymentsOf
  <1>3. QED
    BY <1>1, <1>2

\* A request that is right stays right while it does not move.
LEMMA RequestKept ==
    ASSUME BalancesBought, LedgerKeeps, NEW r \in Admin, RequestOK(r)
    PROVE  RequestOK(r)'
  <1>1. r.bearer \in Secrets \cup {Absent} /\ r.target \in Secrets \cup {Absent}
    BY DEF Admin
  <1>2. ASSUME NEW a, Bears(r.bearer, a)
        PROVE  /\ Bears(r.bearer, a)'
               /\ ~keys[r.bearer].capped => ~keys'[r.bearer].capped
    BY <1>1, <1>2 DEF Bears, LedgerKeeps, KeysGrow, Earlier
  <1>3. r.target \in Secrets /\ Revoked(r.target) => Revoked(r.target)'
    BY DEF Revoked, LedgerKeeps, KeysGrow, Earlier
  <1>4. ASSUME NEW a \in Accounts
        PROVE  Bought(a) \in Nat /\ Bought(a)' \in Nat /\ Bought(a) <= Bought(a)'
    <2>1. Bought(a) \in Nat
      BY BoughtIsNat
    <2>2. IsFiniteSet(PaymentsOf(a))'
      BY DEF LedgerKeeps, BalancesBought
    <2>3. Cardinality(PaymentsOf(a)') \in Nat
      BY <2>2, FS_CardinalityType
    <2>4. Bought(a)' = AdminCredit * Cardinality(PaymentsOf(a)')
      BY DEF Bought, PaymentsOf
    <2>5. QED
      BY <2>1, <2>3, <2>4 DEF LedgerKeeps, BoughtGrows
  <1>5. r.pc = "list" /\ r.op = "deploy" => r.before \in Nat /\ r.before <= Bought(r.owner)'
    <2> SUFFICES ASSUME r.pc = "list", r.op = "deploy"
                 PROVE  r.before \in Nat /\ r.before <= Bought(r.owner)'
      OBVIOUS
    <2>1. PICK o \in Accounts : o = r.owner
      BY DEF RequestOK
    <2>2. r.before \in Nat /\ r.before <= Bought(o)
      BY <2>1 DEF RequestOK
    <2>3. QED
      BY <1>4, <2>1, <2>2
  <1>6. r.op = "deploy" /\ r.result = "Ok" =>
            \E a \in Accounts : Bears(r.bearer, a)' /\ Bought(a)' >= MinDeployCredits
    <2> SUFFICES ASSUME r.op = "deploy", r.result = "Ok"
                 PROVE  \E a \in Accounts :
                            Bears(r.bearer, a)' /\ Bought(a)' >= MinDeployCredits
      OBVIOUS
    <2>1. PICK a \in Accounts : Bears(r.bearer, a) /\ Bought(a) >= MinDeployCredits
      BY DEF RequestOK
    <2>2. QED
      BY <1>2, <1>4, <2>1
  <1>7. QED
    BY <1>2, <1>3, <1>5, <1>6 DEF RequestOK

\* A step of one request to a state q that is right keeps the invariant if it
\* keeps the ledger.
LEMMA AdminMoves ==
    ASSUME AdminInv, LedgerKeeps, NEW x \in Admins, NEW q \in Admin,
           adm' = [adm EXCEPT ![x] = q], RequestOK(q)'
    PROVE  AdminInv'
  <1>1. adm \in [Admins -> Admin]
    BY DEF AdminInv, AdminTypeOK
  <1>2. adm' \in [Admins -> Admin] /\ adm'[x] = q
        /\ \A y \in Admins : y # x => adm'[y] = adm[y]
    BY <1>1
  <1>3. ASSUME NEW y \in Admins
        PROVE  RequestOK(adm[y])'
    <2>1. PICK r \in Admin : r = adm[y]
      BY <1>1
    <2>2. RequestOK(r)'
      BY <2>1, RequestKept DEF AdminInv
    <2>3. adm'[y] = IF y = x THEN q ELSE r
      BY <1>2, <2>1
    <2>4. QED
      BY <2>2, <2>3
  <1>4. AdminTypeOK'
    BY <1>2 DEF AdminTypeOK, LedgerKeeps
  <1>5. QED
    BY <1>3, <1>4 DEF AdminInv, LedgerKeeps

\* A step of no request keeps the invariant if it keeps the ledger.
LEMMA AdminQuiet ==
    ASSUME AdminInv, LedgerKeeps, UNCHANGED adm
    PROVE  AdminInv'
  <1>1. ASSUME NEW y \in Admins
        PROVE  RequestOK(adm[y])'
    <2>1. PICK r \in Admin : r = adm[y] /\ r = adm'[y]
      BY DEF AdminInv, AdminTypeOK
    <2>2. RequestOK(r)'
      BY <2>1, RequestKept DEF AdminInv
    <2>3. QED
      BY <2>1, <2>2
  <1>2. AdminTypeOK'
    BY DEF AdminTypeOK, AdminInv, LedgerKeeps
  <1>3. QED
    BY <1>1, <1>2 DEF AdminInv, LedgerKeeps

-----------------------------------------------------------------------------
(* The ledger under each write.                                            *)

\* Without a receipt written, what was bought stays.
LEMMA BoughtSame ==
    ASSUME BalancesBought, UNCHANGED receipts
    PROVE  /\ BoughtGrows
           /\ \A a \in Accounts : Bought(a)' = Bought(a) /\ PaymentsOf(a)' = PaymentsOf(a)
  <1>1. \A a \in Accounts : Bought(a)' = Bought(a) /\ PaymentsOf(a)' = PaymentsOf(a)
    BY DEF Bought, PaymentsOf
  <1>2. QED
    BY <1>1, BoughtIsNat DEF BoughtGrows

\* Without a key written, the lineage and the keys stay.
LEMMA KeysSame ==
    ASSUME AdminInv, UNCHANGED <<keys, issuer, revoker>>
    PROVE  /\ Lineage' /\ KeysGrow
           /\ issuer' \in [Secrets -> Secrets \cup {Absent}]
           /\ revoker' \in [Secrets -> SUBSET Secrets]
  <1>1. Lineage'
    BY DEF AdminInv, Lineage, UncappedKeyBehindEveryChange, MayAdminister
  <1>2. KeysGrow
    BY DEF KeysGrow, Earlier
  <1>3. QED
    BY <1>1, <1>2 DEF AdminInv, AdminTypeOK

\* A step that writes nothing.
LEMMA LocalKeeps ==
    ASSUME AdminInv, AdminLocal
    PROVE  LedgerKeeps
  <1>1. UNCHANGED <<accounts, keys, receipts, accountsReplica, keysReplica,
                    receiptsReplica, credited, cap, issuer, revoker>>
    BY DEF AdminLocal, storeVars
  <1>2. BoughtGrows /\ BalancesBought'
    BY <1>1, BoughtSame DEF AdminInv, BalancesBought
  <1>3. StoreTypeOK' /\ KeyCopiesLag'
    BY <1>1 DEF AdminInv, AdminTypeOK, StoreTypeOK, KeyCopiesLag
  <1>4. QED
    BY <1>1, <1>2, <1>3, KeysSame DEF LedgerKeeps

\* A key under a secret that was not taken, issued by nobody or by an uncapped
\* key of the same account.
LEMMA FreshKeyKeeps ==
    ASSUME AdminInv, NEW s \in Secrets, NEW k \in KeyRecord, keys[s] = Absent,
           ~k.revoked, keys' = [keys EXCEPT ![s] = k], UNCHANGED <<keysReplica, revoker>>,
           \/ UNCHANGED issuer
           \/ \E b \in Secrets :
                /\ issuer' = [issuer EXCEPT ![s] = b]
                /\ keys[b] # Absent /\ ~keys[b].capped
                /\ keys[b].account_id = k.account_id
    PROVE  /\ Lineage' /\ KeysGrow /\ KeyCopiesLag'
           /\ keys' \in [Secrets -> KeyRecord \cup {Absent}]
           /\ issuer' \in [Secrets -> Secrets \cup {Absent}]
           /\ revoker' \in [Secrets -> SUBSET Secrets]
  <1>1. /\ keys \in [Secrets -> KeyRecord \cup {Absent}]
        /\ issuer \in [Secrets -> Secrets \cup {Absent}]
        /\ revoker \in [Secrets -> SUBSET Secrets]
    BY DEF AdminInv, AdminTypeOK, StoreTypeOK
  <1>2. /\ keys' \in [Secrets -> KeyRecord \cup {Absent}]
        /\ issuer' \in [Secrets -> Secrets \cup {Absent}]
        /\ revoker' \in [Secrets -> SUBSET Secrets]
    BY <1>1
  <1>3. keys'[s] = k /\ k # Absent /\ \A t \in Secrets : t # s => keys'[t] = keys[t]
    BY <1>1
  <1>4. KeysGrow
    BY <1>3 DEF KeysGrow, Earlier
  <1>5. KeyCopiesLag'
    BY <1>3 DEF AdminInv, KeyCopiesLag, Earlier
  <1>6. issuer[s] = Absent /\ revoker[s] = {} /\ \A t \in Secrets : t # s => issuer'[t] = issuer[t]
    BY <1>1 DEF AdminInv, Lineage
  <1>7. \A t \in Secrets : keys'[t] = Absent => issuer'[t] = Absent /\ revoker'[t] = {}
    BY <1>3, <1>6 DEF AdminInv, Lineage
  <1>8. ASSUME NEW t \in Secrets, keys'[t] # Absent
        PROVE  /\ issuer'[t] # Absent => MayAdminister(issuer[t], t)'
               /\ keys'[t].revoked => revoker'[t] # {}
               /\ \A u \in revoker'[t] : MayAdminister(u, t)'
    <2>1. CASE t = s
      <3>1. ~keys'[t].revoked /\ revoker'[t] = {}
        BY <1>3, <1>6, <2>1
      <3>2. ASSUME issuer'[t] # Absent
            PROVE  MayAdminister(issuer[t], t)'
        <4>1. PICK b \in Secrets :
                /\ issuer' = [issuer EXCEPT ![s] = b]
                /\ keys[b] # Absent /\ ~keys[b].capped
                /\ keys[b].account_id = k.account_id
          BY <1>6, <2>1, <3>2
        <4>2. issuer'[t] = b /\ b # s
          BY <1>1, <2>1, <4>1
        <4>3. QED
          BY <1>3, <2>1, <4>1, <4>2 DEF MayAdminister
      <3>3. QED
        BY <3>1, <3>2
    <2>2. CASE t # s
      <3>1. keys'[t] = keys[t] /\ issuer'[t] = issuer[t]
        BY <1>3, <1>6, <2>2
      <3>2. /\ issuer[t] # Absent => MayAdminister(issuer[t], t)
            /\ keys[t].revoked => revoker[t] # {}
            /\ \A u \in revoker[t] : MayAdminister(u, t)
        BY <1>8, <3>1 DEF AdminInv, Lineage, UncappedKeyBehindEveryChange
      <3>3. ASSUME NEW u \in Secrets, MayAdminister(u, t)
            PROVE  keys'[u] # Absent /\ ~keys'[u].capped /\ keys'[u].account_id = keys'[t].account_id
        BY <1>3, <3>1, <3>3 DEF MayAdminister
      <3>4. QED
        BY <1>1, <3>1, <3>2, <3>3 DEF MayAdminister
    <2>3. QED
      BY <2>1, <2>2
  <1>9. QED
    BY <1>2, <1>4, <1>5, <1>7, <1>8 DEF Lineage, UncappedKeyBehindEveryChange

\* A write to a key that exists, which keeps whose it is and whether it is
\* capped, and revokes it only on behalf of an uncapped key of the account.
LEMMA KeyUpdateKeeps ==
    ASSUME AdminInv, NEW s \in Secrets, NEW k \in KeyRecord, keys[s] # Absent,
           keys' = [keys EXCEPT ![s] = k], UNCHANGED <<keysReplica, issuer>>,
           k.account_id = keys[s].account_id, k.capped = keys[s].capped,
           keys[s].revoked => k.revoked,
           \/ UNCHANGED revoker /\ k.revoked = keys[s].revoked
           \/ \E b \in Secrets :
                /\ revoker' = [revoker EXCEPT ![s] = @ \cup {b}]
                /\ keys[b] # Absent /\ ~keys[b].capped
                /\ keys[b].account_id = k.account_id
    PROVE  /\ Lineage' /\ KeysGrow /\ KeyCopiesLag'
           /\ keys' \in [Secrets -> KeyRecord \cup {Absent}]
           /\ issuer' \in [Secrets -> Secrets \cup {Absent}]
           /\ revoker' \in [Secrets -> SUBSET Secrets]
  <1>1. /\ keys \in [Secrets -> KeyRecord \cup {Absent}]
        /\ issuer \in [Secrets -> Secrets \cup {Absent}]
        /\ revoker \in [Secrets -> SUBSET Secrets]
    BY DEF AdminInv, AdminTypeOK, StoreTypeOK
  <1>2. /\ keys' \in [Secrets -> KeyRecord \cup {Absent}]
        /\ issuer' \in [Secrets -> Secrets \cup {Absent}]
        /\ revoker' \in [Secrets -> SUBSET Secrets]
    BY <1>1
  <1>3. keys'[s] = k /\ k # Absent /\ \A t \in Secrets : t # s => keys'[t] = keys[t]
    BY <1>1
  <1>4. KeysGrow
    BY <1>3 DEF KeysGrow, Earlier
  <1>5. KeyCopiesLag'
    BY <1>3 DEF AdminInv, KeyCopiesLag, Earlier
  <1>6. ASSUME NEW t \in Secrets, NEW u \in Secrets, keys[t] # Absent, MayAdminister(u, t)
        PROVE  MayAdminister(u, t)'
    BY <1>3, <1>6 DEF MayAdminister
  <1>7. \A t \in Secrets : t # s => revoker'[t] = revoker[t]
    BY <1>1
  <1>8. \A t \in Secrets : keys'[t] = Absent => issuer'[t] = Absent /\ revoker'[t] = {}
    BY <1>3, <1>7 DEF AdminInv, Lineage
  <1>9. ASSUME NEW t \in Secrets, keys'[t] # Absent
        PROVE  /\ issuer'[t] # Absent => MayAdminister(issuer[t], t)'
               /\ keys'[t].revoked => revoker'[t] # {}
               /\ \A u \in revoker'[t] : MayAdminister(u, t)'
    <2>1. keys[t] # Absent
      BY <1>3, <1>9
    <2>2. /\ issuer[t] # Absent => MayAdminister(issuer[t], t)
          /\ keys[t].revoked => revoker[t] # {}
          /\ \A u \in revoker[t] : MayAdminister(u, t)
      BY <2>1 DEF AdminInv, Lineage, UncappedKeyBehindEveryChange
    <2>3. issuer'[t] # Absent => MayAdminister(issuer[t], t)'
      <3>1. PICK i \in Secrets \cup {Absent} : i = issuer[t] /\ i = issuer'[t]
        BY <1>1
      <3>2. i # Absent => MayAdminister(i, t)'
        BY <1>6, <2>1, <2>2, <3>1
      <3>3. QED
        BY <3>1, <3>2
    <2>4. CASE revoker'[t] = revoker[t] /\ (keys'[t].revoked => keys[t].revoked)
      BY <1>1, <1>6, <2>1, <2>2, <2>3, <2>4
    <2>5. ASSUME t = s, NEW b \in Secrets, revoker' = [revoker EXCEPT ![s] = @ \cup {b}],
                 keys[b] # Absent, ~keys[b].capped, keys[b].account_id = k.account_id
          PROVE  /\ keys'[t].revoked => revoker'[t] # {}
                 /\ \A u \in revoker'[t] : MayAdminister(u, t)'
      <3>1. revoker'[t] = revoker[t] \cup {b}
        BY <1>1, <2>5
      <3>2. MayAdminister(b, t)
        BY <2>5 DEF MayAdminister
      <3>3. QED
        BY <1>1, <1>6, <2>1, <2>2, <3>1, <3>2
    <2>6. QED
      BY <1>3, <1>7, <2>3, <2>4, <2>5
  <1>10. QED
    BY <1>2, <1>4, <1>5, <1>8, <1>9 DEF Lineage, UncappedKeyBehindEveryChange

\* Accounts::create.
LEMMA CreateKeeps ==
    ASSUME AdminInv, AdminCreate
    PROVE  LedgerKeeps /\ UNCHANGED adm
  <1>1. PICK a \in Accounts, s \in Secrets : CreateTx(a, s)
    BY DEF AdminCreate
  <1>2. UNCHANGED <<adm, issuer, revoker>>
    BY DEF AdminCreate, adminVars
  <1> DEFINE k == NewKey(a, FALSE, 0)
  <1>3. k \in KeyRecord /\ ~k.revoked
    BY DEF NewKey, KeyRecord
  <1>4. /\ accounts[a] = Absent /\ keys[s] = Absent
        /\ accounts' = [accounts EXCEPT ![a] = 0] /\ keys' = [keys EXCEPT ![s] = k]
        /\ UNCHANGED <<receipts, accountsReplica, keysReplica, receiptsReplica, credited, cap>>
    BY <1>1 DEF CreateTx, replicas, history
  <1> HIDE DEF k
  <1>5. /\ Lineage' /\ KeysGrow /\ KeyCopiesLag'
        /\ keys' \in [Secrets -> KeyRecord \cup {Absent}]
        /\ issuer' \in [Secrets -> Secrets \cup {Absent}]
        /\ revoker' \in [Secrets -> SUBSET Secrets]
    BY <1>2, <1>3, <1>4, FreshKeyKeeps
  <1>6. StoreTypeOK
    BY DEF AdminInv, AdminTypeOK
  <1>7. accounts' \in [Accounts -> Nat \cup {Absent}]
    BY <1>4, <1>6 DEF StoreTypeOK
  <1>8. StoreTypeOK'
    BY <1>4, <1>5, <1>6, <1>7 DEF StoreTypeOK
  <1>9. /\ BoughtGrows
        /\ \A d \in Accounts : Bought(d)' = Bought(d) /\ PaymentsOf(d)' = PaymentsOf(d)
    BY <1>4, BoughtSame DEF AdminInv
  <1>10. BalancesBought'
    <2> SUFFICES ASSUME NEW d \in Accounts
                 PROVE  /\ IsFiniteSet(PaymentsOf(d)')
                        /\ accounts'[d] # Absent => accounts'[d] <= Bought(d)'
                        /\ accountsReplica'[d] # Absent => accountsReplica'[d] <= Bought(d)'
      BY DEF BalancesBought
    <2>1. accounts'[d] = IF d = a THEN 0 ELSE accounts[d]
      BY <1>4, <1>6 DEF StoreTypeOK
    <2>2. Bought(d) \in Nat
      BY BoughtIsNat DEF AdminInv
    <2>3. 0 <= Bought(d)
      BY <2>2
    <2>4. QED
      BY <1>4, <1>9, <2>1, <2>3 DEF AdminInv, BalancesBought
  <1>11. QED
    BY <1>2, <1>5, <1>8, <1>9, <1>10 DEF LedgerKeeps

\* put_key, on behalf of the uncapped key the request presented.
LEMMA PutKeyKeeps ==
    ASSUME AdminInv, NEW x \in Admins, adm[x].pc = "put", CommitPutKey(x)
    PROVE  LedgerKeeps
  <1>1. RequestOK(adm[x]) /\ adm[x] \in Admin /\ StoreTypeOK
    BY DEF AdminInv, AdminTypeOK
  <1>2. PICK s \in Secrets, b \in Secrets, a \in Accounts, c \in AdminCaps \cup {Absent} :
          /\ s = adm[x].target /\ b = adm[x].bearer /\ a = adm[x].account
          /\ c = adm[x].spend_cap
    BY <1>1 DEF RequestOK, Bears, Admin
  <1>3. keys[b] # Absent /\ ~keys[b].capped /\ keys[b].account_id = a
    BY <1>1, <1>2 DEF RequestOK, Bears
  <1>4. PICK m \in Nat, p \in BOOLEAN : m = (IF c = Absent THEN 0 ELSE c) /\ p = (c # Absent)
    OBVIOUS
  <1> DEFINE k == NewKey(a, p, m)
  <1>5. k \in KeyRecord /\ ~k.revoked /\ k.account_id = a
    BY DEF NewKey, KeyRecord
  <1>6. PutKeyTx(a, s, p, m) /\ issuer' = [issuer EXCEPT ![s] = b] /\ UNCHANGED revoker
    BY <1>2, <1>4 DEF CommitPutKey
  <1>7. /\ keys[s] = Absent /\ keys' = [keys EXCEPT ![s] = k]
        /\ cap' = [cap EXCEPT ![s] = m]
        /\ UNCHANGED <<accounts, receipts, accountsReplica, keysReplica, receiptsReplica,
                       credited>>
    BY <1>6 DEF PutKeyTx, replicas
  <1> HIDE DEF k
  <1>8. /\ Lineage' /\ KeysGrow /\ KeyCopiesLag'
        /\ keys' \in [Secrets -> KeyRecord \cup {Absent}]
        /\ issuer' \in [Secrets -> Secrets \cup {Absent}]
        /\ revoker' \in [Secrets -> SUBSET Secrets]
    BY <1>3, <1>5, <1>6, <1>7, FreshKeyKeeps
  <1>9. cap' \in [Secrets -> Nat]
    BY <1>1, <1>7 DEF StoreTypeOK
  <1>10. StoreTypeOK'
    BY <1>1, <1>7, <1>8, <1>9 DEF StoreTypeOK
  <1>11. BoughtGrows /\ BalancesBought'
    BY <1>7, BoughtSame DEF AdminInv, BalancesBought
  <1>12. QED
    BY <1>8, <1>10, <1>11 DEF LedgerKeeps

\* revoke, on behalf of the uncapped key the request presented.
LEMMA RevokeKeeps ==
    ASSUME AdminInv, NEW x \in Admins, adm[x].pc = "revoke", CommitRevoke(x)
    PROVE  LedgerKeeps
           /\ keys'[adm[x].target] # Absent /\ keys'[adm[x].target].revoked
  <1>1. RequestOK(adm[x]) /\ adm[x] \in Admin /\ StoreTypeOK
    BY DEF AdminInv, AdminTypeOK
  <1>2. PICK s \in Secrets, b \in Secrets, a \in Accounts :
          s = adm[x].target /\ b = adm[x].bearer /\ a = adm[x].account
    BY <1>1 DEF RequestOK, Bears, Admin
  <1>3. keys[b] # Absent /\ ~keys[b].capped /\ keys[b].account_id = a
    BY <1>1, <1>2 DEF RequestOK, Bears
  <1>4. RevokeTx(a, s) /\ revoker' = [revoker EXCEPT ![s] = @ \cup {b}] /\ UNCHANGED issuer
    BY <1>2 DEF CommitRevoke
  <1> DEFINE k == [keys[s] EXCEPT !.revoked = TRUE]
  <1>5. /\ keys[s] # Absent /\ keys[s].account_id = a /\ keys' = [keys EXCEPT ![s] = k]
        /\ UNCHANGED <<accounts, receipts, accountsReplica, keysReplica, receiptsReplica,
                       credited, cap>>
    BY <1>4 DEF RevokeTx, replicas, history
  <1>6. keys[s] \in KeyRecord /\ TRUE \in BOOLEAN
    BY <1>1, <1>5 DEF StoreTypeOK
  <1>7. k \in KeyRecord
    BY <1>6, Zenon DEF KeyRecord
  <1>8. k.account_id = keys[s].account_id /\ k.capped = keys[s].capped /\ k.revoked
    BY <1>6, Zenon DEF KeyRecord
  <1> HIDE DEF k
  <1>9. /\ Lineage' /\ KeysGrow /\ KeyCopiesLag'
        /\ keys' \in [Secrets -> KeyRecord \cup {Absent}]
        /\ issuer' \in [Secrets -> Secrets \cup {Absent}]
        /\ revoker' \in [Secrets -> SUBSET Secrets]
    BY <1>3, <1>4, <1>5, <1>7, <1>8, KeyUpdateKeeps
  <1>10. StoreTypeOK'
    BY <1>1, <1>5, <1>9 DEF StoreTypeOK
  <1>11. BoughtGrows /\ BalancesBought'
    BY <1>5, BoughtSame DEF AdminInv, BalancesBought
  <1>12. keys'[s] = k /\ k # Absent
    BY <1>1, <1>5, <1>7 DEF StoreTypeOK
  <1>13. QED
    BY <1>2, <1>8, <1>9, <1>10, <1>11, <1>12 DEF LedgerKeeps

\* A host debits a balance and perhaps a cap.
LEMMA DebitKeeps ==
    ASSUME AdminInv, NEW s \in Secrets, NEW a \in Accounts, NEW capped \in BOOLEAN,
           DebitTx(s, a, capped, AdminCost), UNCHANGED <<issuer, revoker>>
    PROVE  LedgerKeeps
  <1>1. StoreTypeOK
    BY DEF AdminInv, AdminTypeOK
  <1>2. /\ accounts[a] # Absent /\ accounts[a] >= AdminCost
        /\ accounts' = [accounts EXCEPT ![a] = @ - AdminCost]
        /\ keys[s] # Absent /\ ~keys[s].revoked /\ keys[s].capped = capped
        /\ capped => keys[s].cap_remaining >= AdminCost
        /\ UNCHANGED <<receipts, accountsReplica, keysReplica, receiptsReplica, credited, cap>>
    BY DEF DebitTx, replicas, history
  <1>3. keys[s] \in KeyRecord /\ accounts[a] \in Nat
    BY <1>1, <1>2 DEF StoreTypeOK
  <1>4. \E k \in KeyRecord :
          /\ keys' = [keys EXCEPT ![s] = k] /\ k.account_id = keys[s].account_id
          /\ k.capped = keys[s].capped /\ k.revoked = keys[s].revoked
    <2>1. CASE capped
      <3> DEFINE m == keys[s].cap_remaining - AdminCost
                 k == [keys[s] EXCEPT !.cap_remaining = m]
      <3>1. m \in Nat
        BY <1>2, <1>3, <2>1 DEF KeyRecord
      <3>2. keys' = [keys EXCEPT ![s] = k]
        BY <2>1 DEF DebitTx
      <3> HIDE DEF m
      <3>3. k \in KeyRecord
        BY <1>3, <3>1, Zenon DEF KeyRecord
      <3>4. /\ k.account_id = keys[s].account_id
            /\ k.capped = keys[s].capped /\ k.revoked = keys[s].revoked
        BY <1>3, Zenon DEF KeyRecord
      <3> HIDE DEF k
      <3>5. QED
        BY <3>2, <3>3, <3>4
    <2>2. CASE ~capped
      <3> DEFINE k == [keys[s] EXCEPT !.revoked = FALSE]
      <3>1. keys' = [keys EXCEPT ![s] = k]
        BY <2>2 DEF DebitTx
      <3>2. FALSE \in BOOLEAN
        OBVIOUS
      <3>3. k \in KeyRecord
        BY <1>3, <3>2, Zenon DEF KeyRecord
      <3>4. /\ k.account_id = keys[s].account_id
            /\ k.capped = keys[s].capped /\ k.revoked = FALSE
        BY <1>3, Zenon DEF KeyRecord
      <3>5. keys[s].revoked = FALSE
        BY <1>2, <1>3 DEF KeyRecord
      <3> HIDE DEF k
      <3>6. QED
        BY <3>1, <3>3, <3>4, <3>5
    <2>3. QED
      BY <2>1, <2>2
  <1>5. PICK k \in KeyRecord :
          /\ keys' = [keys EXCEPT ![s] = k] /\ k.account_id = keys[s].account_id
          /\ k.capped = keys[s].capped /\ k.revoked = keys[s].revoked
    BY <1>4
  <1>6. /\ Lineage' /\ KeysGrow /\ KeyCopiesLag'
        /\ keys' \in [Secrets -> KeyRecord \cup {Absent}]
        /\ issuer' \in [Secrets -> Secrets \cup {Absent}]
        /\ revoker' \in [Secrets -> SUBSET Secrets]
    BY <1>2, <1>5, KeyUpdateKeeps
  <1>7. accounts[a] - AdminCost \in Nat /\ accounts[a] - AdminCost <= accounts[a]
    BY <1>2, <1>3
  <1>8. accounts' \in [Accounts -> Nat \cup {Absent}]
    BY <1>1, <1>2, <1>7 DEF StoreTypeOK
  <1>9. StoreTypeOK'
    BY <1>1, <1>2, <1>6, <1>8 DEF StoreTypeOK
  <1>10. /\ BoughtGrows
         /\ \A d \in Accounts : Bought(d)' = Bought(d) /\ PaymentsOf(d)' = PaymentsOf(d)
    BY <1>2, BoughtSame DEF AdminInv
  <1>11. BalancesBought'
    <2> SUFFICES ASSUME NEW d \in Accounts
                 PROVE  /\ IsFiniteSet(PaymentsOf(d)')
                        /\ accounts'[d] # Absent => accounts'[d] <= Bought(d)'
                        /\ accountsReplica'[d] # Absent => accountsReplica'[d] <= Bought(d)'
      BY DEF BalancesBought
    <2>1. accounts'[d] = IF d = a THEN accounts[a] - AdminCost ELSE accounts[d]
      BY <1>1, <1>2 DEF StoreTypeOK
    <2>2. Bought(d) \in Nat
      BY BoughtIsNat DEF AdminInv
    <2>3. accounts[a] <= Bought(a)
      BY <1>2 DEF AdminInv, BalancesBought
    <2>4. d = a => accounts'[d] <= Bought(d)
      BY <1>3, <1>7, <2>1, <2>2, <2>3
    <2>5. QED
      BY <1>2, <1>10, <2>1, <2>4 DEF AdminInv, BalancesBought
  <1>12. QED
    BY <1>6, <1>9, <1>10, <1>11 DEF LedgerKeeps

\* A payment credits a balance.
LEMMA CreditKeeps ==
    ASSUME AdminInv, NEW a \in Accounts, NEW n \in Nonces, CreditTx(a, AdminCredit, n),
           UNCHANGED <<issuer, revoker>>
    PROVE  LedgerKeeps
  <1>1. StoreTypeOK
    BY DEF AdminInv, AdminTypeOK
  <1> DEFINE r == [account_id |-> a, invokes |-> AdminCredit]
  <1>2. r \in Receipt /\ r.account_id = a /\ r # Absent
    BY DEF Receipt
  <1>3. /\ accounts[a] # Absent /\ accounts' = [accounts EXCEPT ![a] = @ + AdminCredit]
        /\ receipts[n] = Absent /\ receipts' = [receipts EXCEPT ![n] = r]
        /\ credited' = [credited EXCEPT ![a] = @ + AdminCredit]
        /\ UNCHANGED <<keys, accountsReplica, keysReplica, receiptsReplica, cap>>
    BY DEF CreditTx, replicas
  <1> HIDE DEF r
  <1>4. accounts[a] \in Nat /\ credited[a] \in Nat
    BY <1>1, <1>3 DEF StoreTypeOK
  <1>5. StoreTypeOK'
    <2>1. accounts[a] + AdminCredit \in Nat /\ credited[a] + AdminCredit \in Nat
      BY <1>4
    <2>2. /\ accounts' \in [Accounts -> Nat \cup {Absent}]
          /\ credited' \in [Accounts -> Nat]
          /\ receipts' \in [Nonces -> Receipt \cup {Absent}]
      BY <1>1, <1>2, <1>3, <2>1 DEF StoreTypeOK
    <2>3. QED
      BY <1>1, <1>3, <2>2 DEF StoreTypeOK
  <1>6. KeyCopiesLag'
    BY <1>3 DEF AdminInv, KeyCopiesLag
  <1>7. receipts'[n] = r /\ \A m \in Nonces : m # n => receipts'[m] = receipts[m]
    BY <1>1, <1>3 DEF StoreTypeOK
  <1>8. ASSUME NEW d \in Accounts
        PROVE  /\ IsFiniteSet(PaymentsOf(d)') /\ Bought(d) \in Nat /\ Bought(d)' \in Nat
               /\ Bought(d)' = IF d = a THEN Bought(d) + AdminCredit ELSE Bought(d)
    <2>1. IsFiniteSet(PaymentsOf(d)) /\ Cardinality(PaymentsOf(d)) \in Nat
      BY FS_CardinalityType DEF AdminInv, BalancesBought
    <2>2. Bought(d)' = AdminCredit * Cardinality(PaymentsOf(d)')
          /\ Bought(d) = AdminCredit * Cardinality(PaymentsOf(d))
      BY DEF Bought, PaymentsOf
    <2>3. CASE d = a
      <3>1. PaymentsOf(d)' = PaymentsOf(d) \cup {n} /\ n \notin PaymentsOf(d)
        BY <1>2, <1>3, <1>7, <2>3 DEF PaymentsOf
      <3>2. /\ IsFiniteSet(PaymentsOf(d)')
            /\ Cardinality(PaymentsOf(d)') = Cardinality(PaymentsOf(d)) + 1
        BY <2>1, <3>1, FS_AddElement
      <3> DEFINE j == Cardinality(PaymentsOf(d))
      <3>3. j \in Nat
        BY <2>1
      <3> HIDE DEF j
      <3>4. AdminCredit * (j + 1) = AdminCredit * j + AdminCredit /\ AdminCredit * j \in Nat
        BY <3>3
      <3>5. QED
        BY <2>2, <2>3, <3>2, <3>4 DEF j
    <2>4. CASE d # a
      <3>1. PaymentsOf(d)' = PaymentsOf(d)
        BY <1>2, <1>3, <1>7, <2>4 DEF PaymentsOf
      <3>2. QED
        BY <2>1, <2>2, <2>4, <3>1
    <2>5. QED
      BY <2>3, <2>4
  <1>9. BoughtGrows
    BY <1>8 DEF BoughtGrows
  <1>10. BalancesBought'
    <2> SUFFICES ASSUME NEW d \in Accounts
                 PROVE  /\ IsFiniteSet(PaymentsOf(d)')
                        /\ accounts'[d] # Absent => accounts'[d] <= Bought(d)'
                        /\ accountsReplica'[d] # Absent => accountsReplica'[d] <= Bought(d)'
      BY DEF BalancesBought
    <2>1. accounts'[d] = IF d = a THEN accounts[a] + AdminCredit ELSE accounts[d]
      BY <1>1, <1>3 DEF StoreTypeOK
    <2>2. /\ accounts[d] # Absent => accounts[d] <= Bought(d)
          /\ accountsReplica[d] # Absent => accountsReplica[d] <= Bought(d)
          /\ accountsReplica[d] \in Nat \cup {Absent}
      BY <1>1 DEF AdminInv, BalancesBought, StoreTypeOK
    <2>3. QED
      BY <1>3, <1>4, <1>8, <2>1, <2>2
  <1>11. QED
    BY <1>3, <1>5, <1>6, <1>9, <1>10, KeysSame DEF LedgerKeeps

\* A copy catches up.
LEMMA CatchUpKeeps ==
    ASSUME AdminInv, AdminCatchUp
    PROVE  LedgerKeeps /\ UNCHANGED adm
  <1>1. UNCHANGED <<adm, issuer, revoker, accounts, keys, receipts, receiptsReplica,
                    credited, cap>>
    BY DEF AdminCatchUp, adminVars, ReplicateAccount, ReplicateKey, tables, history
  <1>2. StoreTypeOK
    BY DEF AdminInv, AdminTypeOK
  <1>3. /\ BoughtGrows
        /\ \A d \in Accounts : Bought(d)' = Bought(d) /\ PaymentsOf(d)' = PaymentsOf(d)
    BY <1>1, BoughtSame DEF AdminInv
  <1>4. CASE ReplicateAccount
    <2>1. PICK a \in Accounts : accountsReplica' = [accountsReplica EXCEPT ![a] = accounts[a]]
      BY <1>4 DEF ReplicateAccount
    <2>2. UNCHANGED keysReplica
      BY <1>4 DEF ReplicateAccount
    <2>3. \A d \in Accounts :
            accountsReplica'[d] = IF d = a THEN accounts[d] ELSE accountsReplica[d]
      BY <1>2, <2>1 DEF StoreTypeOK
    <2>4. accountsReplica' \in [Accounts -> Nat \cup {Absent}]
      BY <1>2, <2>1 DEF StoreTypeOK
    <2>5. StoreTypeOK' /\ KeyCopiesLag'
      BY <1>1, <1>2, <2>2, <2>4 DEF StoreTypeOK, AdminInv, KeyCopiesLag
    <2>6. BalancesBought'
      BY <1>1, <1>3, <2>3 DEF AdminInv, BalancesBought
    <2>7. QED
      BY <1>1, <1>3, <2>5, <2>6, KeysSame DEF LedgerKeeps
  <1>5. CASE ReplicateKey
    <2>1. PICK s \in Secrets : keysReplica' = [keysReplica EXCEPT ![s] = keys[s]]
      BY <1>5 DEF ReplicateKey
    <2>2. UNCHANGED accountsReplica
      BY <1>5 DEF ReplicateKey
    <2>3. \A t \in Secrets : keysReplica'[t] = IF t = s THEN keys[t] ELSE keysReplica[t]
      BY <1>2, <2>1 DEF StoreTypeOK
    <2>4. keysReplica' \in [Secrets -> KeyRecord \cup {Absent}]
      BY <1>2, <2>1 DEF StoreTypeOK
    <2>5. StoreTypeOK'
      BY <1>1, <1>2, <2>2, <2>4 DEF StoreTypeOK
    <2>6. KeyCopiesLag'
      BY <1>1, <2>3 DEF AdminInv, KeyCopiesLag, Earlier
    <2>7. BalancesBought'
      BY <1>1, <1>3, <2>2 DEF AdminInv, BalancesBought
    <2>8. QED
      BY <1>1, <1>3, <2>5, <2>6, <2>7, KeysSame DEF LedgerKeeps
  <1>6. QED
    BY <1>4, <1>5 DEF AdminCatchUp

-----------------------------------------------------------------------------
(* The steps of a request.                                                 *)

\* The same as AdminMoves for a step that writes nothing.
LEMMA LocalMoves ==
    ASSUME AdminInv, AdminLocal, NEW x \in Admins, NEW q \in Admin,
           adm' = [adm EXCEPT ![x] = q], RequestOK(q)
    PROVE  AdminInv'
  <1>1. LedgerKeeps
    BY LocalKeeps
  <1>2. RequestOK(q)'
    BY <1>1, RequestKept DEF AdminInv
  <1>3. QED
    BY <1>1, <1>2, AdminMoves

\* The record AdminAnswer leaves.
LEMMA AdminAnswerRecord ==
    ASSUME AdminInv, NEW x \in Admins, NEW result \in AdminResults, AdminAnswer(x, result)
    PROVE  \E q \in Admin :
             /\ adm' = [adm EXCEPT ![x] = q]
             /\ q.pc = "done" /\ q.result = result /\ q.op = adm[x].op
             /\ q.account = adm[x].account /\ q.bearer = adm[x].bearer
             /\ q.target = adm[x].target
  <1> DEFINE q == [adm[x] EXCEPT !.pc = "done", !.result = result]
  <1>1. adm[x] \in Admin /\ "done" \in AdminPC
    BY DEF AdminInv, AdminTypeOK, AdminPC
  <1>2. q \in Admin
    BY <1>1, Zenon DEF Admin
  <1>3. /\ q.pc = "done" /\ q.result = result /\ q.op = adm[x].op
        /\ q.account = adm[x].account /\ q.bearer = adm[x].bearer
        /\ q.target = adm[x].target
    BY <1>1, Zenon DEF Admin
  <1>4. adm' = [adm EXCEPT ![x] = q]
    BY DEF AdminAnswer
  <1> HIDE DEF q
  <1>5. QED
    BY <1>2, <1>3, <1>4

\* The record AdminGoTo leaves.
LEMMA AdminGoToRecord ==
    ASSUME AdminInv, NEW x \in Admins, NEW pc \in AdminPC, AdminGoTo(x, pc)
    PROVE  \E q \in Admin :
             /\ adm' = [adm EXCEPT ![x] = q]
             /\ q.pc = pc /\ q.result = adm[x].result /\ q.op = adm[x].op
             /\ q.account = adm[x].account /\ q.bearer = adm[x].bearer
             /\ q.target = adm[x].target
  <1> DEFINE q == [adm[x] EXCEPT !.pc = pc]
  <1>1. adm[x] \in Admin
    BY DEF AdminInv, AdminTypeOK
  <1>2. q \in Admin
    BY <1>1, Zenon DEF Admin
  <1>3. /\ q.pc = pc /\ q.result = adm[x].result /\ q.op = adm[x].op
        /\ q.account = adm[x].account /\ q.bearer = adm[x].bearer
        /\ q.target = adm[x].target
    BY <1>1, Zenon DEF Admin
  <1>4. adm' = [adm EXCEPT ![x] = q]
    BY DEF AdminGoTo
  <1> HIDE DEF q
  <1>5. QED
    BY <1>2, <1>3, <1>4

\* A request that is told no more than it knows.
LEMMA AdminAnswerKeeps ==
    ASSUME AdminInv, LedgerKeeps, NEW x \in Admins, NEW result \in AdminResults,
           AdminAnswer(x, result),
           adm[x].op = "revoke" /\ result \in {"Ok", "BalanceChanged"}
               => Revoked(adm[x].target),
           adm[x].op = "read" /\ result = "Ok" => Bears(adm[x].bearer, adm[x].account),
           adm[x].op = "deploy" /\ result = "Ok" =>
               \E a \in Accounts : Bears(adm[x].bearer, a) /\ Bought(a) >= MinDeployCredits
    PROVE  AdminInv'
  <1>1. PICK q \in Admin :
             /\ adm' = [adm EXCEPT ![x] = q]
             /\ q.pc = "done" /\ q.result = result /\ q.op = adm[x].op
             /\ q.account = adm[x].account /\ q.bearer = adm[x].bearer
             /\ q.target = adm[x].target
    BY AdminAnswerRecord
  <1>2. RequestOK(adm[x])
    BY DEF AdminInv
  <1>3. RequestOK(q)
    BY <1>1, <1>2 DEF RequestOK
  <1>4. RequestOK(q)'
    BY <1>3, RequestKept DEF AdminInv
  <1>5. QED
    BY <1>1, <1>4, AdminMoves

\* A request that fails, or whose future is dropped, promises nothing.
LEMMA AdminFails ==
    ASSUME AdminInv, LedgerKeeps, NEW x \in Admins,
           \/ AdminAnswer(x, "Storage") \/ AdminAnswer(x, "Unauthorized")
           \/ AdminAnswer(x, "NotFound") \/ AdminAnswer(x, "Domain")
           \/ AdminAnswer(x, "BadRequest") \/ AdminAnswer(x, "DeployMinimum")
    PROVE  AdminInv'
  <1>1. {"Storage", "Unauthorized", "NotFound", "Domain", "BadRequest", "DeployMinimum"}
          \subseteq AdminResults
    BY DEF AdminResults
  <1>2. ASSUME NEW result \in {"Storage", "Unauthorized", "NotFound", "Domain",
                               "BadRequest", "DeployMinimum"},
               AdminAnswer(x, result)
        PROVE  AdminInv'
    BY <1>1, <1>2, AdminAnswerKeeps
  <1>3. QED
    BY <1>2

\* The first step of a request.
LEMMA StartKeeps ==
    ASSUME AdminInv, NEW x \in Admins, InvalidId(x) \/ AdminStart(x) \/ DeployStart(x)
    PROVE  AdminInv'
  <1>1. /\ adm[x].pc = "idle" /\ adm[x].op = "none" /\ adm[x].result = "None" /\ AdminLocal
        /\ adm[x] \in Admin
    BY DEF InvalidId, AdminStart, DeployStart, AdminInv, AdminTypeOK, RequestOK
  <1>2. LedgerKeeps
    BY <1>1, LocalKeeps
  <1>3. CASE InvalidId(x)
    BY <1>2, <1>3, AdminFails DEF InvalidId
  <1>4. "key" \in AdminPC
        /\ {"read", "revoke", "issue", "deploy"} \subseteq
             {"none", "issue", "revoke", "read", "deploy"}
    BY DEF AdminPC
  <1>5. CASE AdminStart(x)
    <2>1. ASSUME NEW a \in Accounts, NEW b \in BearerHeader,
                 NEW op \in {"read", "revoke", "issue"}, NEW s \in Secrets \cup {Absent},
                 NEW c \in AdminCaps \cup {Absent}, op = "revoke" => s \in Secrets,
                 adm' = [adm EXCEPT ![x].pc = "key", ![x].op = op, ![x].account = a,
                                    ![x].bearer = b, ![x].target = s, ![x].spend_cap = c]
          PROVE  AdminInv'
      <3> DEFINE q == [adm[x] EXCEPT !.pc = "key", !.op = op, !.account = a, !.bearer = b,
                                     !.target = s, !.spend_cap = c]
      <3>1. adm' = [adm EXCEPT ![x] = q]
        BY <2>1
      <3>2. op \in {"none", "issue", "revoke", "read", "deploy"} /\ b \in Secrets \cup {Absent}
        BY DEF BearerHeader
      <3>3. q \in Admin
        BY <1>1, <1>4, <3>2, Zenon DEF Admin
      <3>4. /\ q.pc = "key" /\ q.op = op /\ q.account = a /\ q.target = s
            /\ q.result = adm[x].result
        BY <1>1, Zenon DEF Admin
      <3> HIDE DEF q
      <3>5. RequestOK(q)
        BY <1>1, <2>1, <3>4 DEF RequestOK
      <3>6. QED
        BY <1>1, <3>1, <3>3, <3>5, LocalMoves
    <2>2. PICK a \in Accounts, b \in BearerHeader :
            \/ adm' = [adm EXCEPT ![x].pc = "key", ![x].op = "read", ![x].account = a,
                         ![x].bearer = b, ![x].target = Absent, ![x].spend_cap = Absent]
            \/ \E s \in Secrets :
                 adm' = [adm EXCEPT ![x].pc = "key", ![x].op = "revoke", ![x].account = a,
                           ![x].bearer = b, ![x].target = s, ![x].spend_cap = Absent]
            \/ \E c \in AdminCaps \cup {Absent} :
                 adm' = [adm EXCEPT ![x].pc = "key", ![x].op = "issue", ![x].account = a,
                           ![x].bearer = b, ![x].target = Absent, ![x].spend_cap = c]
      BY <1>5, Zenon DEF AdminStart
    <2>3. CASE adm' = [adm EXCEPT ![x].pc = "key", ![x].op = "read", ![x].account = a,
                         ![x].bearer = b, ![x].target = Absent, ![x].spend_cap = Absent]
      <3>1. "read" \in {"read", "revoke", "issue"} /\ "read" # "revoke"
            /\ Absent \in Secrets \cup {Absent} /\ Absent \in AdminCaps \cup {Absent}
        OBVIOUS
      <3>2. QED
        BY <2>1, <2>3, <3>1, Zenon
    <2>4. ASSUME NEW s \in Secrets,
                 adm' = [adm EXCEPT ![x].pc = "key", ![x].op = "revoke", ![x].account = a,
                           ![x].bearer = b, ![x].target = s, ![x].spend_cap = Absent]
          PROVE  AdminInv'
      <3>1. "revoke" \in {"read", "revoke", "issue"}
            /\ s \in Secrets \cup {Absent} /\ Absent \in AdminCaps \cup {Absent}
        OBVIOUS
      <3>2. QED
        BY <2>1, <2>4, <3>1, Zenon
    <2>5. ASSUME NEW c \in AdminCaps \cup {Absent},
                 adm' = [adm EXCEPT ![x].pc = "key", ![x].op = "issue", ![x].account = a,
                           ![x].bearer = b, ![x].target = Absent, ![x].spend_cap = c]
          PROVE  AdminInv'
      <3>1. "issue" \in {"read", "revoke", "issue"} /\ "issue" # "revoke"
            /\ Absent \in Secrets \cup {Absent}
        OBVIOUS
      <3>2. QED
        BY <2>1, <2>5, <3>1, Zenon
    <2>6. QED
      BY <2>2, <2>3, <2>4, <2>5
  <1>6. CASE DeployStart(x)
    <2>1. CASE AdminAnswer(x, "Ok")
      <3>1. "Ok" \in AdminResults
        BY DEF AdminResults
      <3>2. QED
        BY <1>1, <1>2, <2>1, <3>1, AdminAnswerKeeps
    <2>2. ASSUME NEW b \in BearerHeader,
                 adm' = [adm EXCEPT ![x].pc = "key", ![x].op = "deploy", ![x].bearer = b]
          PROVE  AdminInv'
      <3> DEFINE q == [adm[x] EXCEPT !.pc = "key", !.op = "deploy", !.bearer = b]
      <3>1. adm' = [adm EXCEPT ![x] = q]
        BY <2>2
      <3>2. b \in Secrets \cup {Absent}
        BY DEF BearerHeader
      <3>3. q \in Admin
        BY <1>1, <1>4, <3>2, Zenon DEF Admin
      <3>4. q.pc = "key" /\ q.op = "deploy" /\ q.result = adm[x].result
        BY <1>1, Zenon DEF Admin
      <3> HIDE DEF q
      <3>5. RequestOK(q)
        BY <1>1, <3>4 DEF RequestOK
      <3>6. QED
        BY <1>1, <3>1, <3>3, <3>5, LocalMoves
    <2>3. QED
      BY <1>6, <2>1, <2>2 DEF DeployStart
  <1>7. QED
    BY <1>3, <1>5, <1>6

\* A row that presented_key returns belongs to a key that exists and is what
\* the row says, unless the key was revoked since.
LEMMA PresentedRow ==
    ASSUME AdminInv, NEW x \in Admins, NEW row \in Presented(x), row # Absent
    PROVE  /\ adm[x].bearer \in Secrets /\ row \in KeyRecord
           /\ Bears(adm[x].bearer, row.account_id)
           /\ keys[adm[x].bearer].capped = row.capped
  <1>1. adm[x].bearer \in Secrets /\ row \in ReadKey(adm[x].bearer)
    BY DEF Presented, AdminInv, AdminTypeOK, Admin
  <1>2. row \in KeyRecord
    BY <1>1 DEF ReadKey, AdminInv, AdminTypeOK, StoreTypeOK
  <1>3. QED
    BY <1>1, <1>2 DEF ReadKey, AdminInv, KeyCopiesLag, Earlier, Bears

\* authorize_additional_key and the draw of a secret keep the invariant.
LEMMA IssueAuthorizeKeeps ==
    ASSUME AdminInv, NEW x \in Admins, IssueAuthorize(x)
    PROVE  AdminInv'
  <1>1. /\ adm[x].pc = "key" /\ adm[x].op = "issue" /\ AdminLocal /\ adm[x] \in Admin
        /\ RequestOK(adm[x])
    BY DEF IssueAuthorize, AdminInv, AdminTypeOK
  <1>2. LedgerKeeps
    BY <1>1, LocalKeeps
  <1>3. CASE AdminAnswer(x, "Storage") \/ AdminAnswer(x, "Domain") \/ AdminAnswer(x, "Unauthorized")
    BY <1>2, <1>3, AdminFails
  <1>4. ASSUME NEW row \in Presented(x), Authorized(adm[x].account, row), NEW s \in Secrets,
               adm' = [adm EXCEPT ![x].pc = "put", ![x].target = s]
        PROVE  AdminInv'
    <2> DEFINE q == [adm[x] EXCEPT !.pc = "put", !.target = s]
    <2>1. adm' = [adm EXCEPT ![x] = q]
      BY <1>4
    <2>2. "put" \in AdminPC
      BY DEF AdminPC
    <2>3. q \in Admin
      BY <1>1, <2>2, Zenon DEF Admin
    <2>4. /\ q.pc = "put" /\ q.op = adm[x].op /\ q.account = adm[x].account
          /\ q.bearer = adm[x].bearer /\ q.target = s /\ q.result = adm[x].result
      BY <1>1, Zenon DEF Admin
    <2> HIDE DEF q
    <2>5. row # Absent /\ ~row.capped /\ row.account_id = adm[x].account
      BY <1>4 DEF Authorized
    <2>6. Bears(q.bearer, q.account) /\ ~keys[q.bearer].capped
      BY <2>4, <2>5, PresentedRow
    <2>7. RequestOK(q)
      BY <1>1, <2>4, <2>6 DEF RequestOK
    <2>8. QED
      BY <1>1, <2>1, <2>3, <2>7, LocalMoves
  <1>5. QED
    BY <1>3, <1>4 DEF IssueAuthorize

\* The write of a new key keeps the invariant, answered or not.
LEMMA IssuePutKeeps ==
    ASSUME AdminInv, NEW x \in Admins, IssuePut(x)
    PROVE  AdminInv'
  <1>1. adm[x].pc = "put" /\ adm[x].op = "issue"
    BY DEF IssuePut, AdminInv, RequestOK
  <1>2. LedgerKeeps
    BY <1>1, PutKeyKeeps, LocalKeeps DEF IssuePut
  <1>3. "Ok" \in AdminResults
    BY DEF AdminResults
  <1>4. CASE AdminAnswer(x, "Ok")
    BY <1>1, <1>2, <1>3, <1>4, AdminAnswerKeeps
  <1>5. CASE AdminAnswer(x, "Storage")
    BY <1>2, <1>5, AdminFails
  <1>6. QED
    BY <1>4, <1>5 DEF IssuePut

\* The authorization of a revoke keeps the invariant.
LEMMA RevokeAuthorizeKeeps ==
    ASSUME AdminInv, NEW x \in Admins, RevokeAuthorize(x)
    PROVE  AdminInv'
  <1>1. /\ adm[x].pc = "key" /\ adm[x].op = "revoke" /\ AdminLocal /\ RequestOK(adm[x])
    BY DEF RevokeAuthorize, AdminInv
  <1>2. LedgerKeeps
    BY <1>1, LocalKeeps
  <1>3. CASE AdminAnswer(x, "Storage") \/ AdminAnswer(x, "Unauthorized")
    BY <1>2, <1>3, AdminFails
  <1>4. ASSUME NEW row \in Presented(x), Authorized(adm[x].account, row),
               AdminGoTo(x, "before")
        PROVE  AdminInv'
    <2>1. "before" \in AdminPC
      BY DEF AdminPC
    <2>2. PICK q \in Admin :
             /\ adm' = [adm EXCEPT ![x] = q]
             /\ q.pc = "before" /\ q.result = adm[x].result /\ q.op = adm[x].op
             /\ q.account = adm[x].account /\ q.bearer = adm[x].bearer
             /\ q.target = adm[x].target
      BY <1>4, <2>1, AdminGoToRecord
    <2>3. row # Absent /\ ~row.capped /\ row.account_id = adm[x].account
      BY <1>4 DEF Authorized
    <2>4. Bears(q.bearer, q.account) /\ ~keys[q.bearer].capped
      BY <2>2, <2>3, PresentedRow
    <2>5. RequestOK(q)
      BY <1>1, <2>2, <2>4 DEF RequestOK
    <2>6. QED
      BY <1>1, <2>2, <2>5, LocalMoves
  <1>5. QED
    BY <1>3, <1>4 DEF RevokeAuthorize

\* The read of the balance before keeps the invariant.
LEMMA RevokeBeforeKeeps ==
    ASSUME AdminInv, NEW x \in Admins, RevokeBefore(x)
    PROVE  AdminInv'
  <1>1. /\ adm[x].pc = "before" /\ AdminLocal /\ adm[x] \in Admin /\ RequestOK(adm[x])
        /\ adm[x].account \in Accounts
    BY DEF RevokeBefore, AdminInv, AdminTypeOK, RequestOK
  <1>2. LedgerKeeps
    BY <1>1, LocalKeeps
  <1>3. CASE AdminAnswer(x, "Storage")
    BY <1>2, <1>3, AdminFails
  <1>4. ASSUME NEW row \in ReadAccount(adm[x].account),
               adm' = [adm EXCEPT ![x].pc = "find", ![x].before = row]
        PROVE  AdminInv'
    <2> DEFINE q == [adm[x] EXCEPT !.pc = "find", !.before = row]
    <2>1. adm' = [adm EXCEPT ![x] = q]
      BY <1>4
    <2>2. "find" \in AdminPC /\ row \in Nat \cup {Absent}
      BY <1>1 DEF AdminPC, ReadAccount, AdminInv, AdminTypeOK, StoreTypeOK
    <2>3. q \in Admin
      BY <1>1, <2>2, Zenon DEF Admin
    <2>4. /\ q.pc = "find" /\ q.op = adm[x].op /\ q.account = adm[x].account
          /\ q.bearer = adm[x].bearer /\ q.target = adm[x].target
          /\ q.result = adm[x].result
      BY <1>1, Zenon DEF Admin
    <2> HIDE DEF q
    <2>5. RequestOK(q)
      BY <1>1, <2>4 DEF RequestOK
    <2>6. QED
      BY <1>1, <2>1, <2>3, <2>5, LocalMoves
  <1>5. QED
    BY <1>3, <1>4 DEF RevokeBefore

\* find_hash keeps the invariant.
LEMMA RevokeFindKeeps ==
    ASSUME AdminInv, NEW x \in Admins, RevokeFind(x)
    PROVE  AdminInv'
  <1>1. adm[x].pc = "find" /\ AdminLocal /\ RequestOK(adm[x])
    BY DEF RevokeFind, AdminInv
  <1>2. LedgerKeeps
    BY <1>1, LocalKeeps
  <1>3. CASE AdminAnswer(x, "Storage") \/ AdminAnswer(x, "NotFound")
    BY <1>2, <1>3, AdminFails
  <1>4. CASE AdminGoTo(x, "revoke")
    <2>1. "revoke" \in AdminPC
      BY DEF AdminPC
    <2>2. PICK q \in Admin :
             /\ adm' = [adm EXCEPT ![x] = q]
             /\ q.pc = "revoke" /\ q.result = adm[x].result /\ q.op = adm[x].op
             /\ q.account = adm[x].account /\ q.bearer = adm[x].bearer
             /\ q.target = adm[x].target
      BY <1>4, <2>1, AdminGoToRecord
    <2>3. RequestOK(q)
      BY <1>1, <2>2 DEF RequestOK
    <2>4. QED
      BY <1>1, <2>2, <2>3, LocalMoves
  <1>5. QED
    BY <1>3, <1>4 DEF RevokeFind

\* The write of a revocation keeps the invariant, answered or not.
LEMMA RevokeWriteKeeps ==
    ASSUME AdminInv, NEW x \in Admins, RevokeWrite(x)
    PROVE  AdminInv'
  <1>1. adm[x].pc = "revoke"
    BY DEF RevokeWrite
  <1>2. CASE AdminAnswer(x, "Storage")
    <2>1. LedgerKeeps
      BY <1>1, RevokeKeeps, LocalKeeps DEF RevokeWrite
    <2>2. QED
      BY <1>2, <2>1, AdminFails
  <1>3. CASE AdminGoTo(x, "after") /\ CommitRevoke(x)
    <2>1. /\ LedgerKeeps
          /\ keys'[adm[x].target] # Absent /\ keys'[adm[x].target].revoked
      BY <1>1, <1>3, RevokeKeeps
    <2>2. "after" \in AdminPC
      BY DEF AdminPC
    <2>3. PICK q \in Admin :
             /\ adm' = [adm EXCEPT ![x] = q]
             /\ q.pc = "after" /\ q.result = adm[x].result /\ q.op = adm[x].op
             /\ q.account = adm[x].account /\ q.bearer = adm[x].bearer
             /\ q.target = adm[x].target
      BY <1>3, <2>2, AdminGoToRecord
    <2>4. PICK r \in Admin : r = adm[x]
      BY DEF AdminInv, AdminTypeOK
    <2>5. RequestOK(r)'
      BY <2>1, <2>4, RequestKept DEF AdminInv
    <2>6. Revoked(q.target)'
      BY <2>1, <2>3 DEF Revoked
    <2>7. RequestOK(q)'
      BY <1>1, <2>3, <2>4, <2>5, <2>6 DEF RequestOK
    <2>8. QED
      BY <2>1, <2>3, <2>7, AdminMoves
  <1>4. QED
    BY <1>2, <1>3 DEF RevokeWrite

\* The comparison of the balances keeps the invariant.
LEMMA RevokeAfterKeeps ==
    ASSUME AdminInv, NEW x \in Admins, RevokeAfter(x)
    PROVE  AdminInv'
  <1>1. adm[x].pc = "after" /\ AdminLocal /\ adm[x].op = "revoke" /\ Revoked(adm[x].target)
    BY DEF RevokeAfter, AdminInv, RequestOK
  <1>2. LedgerKeeps
    BY <1>1, LocalKeeps
  <1>3. {"Ok", "BalanceChanged"} \subseteq AdminResults
    BY DEF AdminResults
  <1>4. CASE AdminAnswer(x, "Storage")
    BY <1>2, <1>4, AdminFails
  <1>5. ASSUME NEW result \in {"Ok", "BalanceChanged"}, AdminAnswer(x, result)
        PROVE  AdminInv'
    BY <1>1, <1>2, <1>3, <1>5, AdminAnswerKeeps
  <1>6. QED
    BY <1>4, <1>5 DEF RevokeAfter

\* presented_key of a read keeps the invariant.
LEMMA ReadPresentKeeps ==
    ASSUME AdminInv, NEW x \in Admins, ReadPresent(x)
    PROVE  AdminInv'
  <1>1. /\ adm[x].pc = "key" /\ adm[x].op \in {"read", "deploy"} /\ AdminLocal
        /\ adm[x] \in Admin /\ RequestOK(adm[x])
    BY DEF ReadPresent, AdminInv, AdminTypeOK
  <1>2. LedgerKeeps
    BY <1>1, LocalKeeps
  <1>3. CASE AdminAnswer(x, "Storage") \/ AdminAnswer(x, "Unauthorized")
    BY <1>2, <1>3, AdminFails
  <1>4. ASSUME NEW row \in Presented(x), row # Absent,
               adm' = [adm EXCEPT ![x].pc = "account", ![x].owner = row.account_id]
        PROVE  AdminInv'
    <2>1. row \in KeyRecord /\ Bears(adm[x].bearer, row.account_id)
      BY <1>4, PresentedRow
    <2>2. PICK o \in Accounts : o = row.account_id
      BY <2>1 DEF KeyRecord
    <2> DEFINE q == [adm[x] EXCEPT !.pc = "account", !.owner = o]
    <2>3. adm' = [adm EXCEPT ![x] = q]
      BY <1>4, <2>2
    <2>4. "account" \in AdminPC
      BY DEF AdminPC
    <2>5. q \in Admin
      BY <1>1, <2>4, Zenon DEF Admin
    <2>6. /\ q.pc = "account" /\ q.op = adm[x].op /\ q.account = adm[x].account
          /\ q.bearer = adm[x].bearer /\ q.owner = o /\ q.result = adm[x].result
      BY <1>1, Zenon DEF Admin
    <2> HIDE DEF q
    <2>7. RequestOK(q)
      BY <1>1, <2>1, <2>2, <2>6 DEF RequestOK
    <2>8. QED
      BY <1>1, <2>3, <2>5, <2>7, LocalMoves
  <1>5. QED
    BY <1>3, <1>4 DEF ReadPresent

\* The read of the account keeps the invariant: what it shows was bought.
LEMMA ReadOwnerKeeps ==
    ASSUME AdminInv, NEW x \in Admins, ReadOwner(x)
    PROVE  AdminInv'
  <1>1. /\ adm[x].pc = "account" /\ AdminLocal /\ adm[x] \in Admin /\ RequestOK(adm[x])
        /\ adm[x].owner \in Accounts
    BY DEF ReadOwner, AdminInv, AdminTypeOK, RequestOK
  <1>2. LedgerKeeps
    BY <1>1, LocalKeeps
  <1>3. CASE AdminAnswer(x, "Storage") \/ AdminAnswer(x, "NotFound")
    BY <1>2, <1>3, AdminFails
  <1>4. ASSUME NEW row \in ReadAccount(adm[x].owner), row # Absent,
               adm' = [adm EXCEPT ![x].pc = "list",
                         ![x].before = IF adm[x].op = "deploy" THEN row ELSE Absent]
        PROVE  AdminInv'
    <2>1. row \in Nat /\ row <= Bought(adm[x].owner)
      BY <1>1, <1>4 DEF ReadAccount, AdminInv, AdminTypeOK, StoreTypeOK, BalancesBought
    <2>2. PICK v \in Nat \cup {Absent} : v = IF adm[x].op = "deploy" THEN row ELSE Absent
      BY <2>1
    <2> DEFINE q == [adm[x] EXCEPT !.pc = "list", !.before = v]
    <2>3. adm' = [adm EXCEPT ![x] = q]
      BY <1>4, <2>2
    <2>4. "list" \in AdminPC
      BY DEF AdminPC
    <2>5. q \in Admin
      BY <1>1, <2>4, Zenon DEF Admin
    <2>6. /\ q.pc = "list" /\ q.op = adm[x].op /\ q.account = adm[x].account
          /\ q.bearer = adm[x].bearer /\ q.owner = adm[x].owner
          /\ q.result = adm[x].result /\ q.before = v
      BY <1>1, Zenon DEF Admin
    <2> HIDE DEF q
    <2>7. q.op = "deploy" => q.before \in Nat /\ q.before <= Bought(q.owner)
      BY <2>1, <2>2, <2>6
    <2>8. RequestOK(q)
      BY <1>1, <2>6, <2>7 DEF RequestOK
    <2>9. QED
      BY <1>1, <2>3, <2>5, <2>8, LocalMoves
  <1>5. QED
    BY <1>3, <1>4 DEF ReadOwner

\* The answer of a read keeps the invariant.
LEMMA ReadListKeeps ==
    ASSUME AdminInv, NEW x \in Admins, ReadList(x)
    PROVE  AdminInv'
  <1>1. /\ adm[x].pc = "list" /\ adm[x].op = "read" /\ AdminLocal
        /\ Bears(adm[x].bearer, adm[x].owner)
    BY DEF ReadList, AdminInv, RequestOK
  <1>2. LedgerKeeps
    BY <1>1, LocalKeeps
  <1>3. CASE AdminAnswer(x, "Storage") \/ AdminAnswer(x, "Unauthorized")
    BY <1>2, <1>3, AdminFails
  <1>4. CASE adm[x].owner = adm[x].account /\ AdminAnswer(x, "Ok")
    <2>1. "Ok" \in AdminResults /\ Bears(adm[x].bearer, adm[x].account)
      BY <1>1, <1>4 DEF AdminResults
    <2>2. QED
      BY <1>1, <1>2, <1>4, <2>1, AdminAnswerKeeps
  <1>5. QED
    BY <1>3, <1>4 DEF ReadList

\* The deploy gate keeps the invariant.
LEMMA DeployGateKeeps ==
    ASSUME AdminInv, NEW x \in Admins, DeployGate(x)
    PROVE  AdminInv'
  <1>1. /\ adm[x].pc = "list" /\ adm[x].op = "deploy" /\ AdminLocal
        /\ Bears(adm[x].bearer, adm[x].owner) /\ adm[x].owner \in Accounts
        /\ adm[x].before \in Nat /\ adm[x].before <= Bought(adm[x].owner)
    BY DEF DeployGate, AdminInv, RequestOK
  <1>2. LedgerKeeps
    BY <1>1, LocalKeeps
  <1>3. CASE AdminAnswer(x, "Storage") \/ AdminAnswer(x, "DeployMinimum")
    BY <1>2, <1>3, AdminFails
  <1>4. CASE ~(adm[x].before < MinDeployCredits) /\ AdminAnswer(x, "Ok")
    <2>1. Bought(adm[x].owner) \in Nat
      BY <1>1, BoughtIsNat DEF AdminInv
    <2>2. Bought(adm[x].owner) >= MinDeployCredits
      BY <1>1, <1>4, <2>1
    <2>3. "Ok" \in AdminResults
      BY DEF AdminResults
    <2>4. \E a \in Accounts : Bears(adm[x].bearer, a) /\ Bought(a) >= MinDeployCredits
      BY <1>1, <2>2
    <2>5. QED
      BY <1>1, <1>2, <1>4, <2>3, <2>4, AdminAnswerKeeps
  <1>5. QED
    BY <1>3, <1>4 DEF DeployGate

\* A dropped request keeps the invariant, whatever its last write still does.
LEMMA AdminDropKeeps ==
    ASSUME AdminInv, NEW x \in Admins, AdminDrop(x)
    PROVE  AdminInv'
  <1>1. /\ adm[x].pc \notin {"idle", "done", "gone"} /\ AdminGoTo(x, "gone")
        /\ RequestOK(adm[x])
    BY DEF AdminDrop, AdminInv
  <1>2. LedgerKeeps
    BY LocalKeeps, PutKeyKeeps, RevokeKeeps DEF AdminDrop
  <1>3. "gone" \in AdminPC
    BY DEF AdminPC
  <1>4. PICK q \in Admin :
           /\ adm' = [adm EXCEPT ![x] = q]
           /\ q.pc = "gone" /\ q.result = adm[x].result /\ q.op = adm[x].op
           /\ q.account = adm[x].account /\ q.bearer = adm[x].bearer
           /\ q.target = adm[x].target
    BY <1>1, <1>3, AdminGoToRecord
  <1>5. RequestOK(q)
    BY <1>1, <1>4 DEF RequestOK
  <1>6. RequestOK(q)'
    BY <1>2, <1>5, RequestKept DEF AdminInv
  <1>7. QED
    BY <1>2, <1>4, <1>6, AdminMoves

-----------------------------------------------------------------------------
(* The invariant and what follows from it.                                 *)

\* The tables are empty at first, and nobody has asked for anything.
LEMMA AdminInvInit == AdminInit => AdminInv
  <1> SUFFICES ASSUME AdminInit
               PROVE  AdminInv
    OBVIOUS
  <1> DEFINE r == [pc |-> "idle", op |-> "none", account |-> Absent,
                   bearer |-> Absent, target |-> Absent, spend_cap |-> Absent,
                   owner |-> Absent, before |-> Absent, result |-> "None"]
  <1>1. r \in Admin
    BY DEF Admin, AdminPC, AdminResults
  <1>2. adm = [x \in Admins |-> r] /\ r.pc = "idle" /\ r.op = "none" /\ r.result = "None"
    BY DEF AdminInit
  <1> HIDE DEF r
  <1>3. AdminTypeOK
    BY <1>1, <1>2 DEF AdminTypeOK, AdminInit, StoreInit, StoreTypeOK
  <1>4. KeyCopiesLag
    BY DEF AdminInit, StoreInit, KeyCopiesLag
  <1>5. BalancesBought
    <2>1. \A a \in Accounts : PaymentsOf(a) = {}
      BY DEF AdminInit, StoreInit, PaymentsOf
    <2>2. QED
      BY <2>1, FS_EmptySet DEF AdminInit, StoreInit, BalancesBought
  <1>6. Lineage
    BY DEF AdminInit, StoreInit, Lineage, UncappedKeyBehindEveryChange
  <1>7. RequestOK(r)
    BY <1>2 DEF RequestOK
  <1>8. QED
    BY <1>2, <1>3, <1>4, <1>5, <1>6, <1>7 DEF AdminInv

\* Every step of every request, host, payment and copy keeps the invariant.
LEMMA AdminInvNext == AdminInv /\ [AdminNext]_keyVars => AdminInv'
  <1> SUFFICES ASSUME AdminInv, [AdminNext]_keyVars
               PROVE  AdminInv'
    OBVIOUS
  <1>1. ASSUME NEW x \in Admins, AdminStep(x)
        PROVE  AdminInv'
    BY <1>1, StartKeeps, IssueAuthorizeKeeps, IssuePutKeeps, RevokeAuthorizeKeeps,
       RevokeBeforeKeeps, RevokeFindKeeps, RevokeWriteKeeps, RevokeAfterKeeps,
       ReadPresentKeeps, ReadOwnerKeeps, ReadListKeeps, DeployGateKeeps
    DEF AdminStep
  <1>2. ASSUME NEW x \in Admins, AdminDrop(x)
        PROVE  AdminInv'
    BY <1>2, AdminDropKeeps
  <1>3. CASE AdminCreate
    BY <1>3, CreateKeeps, AdminQuiet
  <1>4. CASE BalanceMoves
    <2>1. UNCHANGED <<adm, issuer, revoker>>
      BY <1>4 DEF BalanceMoves, adminVars
    <2>2. LedgerKeeps
      BY <1>4, <2>1, DebitKeeps, CreditKeeps DEF BalanceMoves
    <2>3. QED
      BY <2>1, <2>2, AdminQuiet
  <1>5. CASE AdminCatchUp
    BY <1>5, CatchUpKeeps, AdminQuiet
  <1>6. CASE UNCHANGED keyVars
    <2>1. AdminLocal /\ UNCHANGED adm
      BY <1>6 DEF keyVars, adminVars, AdminLocal
    <2>2. QED
      BY <2>1, LocalKeeps, AdminQuiet
  <1>7. QED
    BY <1>1, <1>2, <1>3, <1>4, <1>5, <1>6 DEF AdminNext

\* AdminInv holds in every state the account routes can reach beside hosts and
\* payments.
THEOREM AdminInvariant == AdminSpec => []AdminInv
  BY AdminInvInit, AdminInvNext, PTL DEF AdminSpec

\* Every variable of the account routes keeps its type.
THEOREM AdminTypeCorrect == AdminSpec => []AdminTypeOK
  <1>1. AdminInv => AdminTypeOK
    BY DEF AdminInv
  <1>2. QED
    BY <1>1, AdminInvariant, PTL

\* authorize_additional_key: behind every key but an account's first, and behind
\* every revocation, is an uncapped key of the same account, however stale the
\* rows were that the request decided on.
THEOREM OnlyUncappedKeysAdminister == AdminSpec => []UncappedKeyBehindEveryChange
  <1>1. AdminInv => UncappedKeyBehindEveryChange
    BY DEF AdminInv, Lineage
  <1>2. QED
    BY <1>1, AdminInvariant, PTL

\* revoke: a key reported as revoked is revoked, and stays so.
THEOREM RevokedStaysRevoked == AdminSpec => []RevokeOkMeansRevoked
  <1>1. AdminInv => RevokeOkMeansRevoked
    BY DEF AdminInv, RequestOK, Revoked, RevokeOkMeansRevoked
  <1>2. QED
    BY <1>1, AdminInvariant, PTL

\* read and the deploy gate: an account is shown only to the holder of one of its
\* keys, and a deploy passes only with a key of an account that bought the minimum.
THEOREM KeysOpenTheirOwnAccount == AdminSpec => []KeyOpensItsOwnAccount
  <1>1. AdminInv => KeyOpensItsOwnAccount
    BY DEF AdminInv, RequestOK, Bears, KeyOpensItsOwnAccount
  <1>2. QED
    BY <1>1, AdminInvariant, PTL
=============================================================================
