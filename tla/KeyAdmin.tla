------------------------------ MODULE KeyAdmin ------------------------------
(***************************************************************************)
(* Accounts::create, issue_key, revoke and read on the API tasks, and the  *)
(* gate in front of a publish, which reads an account as well. Every       *)
(* handler first reads the presented bearer key, decides, and writes some  *)
(* awaits later, while other requests issue and revoke keys and hosts and  *)
(* payments move the balance.                                              *)
(***************************************************************************)
EXTENDS AccountStore

CONSTANTS
    Admins,         \* requests to the account routes
    AdminCaps,      \* spend caps a caller may ask for
    AdminCost,      \* what a concurrent invoke debits
    AdminCredit,    \* what a concurrent payment credits
    MinDeployCredits    \* the balance the deploy gate asks for; 0: no gate

ASSUME KeyAdminAssumption ==
    /\ AdminCaps \subseteq Nat
    /\ AdminCost \in Nat \ {0} /\ AdminCredit \in Nat \ {0}
    /\ MinDeployCredits \in Nat
    /\ Absent \notin Secrets /\ Absent \notin Accounts

VARIABLES
    adm,        \* request -> where its handler is
    issuer,     \* history: key -> the key that was presented to issue it
    revoker     \* history: key -> the keys presented to revoke it

adminVars == <<adm, issuer, revoker>>
keyVars == <<storeVars, adminVars>>

AdminPC == {"idle", "key", "put", "before", "find", "revoke", "after",
            "account", "list", "done", "gone"}
AdminResults == {"None", "Ok", "Unauthorized", "NotFound", "Storage", "BalanceChanged",
                 "DeployMinimum", "BadRequest", "Domain"}

\* owner: the account of the key a read presented. before: the balance a revoke
\* saw before its write, and a deploy gate in its read.
Admin == [pc: AdminPC, op: {"none", "issue", "revoke", "read", "deploy"},
          account: Accounts \cup {Absent}, bearer: Secrets \cup {Absent},
          target: Secrets \cup {Absent}, spend_cap: AdminCaps \cup {Absent},
          owner: Accounts \cup {Absent}, before: Nat \cup {Absent},
          result: AdminResults]

AdminTypeOK ==
    /\ StoreTypeOK
    /\ adm \in [Admins -> Admin]
    /\ issuer \in [Secrets -> Secrets \cup {Absent}]
    /\ revoker \in [Secrets -> SUBSET Secrets]

AdminInit ==
    /\ StoreInit
    /\ adm = [x \in Admins |->
                [pc |-> "idle", op |-> "none", account |-> Absent,
                 bearer |-> Absent, target |-> Absent, spend_cap |-> Absent,
                 owner |-> Absent, before |-> Absent, result |-> "None"]]
    /\ issuer = [s \in Secrets |-> Absent]
    /\ revoker = [s \in Secrets |-> {}]

-----------------------------------------------------------------------------
AdminGoTo(x, pc) == adm' = [adm EXCEPT ![x].pc = pc]
AdminAnswer(x, result) ==
    adm' = [adm EXCEPT ![x].pc = "done", ![x].result = result]
AdminLocal == UNCHANGED <<storeVars, issuer, revoker>>

\* Secrets are drawn at random: no other request is about to issue this one.
Fresh(s) ==
    /\ keys[s] = Absent
    /\ \A y \in Admins : adm[y].pc = "put" => adm[y].target # s

\* Accounts::create: one transaction, with or without an answer.
AdminCreate ==
    /\ \E a \in Accounts, s \in Secrets : Fresh(s) /\ CreateTx(a, s)
    /\ UNCHANGED adminVars

\* bearer_secret: a header that is missing, is no Bearer or does not parse as a
\* secret presents none.
BearerHeader == Secrets \cup {Absent}

\* account_id, key_id: an id in the path that is not 16 bytes of hex.
InvalidId(x) ==
    /\ adm[x].pc = "idle"
    /\ AdminAnswer(x, "BadRequest")
    /\ AdminLocal

\* The routes' inputs: the account, the bearer if any, and the key to revoke or
\* the spend cap asked for.
AdminStart(x) ==
    /\ adm[x].pc = "idle"
    /\ \E a \in Accounts, b \in BearerHeader :
         LET Input(op, s, c) ==
               adm' = [adm EXCEPT ![x].pc = "key", ![x].op = op, ![x].account = a,
                                  ![x].bearer = b, ![x].target = s,
                                  ![x].spend_cap = c]
         IN  \/ Input("read", Absent, Absent)
             \/ \E s \in Secrets : Input("revoke", s, Absent)
             \/ \E c \in AdminCaps \cup {Absent} : Input("issue", Absent, c)
    /\ AdminLocal

\* publish: without a minimum there is no gate.
DeployStart(x) ==
    /\ adm[x].pc = "idle"
    /\ \E b \in BearerHeader :
        IF MinDeployCredits = 0
          THEN AdminAnswer(x, "Ok")
          ELSE adm' = [adm EXCEPT ![x].pc = "key", ![x].op = "deploy", ![x].bearer = b]
    /\ AdminLocal

AuthorizedCapped(a, row) ==
    row # Absent /\ ~row.revoked /\ row.account_id = a

\* authorize_additional_key: a non-revoked, uncapped bearer of the account.
Authorized(a, row) ==
    row # Absent /\ ~row.revoked /\ ~row.capped /\ row.account_id = a

\* presented_key, for every route.
Presented(x) ==
    IF adm[x].bearer = Absent THEN {Absent} ELSE ReadKey(adm[x].bearer)

\* issue_key: authorize, then draw the new secret, which may fail.
IssueAuthorize(x) ==
    /\ adm[x].pc = "key" /\ adm[x].op = "issue"
    /\ \/ adm[x].bearer # Absent /\ AdminAnswer(x, "Storage")
       \/ \E row \in Presented(x) :
            IF Authorized(adm[x].account, row)
              THEN \/ AdminAnswer(x, "Domain")
                   \/ \E s \in Secrets :
                        /\ Fresh(s)
                        /\ adm' = [adm EXCEPT ![x].pc = "put", ![x].target = s]
              ELSE AdminAnswer(x, "Unauthorized")
    /\ AdminLocal

CommitPutKey(x) ==
    /\ PutKeyTx(adm[x].account, adm[x].target, adm[x].spend_cap # Absent,
                IF adm[x].spend_cap = Absent THEN 0 ELSE adm[x].spend_cap)
    /\ issuer' = [issuer EXCEPT ![adm[x].target] = adm[x].bearer]
    /\ UNCHANGED revoker

\* put_key: the new key is written; a lost or resent write answers Storage.
IssuePut(x) ==
    /\ adm[x].pc = "put"
    /\ \/ AdminAnswer(x, "Ok") /\ CommitPutKey(x)
       \/ AdminAnswer(x, "Storage") /\ CommitPutKey(x)
       \/ AdminAnswer(x, "Storage") /\ AdminLocal

RevokeAuthorize(x) ==
    /\ adm[x].pc = "key" /\ adm[x].op = "revoke"
    /\ \/ adm[x].bearer # Absent /\ AdminAnswer(x, "Storage")
       \/ \E row \in Presented(x) :
            IF Authorized(adm[x].account, row)
              THEN AdminGoTo(x, "before")
              ELSE AdminAnswer(x, "Unauthorized")
    /\ AdminLocal

\* revoke(): the balance before.
RevokeBefore(x) ==
    /\ adm[x].pc = "before"
    /\ \/ AdminAnswer(x, "Storage")
       \/ \E row \in ReadAccount(adm[x].account) :
            adm' = [adm EXCEPT ![x].pc = "find", ![x].before = row]
    /\ AdminLocal

\* find_hash: a query of the keys by account and key id.
RevokeFind(x) ==
    /\ adm[x].pc = "find"
    /\ \/ AdminAnswer(x, "Storage")
       \/ \E row \in ReadKey(adm[x].target) :
            IF row # Absent /\ row.account_id = adm[x].account
              THEN AdminGoTo(x, "revoke")
              ELSE AdminAnswer(x, "NotFound")
    /\ AdminLocal

CommitRevoke(x) ==
    /\ RevokeTx(adm[x].account, adm[x].target)
    /\ revoker' = [revoker EXCEPT ![adm[x].target] = @ \cup {adm[x].bearer}]
    /\ UNCHANGED issuer

RevokeWriteUnacknowledged(x) ==
    /\ adm[x].pc = "revoke"
    /\ AdminGoTo(x, "after")
    /\ CommitRevoke(x) \/ AdminLocal

RevokeWrite(x) ==
    /\ adm[x].pc = "revoke"
    /\ \/ AdminGoTo(x, "after") /\ CommitRevoke(x)
       \/ AdminAnswer(x, "Storage") /\ CommitRevoke(x)
       \/ AdminAnswer(x, "Storage") /\ AdminLocal

\* The balance after: any difference is answered as an error of the revoke.
RevokeAfter(x) ==
    /\ adm[x].pc = "after"
    /\ \/ AdminAnswer(x, "Storage")
       \/ \E row \in ReadAccount(adm[x].account) :
            AdminAnswer(x, IF row = adm[x].before THEN "Ok" ELSE "BalanceChanged")
    /\ AdminLocal

\* read(): any key that is not revoked, a capped one too.
ReadPresent(x) ==
    /\ adm[x].pc = "key" /\ adm[x].op \in {"read", "deploy"}
    /\ \/ adm[x].bearer # Absent /\ AdminAnswer(x, "Storage")
       \/ \E row \in Presented(x) :
            IF row = Absent \/ row.revoked
              THEN AdminAnswer(x, "Unauthorized")
              ELSE adm' = [adm EXCEPT ![x].pc = "account", ![x].owner = row.account_id]
    /\ AdminLocal

ReadOwner(x) ==
    /\ adm[x].pc = "account"
    /\ \/ AdminAnswer(x, "Storage")
       \/ \E row \in ReadAccount(adm[x].owner) :
            IF row = Absent
              THEN AdminAnswer(x, "NotFound")
              ELSE adm' = [adm EXCEPT ![x].pc = "list",
                             ![x].before = IF adm[x].op = "deploy" THEN row ELSE Absent]
    /\ AdminLocal

\* list_keys, and get_account's comparison with the account of the path.
ReadList(x) ==
    /\ adm[x].pc = "list" /\ adm[x].op = "read"
    /\ \/ AdminAnswer(x, "Storage")
       \/ AdminAnswer(x, IF adm[x].owner = adm[x].account THEN "Ok" ELSE "Unauthorized")
    /\ AdminLocal

DeployGateOffByOne(x) ==
    /\ adm[x].pc = "list" /\ adm[x].op = "deploy"
    /\ \/ AdminAnswer(x, "Storage")
       \/ AdminAnswer(x, IF adm[x].before + 1 < MinDeployCredits THEN "DeployMinimum" ELSE "Ok")
    /\ AdminLocal

\* list_keys, and publish's comparison of the balance that was read before it.
DeployGate(x) ==
    /\ adm[x].pc = "list" /\ adm[x].op = "deploy"
    /\ \/ AdminAnswer(x, "Storage")
       \/ AdminAnswer(x, IF adm[x].before < MinDeployCredits THEN "DeployMinimum" ELSE "Ok")
    /\ AdminLocal

\* The request future is dropped. A write already sent may still commit.
AdminDrop(x) ==
    /\ adm[x].pc \notin {"idle", "done", "gone"}
    /\ AdminGoTo(x, "gone")
    /\ \/ AdminLocal
       \/ adm[x].pc = "put" /\ CommitPutKey(x)
       \/ adm[x].pc = "revoke" /\ CommitRevoke(x)

AdminStep(x) ==
    \/ InvalidId(x) \/ AdminStart(x) \/ DeployStart(x)
    \/ IssueAuthorize(x) \/ IssuePut(x)
    \/ RevokeAuthorize(x) \/ RevokeBefore(x) \/ RevokeFind(x)
    \/ RevokeWrite(x) \/ RevokeAfter(x)
    \/ ReadPresent(x) \/ ReadOwner(x) \/ ReadList(x) \/ DeployGate(x)

\* Hosts debit and payments credit the accounts meanwhile.
BalanceMoves ==
    /\ \/ \E s \in Secrets, a \in Accounts, capped \in BOOLEAN :
            /\ keys[s] # Absent /\ keys[s].account_id = a
            /\ DebitTx(s, a, capped, AdminCost)
       \/ \E a \in Accounts, n \in Nonces : CreditTx(a, AdminCredit, n)
    /\ UNCHANGED adminVars

\* These handlers read no receipt.
AdminCatchUp == (ReplicateAccount \/ ReplicateKey) /\ UNCHANGED adminVars

AdminNext ==
    \/ \E x \in Admins : AdminStep(x) \/ AdminDrop(x)
    \/ AdminCreate \/ BalanceMoves \/ AdminCatchUp

AdminSpec == AdminInit /\ [][AdminNext]_keyVars

-----------------------------------------------------------------------------
(* Properties.                                                             *)

MayAdminister(s, t) ==
    /\ keys[s] # Absent /\ ~keys[s].capped
    /\ keys[s].account_id = keys[t].account_id

\* "A spend-capped key must not be able to mint an uncapped one or revoke the
\* owner's keys": behind every key but an account's first, and behind every
\* revocation, is an uncapped key of the same account, however stale the rows
\* were that the request decided on.
UncappedKeyBehindEveryChange ==
    \A s \in Secrets :
        keys[s] # Absent =>
            /\ issuer[s] # Absent => MayAdminister(issuer[s], s)
            /\ keys[s].revoked => revoker[s] # {}
            /\ \A t \in revoker[s] : MayAdminister(t, s)

\* A caller who is told that the revocation succeeded can rely on it, whatever
\* runs at the same time and ever after.
RevokeOkMeansRevoked ==
    \A x \in Admins :
        adm[x].op = "revoke" /\ adm[x].result \in {"Ok", "BalanceChanged"} =>
            keys[adm[x].target] # Absent /\ keys[adm[x].target].revoked

Bought(a) ==
    AdminCredit * Cardinality({n \in Nonces : receipts[n] # Absent /\ receipts[n].account_id = a})

\* What the holder of a key learns and may do goes by the account of that key, as
\* it was read: an account is shown only to the holder of one of its keys, and a
\* deploy passes the gate only with a key of an account that has bought the
\* minimum, whatever is debited, credited, issued or revoked during the request.
KeyOpensItsOwnAccount ==
    \A x \in Admins :
        adm[x].result = "Ok" /\ adm[x].op \in {"read", "deploy"} =>
            /\ keys[adm[x].bearer] # Absent
            /\ adm[x].op = "read" => keys[adm[x].bearer].account_id = adm[x].account
            /\ adm[x].op = "deploy" =>
                Bought(keys[adm[x].bearer].account_id) >= MinDeployCredits
=============================================================================
