# A TLA+ verification project for nitrum-fn

nitrum-fn is a pay-per-invoke function service. Authors publish WebAssembly
modules through an API; callers invoke them on hosts that run inside Nitro
enclaves and pay with invoke credits bought by x402 payments. API tasks and
hosts keep no state of their own beyond a module cache. Everything else is in
DynamoDB tables and an S3 bucket, shared by all of them, and every handler is an
async function whose future may be dropped at any `await`. What can go wrong is
therefore nearly always an interleaving: a row read before an await and used
after it, a write whose answer is lost, a lock that expired, a crash between
two writes.

This directory holds TLA+ modules translated from the code, TLC configurations
that check them on small instances, and TLAPS proofs for every instance.
`PROJECT.json` maps each definition to the lines it models.

## 1. Inventory

| Component | State | Operations | Interacts with |
|---|---|---|---|
| Ledger, `accounts/src/store.rs` | accounts, keys, receipts tables | create, put_key, revoke, debit, refund, credit; reads without `ConsistentRead` | called by hosts and API tasks concurrently |
| Paid invoke, `usecases/paid_invoke.rs` | the request's receipt | debit, run, refund | ledger, invoke use case |
| Credit purchase, `usecases/accounts.rs`, `payments/` | attempt counter | price, check_exact, credited_balance, settle, credit with 3 attempts | ledger, x402 facilitator and the chain |
| Key administration and deploy gate, `usecases/accounts.rs`, `api/src/accounts_http.rs`, `api/src/http.rs` | none | create, issue_key, revoke, read, gate | ledger |
| Publish, `usecases/publish.rs`, `catalog/`, `artifacts/` | lock table (TTL), catalog table, bucket | acquire, put, upsert, release | clock of each API task; hosts read the catalog |
| Invoke route, `host/src/http.rs`, `usecases/invoke.rs` | module cache per host | resolve, get and re-hash, compile, run, attest | catalog, bucket, executor, attestation service |
| Executor, `executor/src/` | epoch counter, one store per run | instantiate, invoke, http_get, epoch interrupt, ticker thread | blocking thread pool, outbound HTTPS |
| ABI check, egress parsing, x402 parsing | none (pure) | | |
| CLI, `cli/src/commands/` | one process per command | account create and credit, invoke with hash and attestation checks, deploy | API tasks, hosts, the user's prompt |
| Guest SDK, `runtime/` | the guest's memory | decode, fetch, encode, grow | the executor's ABI |
| Telemetry, configuration, infrastructure, examples | | | |

What makes each correct:

- **Ledger and paid invoke.** Credits are conserved; caps are respected; a guest
  never runs unpaid; a refused caller is not charged; a revoked key is dead.
- **Credit purchase.** A payment is credited at most once, only after it settled,
  for as many invokes as it pays for, and is never lost silently. The CLI signs
  what was quoted, within its cap, or nothing.
- **Key administration.** Only an uncapped key of an account changes its keys; an
  acknowledged revocation holds; a key opens its own account only.
- **Publish.** The catalog never names a missing artifact, never goes back, never
  mixes two publishes; one live lock per function; a crash blocks nobody forever.
- **Invoke route.** What is cached and run is one publish, each run is paid for,
  and what the CLI prints after its checks is what the named module returned.
- **Executor.** The epoch stops no guest before its time; every guest is stopped.
- **Guest boundary.** What publish accepts, hosts run; a guest reaches what its
  publisher named and nothing else; the host's accesses stay inside the buffers;
  an SDK guest gets every answer the host accepts.

The hazards (concurrent debits, stale reads, lost and late writes, drops, TTL
expiry, clock skew, deadlines that are not looked at) are listed with their
lines in `PROJECT.json`.

## 2. Modules

| Module | Models | Composes |
|---|---|---|
| `AccountStore` | the tables, a lagging replica of each, every conditional write | |
| `PaidInvoke` | `PaidInvoke::execute` with `debit` and `refund` step by step | `AccountStore` |
| `CreditEscrow` | what the ledger promises: take the cost, then use it or return it, once | |
| `PaidInvokeProofs` | theorems about `PaidInvoke` | `PaidInvoke`, `CreditEscrow` |
| `CreditPurchase` | `Accounts::credit`, the settler with its prices and checks, the chain (external) | `AccountStore` |
| `Checkout` | `account create` and `account credit` of the CLI: quote, decision, signature, paid request | `CreditPurchase` |
| `CreditSums`, `CheckoutProofs` | lemmas about sums of receipts; theorems about `CreditPurchase` and `Checkout` | `Checkout` |
| `KeyAdmin` | `create`, `issue_key`, `revoke`, `read`, the deploy gate | `AccountStore` |
| `KeyAdminProofs` | theorems about `KeyAdmin` | `KeyAdmin` |
| `CatalogRegister` | what publishing promises to hosts: a register per function that moves forward | |
| `Publish` | `PublishFunction::execute`, lock, bucket, catalog | implements `CatalogRegister` |
| `PublishProofs` | theorems about `Publish` | `Publish`, `CatalogRegister` |
| `HostInvoke` | the host's invoke route, from debit to attestation | `CatalogRegister` |
| `InvokeClient` | `nitrum-fn invoke`: hash and attestation checks, an unauthenticated connection | `HostInvoke` |
| `InvokeClientProofs` | theorems about `HostInvoke` and `InvokeClient` | `InvokeClient` |
| `Executor` | `invoke_sync`, `http_get`, `map_wasm_err`, the epoch ticker and the clock it sleeps by | |
| `ExecutorProofs` | theorems about `Executor` | `Executor` |
| `EgressOrigins` | `EgressOrigin::parse`, the allow list, `is_allowed`, as operators | |
| `GuestAbi` | `assert_abi`, `assert_abi_bytes`, as operators | |
| `GuestCalls` | one guest from upload to answer: headers, ABI checks, catalog row, wire sizes, buffers, `http_get` | `EgressOrigins`, `GuestAbi` |
| `GuestSdk` | `nitrum-fn deploy`'s egress list, and a guest of the `runtime` crate | `GuestCalls` |
| `GuestSdkProofs` | theorems about `GuestCalls` and `GuestSdk` | `GuestSdk` |
| `MC*` | symmetry sets and constant values for TLC | |

**State.** A table is a function from keys to rows, `Absent` where there is no
row. Each table that is read without `ConsistentRead` has a replica that catches
up row by row (in a module whose handlers read that table); a read returns the
table's row or the replica's. A request is a
record with a program counter, whose values are the awaits of its handler, and
the values the handler has read. Variables marked *history* (`credited`, `cap`,
`charge`, `entered`, `holder`, `issuer`, ...) record what happened and guard
nothing.

**Actions.** One action per await: what the code does between two awaits, every
branch and error included. A conditional write is one atomic step on the tables.
It commits, is refused, or its answer is lost, after or without taking effect.
In `CreditPurchase` and `Publish` a write nobody waits for can commit any number
of steps later (`LateCredit`, `LateWrite`), because a retry or another request
may run meanwhile. In `PaidInvoke` and `KeyAdmin` the handler does nothing but
answer after a lost write, so the commit is put at the answer. The `...Drop`
actions drop the request's future. In `HostInvoke` a request ends early only when
its host restarts: a drop of one request is `PaidInvoke`'s.

**Composition.** Hosts see of the publish pipeline only the catalog and the
bucket. `Publish` is shown to implement `CatalogRegister` (`CatalogIsRegister`),
and `HostInvoke` extends the register in its place: any order of uploads and
catalog writes the register allows, a superset of what the publishers do. So the
lock's clocks and the hosts' caches need not be explored together. In the same
way `HostInvoke` keeps of the ledger only whether a request stands charged; the
tables are `PaidInvoke`'s. `HostInvoke` groups errors by what becomes of the
charge: no charge was made (`Refused`), it is refunded (`Load`, `Storage`), it is
kept (`Invoke`, `Attestation`); `PaidInvoke` names them one by one.

**Data.** Secrets, hashes, modules, origins and bodies are atoms (modules
and origins have parts, and bodies sizes, in `GuestCalls`). A payment is the
amount, asset and payee that its nonce was signed with; the amount due is a
product with a u64 bound (`MAX_U64`). A key
id is in bijection with its secret hash, a module with its content hash: SHA-256
is taken as injective. Balances are naturals; DynamoDB numbers do not wrap.
Publish generations are in milliseconds and the lock's times in seconds, as in
the code (`Secs`, `Second`); the two clock readings of a publish have no await
between them and are one.

**Mutants.** The definitions named after another with a suffix
(`RefundTxForgettingCap`) are plausible mistakes in that place. No specification
uses them. They are substituted one at a time to see that each property can fail.

## 3. What the runs check

Every passing run explores its whole state space. Deadlock is not checked: all
requests may be answered, and then the model has nothing left to do.

| Run | Instance | Shows |
|---|---|---|
| `paid_invoke` | 2 accounts, 2 keys, 1 payment of 3, cost 2, cap 3, 2 requests | `CreditsConserved`, `CapConserved`, `GuestIsPaid`, `KeyHolderPays`, `UnearnedChargeExplained`, `RevocationIsFinal`, the inductive `LedgerInv` (with `RefusedNotCharged` as a conjunct), and `LedgerIsEscrow` (refinement) |
| `credit_purchase` | 2 accounts, 1 nonce, 2 requests, one of them a CLI checkout, prices 2 and 3, `MAX_U64` 7, 2 attempts | `CreditsArePaidFor`, `OkMeansCredited`, `SettledAccountedFor`, `CheckoutKeepsItsWord`, `BuyersAnswered` |
| `key_admin` | 2 accounts, 2 keys, 2 requests, a payment, debits, a gate of 1 credit | `UncappedKeyBehindEveryChange`, `RevokeOkMeansRevoked`, `KeyOpensItsOwnAccount` |
| `publish` | 2 publishes, 2 modules, skew 1, 1 late write | `AnswerMatchesCatalog`, `SupersededByConcurrent`, `LockExcludes`, `CatalogIsRegister` (refinement), `CrashedPublishUnblocks` |
| `host_invoke` | 1 host, 2 invokes, one of them the CLI's, 2 publishes, 2 bodies | `CacheIsFaithful`, `RunsOnePublish`, `PaidOncePerRun`, `PrintedMeansRan` |
| `executor` | 2 runs on one engine, a tick of 2 units, 2 ticks, a ticker up to 1 late | `NotInterruptedEarly`, `RunIsBounded`, `EveryRunEnds` |
| `guest_calls` | 1 module from deploy to answer, any guest or an SDK guest, the code's own size limits | `ChecksAgree`, `ReachesWhatWasNamed`, `WritesOnlyTheBuffer`, `GrowthSuffices`, `SdkFetchDelivers` |

**Bounds, and why they are enough.** With cost 2, cap 3 and 3 credits one of two
requests can be paid for, so every race for the last credits and every refund
back into a contended balance happens. Two requests with one payment and two
accounts are the smallest instance of a payment that is shared, replayed or sent
to the wrong account. With a largest u64 of 7, four invokes at 2 or at 3 overflow
and two do not, and a product of 12 would wrap to 4, an amount clients can sign.
Quote and payment can meet different prices. `MaxTime` is twice the lock's term, so a lock expires under
a slow publisher and is taken over; `Second = 2` makes two publishes meet in one
second. `MaxLate = 1` lets one write overtake. In `Executor` the
ticker sleeps for two units of the clock and may be one late in every round, so
stores are made at and between increments; a time-out of 5 is two ticks and a
half, which the code rounds down to two. `StraightLine` bounds the host calls a
guest makes in a row without passing an epoch check, `MaxLag` what a round of the
ticker takes beyond its sleep. Both bounds on a run are met exactly:
`NotInterruptedEarly` with `>` and `RunIsBounded` with `<` are violated.
`GuestCalls` and `GuestSdk` use the sizes of the code (64 KiB pages, 1 MiB
bodies, 256 KiB fetches, a 512 KiB fetch buffer); lengths, pointers, bodies and
page counts are the values at and next to each boundary. The list limit is 2, so
that a list of three is beyond it. Modules have up to two types, two imports and
two functions, enough for an import to shift the index of `invoke`. In
`InvokeClient` one generation is enough, since a register may serve its offers in
any order within one; the two publishes differ in module or only in egress list,
and the other caller may use the CLI's nonce, and its document reach the CLI.

**Symmetry.** Requests, keys, accounts and modules are symmetric sets only in
runs whose properties are safety properties. Runs with a liveness property use
none.

**Fairness.** `FairCheckoutSpec`: weak fairness of each handler's next step; a request
that is not dropped is polled to its end. The CLI and its user owe nothing. `FairPublishSpec`: only the clock is
fair; every publisher may have been killed. `FairExecutorSpec`: time
passes, the ticker thread runs, `http_get` returns (ureq has a timeout) and the epoch check that
Wasmtime compiles into guest code interrupts. The guest owes nothing.

**What the CLI's checks show.** `PrintedMeansRan` covers content hash, body and
nonce, which is what a document attests to. It does not attest to the status, the
headers or the request: over `--insecure` those may be anybody's, and no property
claims otherwise. `CheckoutKeepsItsWord` says of an "Ok" that the payment is
credited, not to which account: a second request with the same header may have
sent it elsewhere (`credit_purchase_replay`).

**Disagreements between code and text.** Five runs check a sentence of the
repository and find it violated; `PROJECT.json` quotes each.

| Run | What the code does |
|---|---|
| `paid_invoke_refund` | errors the runner raises before the guest (oversize wire request, failed instantiation) keep the debit |
| `credit_purchase_transient` | a credit cancelled by a write conflict is answered NotFound and not retried, after the payment settled |
| `credit_purchase_replay` | a payment credited to one account is answered Ok for another |
| `publish_release` | a late release deletes the lock of a newer publish of the same module |
| `executor_deadline` | a guest blocked in `http_get` runs past its wall-clock deadline |

Four more were met on the way and are kept as hazards: a lagging receipt read
sends a credited payment to the facilitator again; a successful revoke may report
that it changed the balance when something else did; a key revoked between check
and write still issues a key; and a trap may be answered as a time-out.

The last is in `is_interrupt` (`wasmtime_runner.rs:336-341`): it takes any error
whose text contains "interrupt" for the epoch's, and `map_wasm_err` asks it first.
The text of a trap lists the guest's functions, so a guest that traps at once in a
function named `on_interrupt` is answered `Timeout`, "epoch deadline", 504, where
`application/src/error.rs:47` has "Guest hit the wall-clock invoke deadline
(Wasmtime epoch interrupt)". `Executor` models it (`IsInterrupt`, `MapWasmErr`), for
every error that wasmtime raises and whatever the guest names its functions.
`NotInterruptedEarly` is therefore about the trap that ended the run, kept as a
history field, and says nothing of such an answer. Charges do not depend on it:
`failed_before_guest` lists neither error.

**What a guest is promised.** The first increment of the epoch after `new_store` may
come at once, so of `DeadlineTicks` ticks a guest gets all but one for certain: with
the code's own constants almost `INVOKE_TIMEOUT`, with a time-out of less than two
ticks nothing. That is what `NotInterruptedEarly` says. Upwards, the ticker's delays
add up: each of the 1500 sleeps of a run may be late, hence the `DeadlineTicks *
(EpochTick + MaxLag)` in `RunIsBounded`.

## 4. What is proved

Every safety property that a passing run checks on its instance is a theorem,
checked by TLAPS, for every value of the constants, and so are the two
refinements.

| Module | Theorem | Statement |
|---|---|---|
| `PaidInvokeProofs` | `LedgerInvariant` | `Spec => []LedgerInv` |
| | `TypeCorrect` | `Spec => []InvokeTypeOK` |
| | `Conservation` | `Spec => []CreditsConserved` |
| | `CapRespected` | `Spec => []CapConserved` |
| | `NoFreeGuest` | `Spec => []GuestIsPaid` |
| | `PayerIsKeyHolder` | `Spec => []KeyHolderPays` |
| | `ChargesExplained` | `Spec => [](RefusedNotCharged /\ UnearnedChargeExplained)` |
| | `RevocationHolds` | `Spec => RevocationIsFinal` |
| | `ImplementsEscrow` | `Spec => LedgerIsEscrow` |
| `CheckoutProofs` | `CheckoutInvariant` | `CheckoutSpec => []CheckoutInv` |
| | `CheckoutTypeCorrect` | `CheckoutSpec => []CheckoutTypeOK` |
| | `CreditsPaidFor` | `CheckoutSpec => []CreditsArePaidFor` |
| | `OkIsCredited` | `CheckoutSpec => []OkMeansCredited` |
| | `SettledIsAccountedFor` | `CheckoutSpec => []SettledAccountedFor` |
| | `CheckoutIsHonest` | `CheckoutSpec => []CheckoutKeepsItsWord` |
| `KeyAdminProofs` | `AdminInvariant` | `AdminSpec => []AdminInv` |
| | `AdminTypeCorrect` | `AdminSpec => []AdminTypeOK` |
| | `OnlyUncappedKeysAdminister` | `AdminSpec => []UncappedKeyBehindEveryChange` |
| | `RevokedStaysRevoked` | `AdminSpec => []RevokeOkMeansRevoked` |
| | `KeysOpenTheirOwnAccount` | `AdminSpec => []KeyOpensItsOwnAccount` |
| `PublishProofs` | `PublishInvariant` | `PublishSpec => []PublishInv` |
| | `PublishTypeCorrect` | `PublishSpec => []PublishTypeOK` |
| | `AnswersAreTrue` | `PublishSpec => []AnswerMatchesCatalog` |
| | `LockIsExclusive` | `PublishSpec => []LockExcludes` |
| | `SupersededIsConcurrent` | `PublishSpec => []SupersededByConcurrent` |
| | `PublishImplementsRegister` | `PublishSpec => CatalogIsRegister` |
| `InvokeClientProofs` | `ClientInvariant` | `ClientSpec => []ClientInv` |
| | `ClientTypeCorrect` | `ClientSpec => []ClientTypeOK` |
| | `CachesAreFaithful` | `ClientSpec => []CacheIsFaithful` |
| | `EveryRunIsOnePublish` | `ClientSpec => []RunsOnePublish` |
| | `RunsArePaidOnce` | `ClientSpec => []PaidOncePerRun` |
| | `PrintedBodiesWereComputed` | `ClientSpec => []PrintedMeansRan` |
| `ExecutorProofs` | `ExecutorInvariant` | `ExecutorSpec => []ExecutorInv` |
| | `ExecutorTypeCorrect` | `ExecutorSpec => []ExecutorTypeOK` |
| | `NeverEarly` | `ExecutorSpec => []NotInterruptedEarly` |
| | `RunsAreBounded` | `ExecutorSpec => []RunIsBounded` |
| `GuestSdkProofs` | `SdkInvariant` | `SdkSpec => []SdkInv` |
| | `SdkTypeCorrect` | `SdkSpec => []SdkTypeOK` |
| | `AbiIsOne` | `SdkSpec => []ChecksAgree` |
| | `GuestsReachWhatWasNamed` | `SdkSpec => []ReachesWhatWasNamed` |
| | `HostWritesOnlyTheBuffer` | `SdkSpec => []WritesOnlyTheBuffer` |
| | `GrowthAlwaysSuffices` | `SdkSpec => []GrowthSuffices` |
| | `SdkFetchesDeliver` | `SdkSpec => []SdkFetchDelivers` |

The specifications with fairness imply these, so each theorem covers the run that
checks its property.

**Assumptions.** Only the named assumptions of the modules, which TLC evaluates in
the runs. They type the constants, and say that `Absent` is no row
(`AbsentAssumption`; `NoRowAssumption` for lock and catalog rows,
`NoPaymentAssumption` for nonces and signed terms) and that the hosts' PCR0 is not
the value `"other"`, which stands for what somebody else may claim
(`ClientAssumption`). No bound of a run is assumed: numbers of actors, prices,
retries, the lock's term, clock skew and the sizes of modules, lists and buffers
are arbitrary. In `Executor` and `Publish` the clocks are still bounded by a constant,
which may be any number; the size limits of `GuestCalls` are those of `limits.rs`.

**The ledger.** `CreditsConserved` is not inductive: a refund adds the cost to the
account its receipt names, and conserves credits only if that account is still
the one the debit took it from and the debit still stands. `LedgerInv` therefore
adds that a key's account and capped flag never change, so that a row read long
ago, even from a replica, agrees with the table (`ReplicaAgrees`,
`RequestKeyAgrees`); that a key's account exists (`KeyHasAccount`); and what the
ledger holds at each point of a handler (`ChargeFollowsPC`: nothing before the
debit, the cost from then on, and on the way to a refund a standing charge and no
guest). Each debit adds one request to `HeldOn` and `HeldBy` and each refund
removes one, so the cardinalities move by one with the balance. The refinement
maps the accounts table to the escrow's balances, the credits `credit()` ever
added to its deposits, a request's charge to its escrow, `used` once its guest
was entered, and its payer to the account of the row it read. A committed debit
is `Reserve`, also when its answer is lost or its request dropped, a committed
refund `Return`; reads and key writes are stutters.

**The purchase.** A receipt is written by a request, possibly long after that
request was dropped, so the invariant says what a request knows from the moment
it accepts a payment: the payment is signed over the price of the invokes asked
for (`Backed`), and once it credits, or has a write on its way, the payment is
settled (`BuyerOK`). Signatures, settlements and receipts are never taken back
(`Grows`), so what one request knows survives the steps of the others.
`SessionOK` ties a session of the CLI to its quote and to the request that carries
its header. That an account was credited the sum of its receipts is an induction:
`CreditSums` shows, over the size of the set, that the function `MapThenSumSet`
iterates exists, that the order of summation does not matter, and that a new
receipt adds its invokes (`InvokesAdd`). The library's induction theorems take an
operator, so the induction is stated over a set of numbers (`NatSetInduction`).

**Key administration.** A key is judged by a row read some awaits ago. The
invariant compares rows of one key by age (`Earlier`: same account, same flag, a
revocation not undone): replicas and rows held are earlier than the table's,
which is why a stale row never grants more than the key had when it was issued.
A balance is at most what was bought (`BalancesBought`), which carries the deploy
gate through a stale read.

**Publish.** Writes may commit after their publish has moved on or died. `LateOK`
says that a late write was sent by a publish that had come far enough (a late
upsert has its artifact in the bucket), `HolderOK` that the lock row is that of its
holder and runs for its term, `AnswerOK` what a publish knows of the catalog, which
is safe to know because generations only grow. The refinement maps uploads to the
register's and a committed upsert, on time or late, to the register's step, whose
guards (the module is stored, the generation no older, the row one publish's)
follow from these.

**Hosts and the CLI.** Every row, copied or not, is what one publish offered
(`RowsOffered`). A request's version, bytes and run agree step by step
(`LoadsItsVersion`), as do its charge and its steps (`PaysItsRun`). A document
says what its request ran (`AttestsItsRun`), and a document with the hosts' PCR0
comes from such a request. `PrintedIsFinal` is the step from there to the CLI: the
requests a printed body rests on are done, so nothing changes them afterwards.

**Executor.** `TickerInTime` bounds when the next increment comes.
`DeadlineFromStart` relates the shared epoch to one run by the number of increments
the run has `Seen`: n of them need n - 1 full sleeps of the ticker, since the first
may come right after the store was made, and take n rounds, delays included, at
most. Neither depends on the other runs. Both are stated for the time of the next
increment, which is what an increment carries over. `FetchesEnd` bounds how far past
its deadline a run can be at its n-th host call in a row.

**Guests.** From the headers on the list is what they name and parses to itself
(`ListKept`); a stored module passed `assert_abi_bytes` (`ModuleKept`); what was
written, and an SDK guest's buffer, lie in the memory, which only grows
(`CallsInMemory`). The lemmas underneath: a sequence has no more elements than
places, so a list the CLI accepted is accepted by the API (`AcceptedIsWithinLimit`,
`ShortIsAccepted`) and `SetToSeq` lists all of it (`ListsAll`); each imported
function is one of the imports (`ImportedFuncsAreImports`), so that both ABI checks
look at the same signature (`AbiChecksAgree`); pages are rounded up
(`PagesHold`); base64 of the largest body accepted fits the buffer (`Sizes`).

**Only model-checked.** The liveness properties `BuyersAnswered`,
`CrashedPublishUnblocks` and `EveryRunEnds`: fairness and `ENABLED` are out of the
prover's reach. The five disagreements are counterexamples of TLC.

## 5. Not modelled

- Characters: JSON bodies, headers, base64 alphabets and hex. Malformed input is
  one refusal; encodings are modelled by the sizes and fields they yield. Of an
  egress URL the parts are modelled; which host names are accepted is a constant.
  An explicit port 443 and no port are two origins, as in the code.
- Cryptography: SHA-256 is injective, a signature covers exactly its fields, and
  a document with the hosts' PCR0 is one a host minted.
- WebAssembly validation and compilation (Wasmtime). DNS resolution, which ureq's
  timeout does not cover.
- The chain and the facilitator beyond "executes an authorization at most once".
- Resource limits that are not in the code's state: the size of the module
  cache, the tokio worker and blocking pools.
- Where the linker places an SDK guest's stack and heap: that the response, which
  is copied to offset 64, meets nothing live there is the toolchain's affair.
- The GET routes of functions and versions, `describe`, and the scaffold of
  `new`: they read or write nothing that others share.
- Telemetry, configuration and `main` wiring, infrastructure, examples and their
  contract.

## 6. Plan

Done, in this order: the ledger with the paid invoke and its proofs; the credit
purchase, then its amounts, prices and the CLI's checkout; key administration and
the deploy gate; publish, then the register it implements; the host's invoke
route, then the charge around it and the CLI that verifies it; the executor; the
guest boundary, then deploy's list and the SDK's guest.

Then the proofs: the executor, hosts and CLI, publish with its refinement, the
purchase with its sums, key administration, the guest boundary.

Next:

1. Action properties worth stating beside the invariants, with their theorems.
2. `Executor` and `GuestCalls` as one machine, with several guests of one host.
