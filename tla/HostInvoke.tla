----------------------------- MODULE HostInvoke -----------------------------
(***************************************************************************)
(* The invoke route of an enclave host, from the request to the answer:    *)
(* debit the caller, resolve the function, fetch the module from the       *)
(* bucket and hash it again, compile it or take it from the host's module  *)
(* cache, run it, refund what failed before the guest, decode the guest's  *)
(* answer, and attest content hash and body when the caller sent a nonce.  *)
(*                                                                         *)
(* Functions are published meanwhile: the catalog and the bucket are those *)
(* of CatalogRegister, which Publish implements. The bucket is outside the *)
(* enclave: what it returns for a key is any bytes at all. The ledger is   *)
(* reduced to what it holds of each request; its tables are the subject of *)
(* PaidInvoke, the run itself of Executor and GuestCalls.                  *)
(***************************************************************************)
EXTENDS CatalogRegister

CONSTANTS
    Hosts,      \* enclave hosts
    Invokes,    \* invoke requests; a nonce is named after the one that drew it
    Bodies      \* response bodies

VARIABLES
    catalogReplica, \* what an eventually consistent read of the catalog may return
    inv,        \* request -> where its handler is
    modules     \* host -> hash -> the bytes its cached Module was compiled from

hostVars == <<catalogReplica, inv, modules>>
serviceVars == <<registerVars, hostVars>>

InvPC == {"idle", "debit", "resolve", "get", "cache", "compile", "run", "refund",
          "attest", "done"}

\* Errors by what becomes of the charge: none was made; refunded ("Load": whatever
\* keeps a module from being loaded); kept. PaidInvoke tells them apart by name.
FailedBeforeGuest == {"Load", "Storage"}
InvResults == FailedBeforeGuest \cup
              {"None", "Ok", "Refused", "Invoke", "Attestation", "Gone"}

Document == [nonce: Invokes, hash: Wasms, body: Bodies]

\* version: the resolved catalog row. wasm: the bytes fetched. ran: history, the
\* bytes of the module that was about to run. charged, entered: what the ledger
\* holds, and whether the guest was called. doc: the attestation document.
Invoke == [pc: InvPC, host: Hosts, function: Functions, nonce: Invokes \cup {Absent},
           version: CatalogRow \cup {Absent}, wasm: Wasms \cup {Absent},
           ran: Wasms \cup {Absent}, charged: BOOLEAN, entered: BOOLEAN,
           body: Bodies \cup {Absent}, doc: Document \cup {Absent}, result: InvResults]

HostTypeOK ==
    /\ RegisterTypeOK
    /\ catalogReplica \in [Functions -> CatalogRow \cup {Absent}]
    /\ inv \in [Invokes -> Invoke]
    /\ modules \in [Hosts -> [Wasms -> Wasms \cup {Absent}]]

HostInit ==
    /\ RegisterInit
    /\ catalogReplica = catalog
    /\ inv \in [Invokes ->
                 [pc: {"idle"}, host: Hosts, function: Functions, nonce: {Absent},
                  version: {Absent}, wasm: {Absent}, ran: {Absent},
                  charged: {FALSE}, entered: {FALSE}, body: {Absent},
                  doc: {Absent}, result: {"None"}]]
    /\ modules = [h \in Hosts |-> [w \in Wasms |-> Absent]]

-----------------------------------------------------------------------------
InvGoTo(i, pc) == inv' = [inv EXCEPT ![i].pc = pc]
InvAnswer(i, result) ==
    inv' = [inv EXCEPT ![i].pc = "done", ![i].result = result]

\* FunctionId::new, VersionLabel::new: a name or a label that is not one; nor is
\* a nonce of the wrong length, or a body that is too large, accepted.
InvalidRequest(i) == InvAnswer(i, "Refused")

\* Name, version, nonce and the size of the body are checked before anything
\* else; nonce is the one the request carries, Absent without one.
InvokeStart(i, nonce) ==
    /\ inv[i].pc = "idle"
    /\ \/ InvalidRequest(i)
       \/ inv' = [inv EXCEPT ![i].pc = "debit", ![i].nonce = nonce]
    /\ UNCHANGED modules

\* PaidInvoke::execute: the bearer and the debit, whose answer may be lost after
\* it committed.
DebitCaller(i) ==
    /\ inv[i].pc = "debit"
    /\ \/ \E err \in {"Refused", "Storage"} : InvAnswer(i, err)
       \/ inv' = [inv EXCEPT ![i].pc = "done", ![i].result = "Storage", ![i].charged = TRUE]
       \/ inv' = [inv EXCEPT ![i].pc = "resolve", ![i].charged = TRUE]
    /\ UNCHANGED modules

\* PaidInvoke::execute: an error of the invoke use case is refunded, or answered;
\* what was loaded is dropped.
FailPaid(i, err) ==
    inv' = [inv EXCEPT ![i].pc = IF err \in FailedBeforeGuest THEN "refund" ELSE "done",
              ![i].result = err, ![i].version = Absent, ![i].wasm = Absent,
              ![i].ran = Absent]

\* The refund: a failure, or an answer lost after it committed, is answered Storage.
RefundCaller(i) ==
    /\ inv[i].pc = "refund"
    /\ \/ inv' = [inv EXCEPT ![i].pc = "done", ![i].charged = FALSE]
       \/ inv' = [inv EXCEPT ![i].pc = "done", ![i].charged = FALSE, ![i].result = "Storage"]
       \/ InvAnswer(i, "Storage")
    /\ UNCHANGED modules

\* DynamoDbFunctionCatalog::resolve, an eventually consistent read. A version
\* other than latest has no row: nothing publishes one. A row with an origin
\* that does not parse is a Domain error.
Resolve(i) ==
    /\ inv[i].pc = "resolve"
    /\ \/ \E err \in FailedBeforeGuest : FailPaid(i, err)
       \/ \E row \in {catalog[inv[i].function], catalogReplica[inv[i].function]} :
            /\ row # Absent
            /\ inv' = [inv EXCEPT ![i].pc = "get", ![i].version = row]
    /\ UNCHANGED modules

\* get_object: the ways a read of the bucket fails, a missing object included. One
\* that is too large is not refunded.
GetObjectErrors == FailedBeforeGuest \cup {"Invoke"}

GetArtifactUnverified(i) ==
    /\ inv[i].pc = "get"
    /\ \/ \E err \in GetObjectErrors : FailPaid(i, err)
       \/ \E bytes \in Wasms :
            inv' = [inv EXCEPT ![i].pc = "cache", ![i].wasm = bytes]
    /\ UNCHANGED modules

\* S3ArtifactStore::get: what the bucket returned is hashed again. The bucket
\* may lose an object, or return what was never stored.
GetArtifact(i) ==
    /\ inv[i].pc = "get"
    /\ \/ \E err \in GetObjectErrors : FailPaid(i, err)
       \/ \E bytes \in Wasms :
            IF bytes = inv[i].version.content_hash
              THEN inv' = [inv EXCEPT ![i].pc = "cache", ![i].wasm = bytes]
              ELSE FailPaid(i, "Load")
    /\ UNCHANGED modules

CacheLookupRereading(i) ==
    LET hit == modules[inv[i].host][inv[i].version.content_hash] IN
    /\ inv[i].pc = "cache"
    /\ IF hit = Absent
         THEN InvGoTo(i, "compile")
         ELSE inv' = [inv EXCEPT ![i].pc = "run", ![i].ran = hit, ![i].wasm = Absent,
                      ![i].version = catalog[inv[i].function]]
    /\ UNCHANGED modules

\* cached_module: a hit skips the compiler. The lock is not held across it.
CacheLookup(i) ==
    LET hit == modules[inv[i].host][inv[i].version.content_hash] IN
    /\ inv[i].pc = "cache"
    /\ IF hit = Absent
         THEN InvGoTo(i, "compile")
         ELSE inv' = [inv EXCEPT ![i].pc = "run", ![i].ran = hit, ![i].wasm = Absent]
    /\ UNCHANGED modules

\* Compile, check the ABI and insert; two misses of one module both insert.
Compile(i) ==
    /\ inv[i].pc = "compile"
    /\ \/ FailPaid(i, "Load") /\ UNCHANGED modules
       \/ /\ inv' = [inv EXCEPT ![i].pc = "run", ![i].ran = inv[i].wasm,
                                       ![i].wasm = Absent]
          /\ modules' = [modules EXCEPT
               ![inv[i].host][inv[i].version.content_hash] = inv[i].wasm]

\* The runner fails before it calls the guest; or the guest is called and fails,
\* answers what the host cannot decode, or answers with a body.
RunGuest(i) ==
    /\ inv[i].pc = "run"
    /\ \/ FailPaid(i, "Invoke")
       \/ inv' = [inv EXCEPT ![i].pc = "done", ![i].entered = TRUE, ![i].result = "Invoke"]
       \/ \E b \in Bodies :
            inv' = [inv EXCEPT ![i].body = b, ![i].entered = TRUE,
                      ![i].pc = IF inv[i].nonce = Absent THEN "done" ELSE "attest",
                      ![i].result = IF inv[i].nonce = Absent THEN "Ok" ELSE "None"]
    /\ UNCHANGED modules

\* invoke_user_data: what a document attests to, and the nonce.
UserData(i) ==
    [nonce |-> inv[i].nonce, hash |-> inv[i].version.content_hash, body |-> inv[i].body]

AttestRefunding(i) ==
    /\ inv[i].pc = "attest"
    /\ \/ inv' = [inv EXCEPT ![i].pc = "refund", ![i].result = "Attestation"]
       \/ InvAnswer(i, "Ok")
       \/ inv' = [inv EXCEPT ![i].pc = "done", ![i].result = "Ok",
                  ![i].doc = UserData(i)]
    /\ UNCHANGED modules

AttestWithoutBody(i) ==
    /\ inv[i].pc = "attest"
    /\ inv' = [inv EXCEPT ![i].pc = "done", ![i].result = "Ok",
               ![i].doc = [UserData(i) EXCEPT !.body = Absent]]
    /\ UNCHANGED modules

\* attest_invoke: a document over content hash and body; the local attestor mints
\* none; a failed call fails the request although the guest ran.
Attest(i) ==
    /\ inv[i].pc = "attest"
    /\ \/ InvAnswer(i, "Attestation")
       \/ InvAnswer(i, "Ok")
       \/ inv' = [inv EXCEPT ![i].pc = "done", ![i].result = "Ok",
                  ![i].doc = UserData(i)]
    /\ UNCHANGED modules

ReplicateCatalog(f) ==
    /\ catalogReplica[f] # catalog[f]
    /\ catalogReplica' = [catalogReplica EXCEPT ![f] = catalog[f]]
    /\ UNCHANGED <<inv, modules>>

\* A host restarts: requests in flight fail at the caller, the cache is empty.
HostRestart(h) ==
    /\ inv' = [i \in Invokes |->
                 IF inv[i].host = h /\ inv[i].pc \notin {"idle", "done"}
                   THEN [inv[i] EXCEPT !.pc = "done", !.result = "Gone"]
                   ELSE inv[i]]
    /\ modules' = [modules EXCEPT ![h] = [w \in Wasms |-> Absent]]

InvokeStep(i) ==
    \/ DebitCaller(i) \/ Resolve(i) \/ GetArtifact(i) \/ CacheLookup(i) \/ Compile(i)
    \/ RunGuest(i) \/ Attest(i) \/ RefundCaller(i)

HostNext ==
    \/ \E i \in Invokes : InvokeStep(i) /\ UNCHANGED catalogReplica
    \/ \E h \in Hosts : HostRestart(h) /\ UNCHANGED catalogReplica
    \/ \E f \in Functions : ReplicateCatalog(f)

-----------------------------------------------------------------------------
(* Properties.                                                             *)

\* The module a host has cached under a hash is the module with that hash, for
\* every host, whatever the bucket returned and whoever compiled it.
CacheIsFaithful ==
    \A h \in Hosts, w \in Wasms : modules[h][w] \in {w, Absent}

\* What runs is what one publish of this function uploaded, under the egress
\* list of that publish.
RunsOnePublish ==
    \A i \in Invokes :
        inv[i].ran # Absent =>
            [function |-> inv[i].function, content_hash |-> inv[i].ran,
             egress_allow |-> inv[i].version.egress_allow] \in offered

\* Once the guest has been entered the debit stays, also when the attestation
\* fails afterwards and the caller gets nothing for it; a request that was refused
\* is not charged; and one whose guest was not entered stays charged only after
\* a lost ledger write, a runner error or a restart.
PaidOncePerRun ==
    \A i \in Invokes :
        /\ inv[i].entered => inv[i].charged
        /\ inv[i].result \in {"Ok", "Attestation"} => inv[i].entered
        /\ inv[i].pc = "done" /\ ~inv[i].entered /\ inv[i].charged =>
            inv[i].result \in {"Invoke", "Storage", "Gone"}
=============================================================================
