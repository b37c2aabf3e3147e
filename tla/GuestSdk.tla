------------------------------ MODULE GuestSdk ------------------------------
(***************************************************************************)
(* Functions as they are built and deployed with this repository's tools:  *)
(* `nitrum-fn deploy` collects the egress list and sends it as headers,    *)
(* and the guest is one of the runtime crate, #[runtime::main]: it decodes *)
(* the wire request, fetches through the client, encodes the response and  *)
(* makes room for it in the memory it shares with the host. The API and    *)
(* the hosts are those of GuestCalls, which meet any other guest as well.  *)
(***************************************************************************)
EXTENDS GuestCalls

VARIABLES
    deploy,     \* flags and config of a deploy that is to send its headers
    sdk         \* the guest, when it is one of the runtime crate

sdkVars == <<guestVars, deploy, sdk>>

\* out_ptr: the buffer of its fetches. out_len: what invoke is about to return.
Sdk == [out_ptr: Nat \cup {Absent}, out_len: Int \cup {Absent}]

SdkTypeOK ==
    /\ GuestTypeOK
    /\ deploy \in Headers \cup {Absent}
    /\ sdk \in Sdk \cup {Absent}

SdkInit ==
    /\ GuestInit
    /\ deploy = Absent
    /\ sdk = Absent

-----------------------------------------------------------------------------
(* Deploy.                                                                 *)

\* collect_allow_urls: --allow-url, then the config file, parsed and normalised
\* before anything is sent. A file that cannot be read ends it as well.
CliDeploy ==
    /\ pc = "idle" /\ deploy = Absent
    /\ \E urls \in Headers :
        LET origins == [i \in DOMAIN urls |-> Origin(urls[i])] IN
        /\ headers' = urls
        /\ \/ Stop("Refused") /\ UNCHANGED <<allow, deploy>>
           \/ /\ \A i \in DOMAIN urls : Parses(urls[i])
              /\ ~TooMany(origins)
              /\ allow' = Normalized(origins)
              /\ deploy' = urls
              /\ UNCHANGED <<pc, result>>
    /\ UNCHANGED <<module, memory, input, call, sdk>>

\* The API parses and normalises what deploy sent: one header per origin.
CliHeaders ==
    LET sent == [i \in 1..Cardinality(allow) |-> AsUrl(SetToSeq(allow)[i])]
        origins == [i \in DOMAIN sent |-> Origin(sent[i])] IN
    /\ pc = "idle" /\ deploy # Absent
    /\ IF (\A i \in DOMAIN sent : Parses(sent[i])) /\ ~TooMany(origins)
         THEN GoOn("headers") /\ allow' = Normalized(origins)
         ELSE Stop("Domain") /\ UNCHANGED allow
    /\ deploy' = Absent
    /\ UNCHANGED <<headers, module, memory, input, call, sdk>>

-----------------------------------------------------------------------------
(* The runtime crate.                                                      *)

InstantiateAny ==
    /\ InstantiateModule
    /\ sdk' \in {Absent, [out_ptr |-> Absent, out_len |-> Absent]}
    /\ UNCHANGED deploy

\* The guest is in its handler.
Handling == pc = "guest" /\ sdk # Absent /\ sdk.out_len = Absent

OutCapOfBody == MAX_HTTP_BODY_BYTES

\* host_fetch.rs
OUT_CAP == 512 * KiB

\* wasm_get: a buffer of OUT_CAP is allocated, in what the memory has or grows by;
\* an allocation that fails aborts the guest, a trap. A freed buffer is found again.
SdkAllocate ==
    /\ Handling /\ sdk.out_ptr = Absent
    /\ \E more \in {0, PagesFor(OUT_CAP)} :
        LET pages == memory.pages + more IN
        /\ pages * PAGE >= OUT_CAP
        /\ IF more > 0 /\ pages > Limit(memory)
             THEN Stop("Trap") /\ UNCHANGED <<memory, sdk>>
             ELSE /\ memory' = [memory EXCEPT !.pages = pages]
                  /\ sdk' = [sdk EXCEPT !.out_ptr = pages * PAGE - OUT_CAP]
                  /\ UNCHANGED <<pc, result>>
    /\ UNCHANGED <<headers, module, allow, input, call, deploy>>

\* wasm_get: how a call of the import ends. The URL is a String; one that is too
\* long is a bad argument.
WasmGet ==
    {Failed(ERR_BAD_ARGS, Absent, Absent, sdk.out_ptr, OUT_CAP)}
        \cup UNION {FetchUrl(u, sdk.out_ptr, OUT_CAP) : u \in Urls}

\* Client::get().send(): the future calls the host on its first poll. A negative
\* code is an error for the handler to see.
SdkGet ==
    /\ Handling /\ sdk.out_ptr # Absent
    /\ call' \in WasmGet
    /\ UNCHANGED <<pc, headers, module, allow, memory, input, result, deploy, sdk>>

EnsureMemoryFloor(end) == PagesForFloor(end)

\* ensure_memory: the pages the response needs.
EnsureMemory(end) == PagesFor(end)

\* IntoResponse: what a handler returns, by the size of its body and of the rest.
\* An error becomes a response too, with status 500.
Response == [body: Bodies, overhead: Overheads]

\* __invoke: what the handler returned, or its error, is encoded, and the memory
\* grown for it; -1 if it may not. Then it is copied over the request.
SdkRespond ==
    /\ Handling
    /\ \E res \in Response :
        LET end == OFFSET + WireBytes(res.body, res.overhead)
            pages == IF EnsureMemory(end) > memory.pages
                       THEN EnsureMemory(end) ELSE memory.pages IN
        \/ /\ pages > Limit(memory) /\ pages > memory.pages
           /\ sdk' = [sdk EXCEPT !.out_len = -1]
           /\ UNCHANGED <<pc, result, memory>>
        \/ /\ pages <= Limit(memory) \/ pages = memory.pages
           /\ memory' = [memory EXCEPT !.pages = pages]
           /\ \/ /\ end <= pages * PAGE
                 /\ sdk' = [sdk EXCEPT !.out_len = end - OFFSET]
                 /\ UNCHANGED <<pc, result>>
              \/ /\ end > pages * PAGE
                 /\ Stop("OutOfBounds") /\ UNCHANGED sdk
    /\ UNCHANGED <<headers, module, allow, input, call, deploy>>

SdkReturns ==
    /\ pc = "guest" /\ sdk # Absent /\ sdk.out_len # Absent
    /\ ReadOutput(sdk.out_len)
    /\ UNCHANGED <<deploy, sdk>>

SdkNext ==
    \/ deploy = Absent /\ HostStep /\ UNCHANGED <<deploy, sdk>>
    \/ CliDeploy \/ CliHeaders
    \/ InstantiateAny
    \/ sdk = Absent /\ AnyGuest /\ UNCHANGED <<deploy, sdk>>
    \/ SdkAllocate \/ SdkGet \/ SdkRespond \/ SdkReturns

SdkSpec == SdkInit /\ [][SdkNext]_sdkVars

-----------------------------------------------------------------------------
(* Properties.                                                             *)

\* Every upstream answer that the host accepts reaches an SDK guest: encoded, it
\* fits the buffer the client offers, in the memory it has. The limit of the host
\* and the buffer of the guest are constants of two crates.
SdkFetchDelivers ==
    sdk # Absent /\ call.answer # Absent /\ call.answer <= MAX_HTTP_BODY_BYTES =>
        call.written = Envelope(call.answer)
=============================================================================
