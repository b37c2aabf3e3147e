----------------------------- MODULE GuestCalls -----------------------------
(***************************************************************************)
(* The boundary between a guest and its host, from the upload of a module  *)
(* to its answer: the publish headers and the ABI check on the API task,   *)
(* the catalog row, and on the host the second ABI check, the input buffer *)
(* (invoke_sync), the http_get import and the output buffer. The guest may *)
(* call http_get with any arguments and return any length.                 *)
(*                                                                         *)
(* Sizes are in bytes, and the limits those of the code; the sizes that    *)
(* callers, guests and upstreams choose are constants, to be taken around  *)
(* every boundary. Deadlines are in module Executor.                       *)
(***************************************************************************)
EXTENDS EgressOrigins, GuestAbi, Integers

CONSTANTS
    Urls,               \* URLs of headers and guests
    Headers,            \* sequences of URLs sent with a publish
    Modules,            \* uploaded modules
    Ptrs, Lens,         \* the i32 pointers and lengths a guest passes
    OutLens,            \* the i32 values a guest returns
    Bodies,             \* sizes of request bodies
    Overheads,          \* sizes of what the wire format puts around a body
    PageCounts,         \* pages a module declares, at least and at most
    HttpBodies          \* sizes of upstream answers

ASSUME GuestAssumption ==
    /\ Urls \subseteq Url /\ Headers \subseteq Seq(Urls)
    /\ Modules \subseteq WasmModule
    /\ Ptrs \subseteq Int /\ Lens \subseteq Int /\ OutLens \subseteq Int
    /\ Bodies \subseteq Nat /\ Overheads \subseteq Nat
    /\ PageCounts \subseteq Nat /\ HttpBodies \subseteq Nat

\* limits.rs, and a page of WebAssembly.
KiB == 1024
PAGE == 64 * KiB
OFFSET == 64
MAX_INVOKE_BODY_BYTES == 1024 * KiB
MAX_GUEST_OUTPUT_BYTES == 1024 * KiB
MAX_GUEST_MEMORY_BYTES == 64 * 1024 * KiB
MAX_HTTP_URL_BYTES == 2 * KiB
MAX_HTTP_BODY_BYTES == 256 * KiB

VARIABLES
    pc,         \* where the publish, and then the run, is
    headers,    \* history: the headers of the publish
    module,     \* the module, while it is looked at
    allow,      \* the egress list: of the request, the row, the store
    memory,     \* pages of the guest's memory, and the most it declares
    input,      \* size of the wire request, until it is written
    call,       \* history: the last http_get
    result

guestVars == <<pc, headers, module, allow, memory, input, call, result>>

NoCall == [code |-> 0, out_ptr |-> 0, out_cap |-> 0, written |-> 0,
           fetched |-> Absent, answer |-> Absent]
NoMemory == [pages |-> 0, max |-> 0]

ERR_BAD_ARGS == -1
ERR_DENIED == -2
ERR_TIMEOUT == -3
ERR_TOO_LARGE == -4
ERR_TRANSPORT == -5

GuestPC == {"idle", "headers", "published", "compile", "run", "instantiate",
            "input", "guest", "done"}
GuestResults == {"None", "Refused", "Domain", "Compile", "PayloadTooLarge",
                 "Invoke", "Trap", "OutOfBounds", "Ok"}

GuestTypeOK ==
    /\ pc \in GuestPC /\ result \in GuestResults
    /\ headers \in Headers \cup {<<>>}
    /\ module \in Modules \cup {Absent}
    /\ allow \subseteq EgressOrigin /\ Cardinality(allow) <= MAX_EGRESS_ALLOW
    /\ memory \in [pages: Nat, max: Nat]
    /\ memory.pages * PAGE <= MAX_GUEST_MEMORY_BYTES
    /\ memory.pages <= memory.max
    /\ input \in 0 .. MAX_INVOKE_BODY_BYTES
    /\ call \in [code: Int, out_ptr: Int, out_cap: Int, written: Nat,
                 fetched: Urls \cup {Absent}, answer: HttpBodies \cup {Absent}]

GuestInit ==
    /\ pc = "idle" /\ headers = <<>> /\ module = Absent /\ allow = {}
    /\ memory = NoMemory /\ input = 0
    /\ call = NoCall /\ result = "None"

Stop(r) == pc' = "done" /\ result' = r
GoOn(next) == pc' = next /\ UNCHANGED result

-----------------------------------------------------------------------------
(* The API task and the catalog.                                           *)

\* parse_allow_headers: every header parses and they are not too many.
PublishHeaders ==
    /\ pc = "idle"
    /\ \E hs \in Headers :
        LET origins == [i \in DOMAIN hs |-> Origin(hs[i])] IN
        /\ headers' = hs
        /\ \/ /\ (\E i \in DOMAIN hs : ~Parses(hs[i])) \/ TooMany(origins)
              /\ Stop("Refused") /\ UNCHANGED allow
           \/ /\ (\A i \in DOMAIN hs : Parses(hs[i])) /\ ~TooMany(origins)
              /\ GoOn("headers") /\ allow' = Normalized(origins)
    /\ UNCHANGED <<module, memory, input, call>>

\* validate_sync; a module that passes is stored and the row written.
Validate ==
    /\ pc = "headers"
    /\ \E m \in Modules :
        /\ module' = m
        /\ IF Validates(m) /\ AssertAbiBytes(m) THEN GoOn("published") ELSE Stop("Refused")
    /\ UNCHANGED <<headers, allow, memory, input, call>>

\* resolve: version_from_item parses the stored origins again; one that does not
\* parse is an error.
ResolveRow ==
    /\ pc = "published"
    /\ IF \A o \in allow : Parses(AsUrl(o))
         THEN /\ GoOn("compile")
              /\ allow' = {Origin(AsUrl(o)) : o \in allow}
         ELSE Stop("Domain") /\ UNCHANGED allow
    /\ UNCHANGED <<headers, module, memory, input, call>>

-----------------------------------------------------------------------------
(* The host.                                                               *)

\* cached_module: the compiled module is checked again.
CompileModule ==
    /\ pc = "compile"
    /\ IF AssertAbi(module) THEN GoOn("run") ELSE Stop("Compile")
    /\ module' = Absent
    /\ UNCHANGED <<headers, allow, memory, input, call>>

\* base64 with padding
Base64(n) == 4 * ((n + 2) \div 3)

\* encode_request, encode_response: JSON around the body in base64.
WireBytes(body, overhead) == overhead + Base64(body)

\* A request, by the size of its body and of the rest.
Request == [body: Bodies, overhead: Overheads]

\* The route limits the body, invoke_sync what it is wire-encoded to.
CheckInput ==
    /\ pc = "run"
    /\ \E req \in Request :
        LET wire == WireBytes(req.body, req.overhead) IN
        IF req.body > MAX_INVOKE_BODY_BYTES \/ wire > MAX_INVOKE_BODY_BYTES
          THEN Stop("PayloadTooLarge") /\ UNCHANGED input
          ELSE GoOn("instantiate") /\ input' = wire
    /\ UNCHANGED <<headers, module, allow, memory, call>>

\* StoreLimits
Limit(m) == IF m.max * PAGE <= MAX_GUEST_MEMORY_BYTES
              THEN m.max ELSE MAX_GUEST_MEMORY_BYTES \div PAGE

\* instantiate: the module declares a minimum and a maximum of pages; a minimum
\* beyond the limit fails.
InstantiateModule ==
    /\ pc = "instantiate"
    /\ \E max \in PageCounts : \E pages \in {n \in PageCounts : n <= max} :
        \/ /\ pages > Limit([pages |-> pages, max |-> max])
           /\ Stop("Invoke") /\ UNCHANGED memory
        \/ /\ pages <= Limit([pages |-> pages, max |-> max])
           /\ GoOn("input") /\ memory' = [pages |-> pages, max |-> max]
    /\ UNCHANGED <<headers, module, allow, input, call>>

PagesForFloor(n) == n \div PAGE

\* div_ceil
PagesFor(n) == (n + PAGE - 1) \div PAGE

\* Grow the memory to hold n bytes, when it does not, then access them; memory
\* that may not grow is an error, and so is an access beyond its end.
GrowAndAccess(n, next) ==
    LET pages == IF PagesFor(n) > memory.pages THEN PagesFor(n) ELSE memory.pages IN
    IF pages > Limit(memory) /\ pages > memory.pages
      THEN Stop("Invoke") /\ UNCHANGED memory
      ELSE /\ memory' = [memory EXCEPT !.pages = pages]
           /\ IF n <= pages * PAGE THEN next ELSE Stop("OutOfBounds")

WriteInput ==
    /\ pc = "input"
    /\ GrowAndAccess(OFFSET + input, GoOn("guest"))
    /\ input' = 0
    /\ UNCHANGED <<headers, module, allow, call>>

GuestGrows ==
    /\ pc = "guest"
    /\ \E pages \in PageCounts :
        /\ pages > memory.pages /\ pages <= Limit(memory)
        /\ memory' = [memory EXCEPT !.pages = pages]
    /\ UNCHANGED <<pc, headers, module, allow, input, call, result>>

InMemory(ptr, len) == ptr + len <= memory.pages * PAGE

\* http_get_host: the checks before the URL is looked at.
ArgsOk(url_ptr, url_len, out_ptr, out_cap) ==
    /\ url_ptr >= 0 /\ url_len >= 0 /\ out_ptr >= 0 /\ out_cap >= 0
    /\ url_len <= MAX_HTTP_URL_BYTES /\ out_cap # 0
    /\ InMemory(url_ptr, url_len)

\* The call as it ends with a code; what was written, and what was fetched.
Failed(code, u, answer, out_ptr, out_cap) ==
    [code |-> code, out_ptr |-> out_ptr, out_cap |-> out_cap, written |-> 0,
     fetched |-> u, answer |-> answer]

DeliverTruncating(len, u, answer, out_ptr, out_cap) ==
    [Failed(len, u, answer, out_ptr, out_cap) EXCEPT
        !.written = IF len > out_cap THEN out_cap ELSE len]

\* The envelope is written as a whole, or not at all.
Deliver(len, u, answer, out_ptr, out_cap) ==
    IF len > out_cap
      THEN Failed(ERR_TOO_LARGE, u, answer, out_ptr, out_cap)
      ELSE IF ~InMemory(out_ptr, len)
        THEN Failed(ERR_BAD_ARGS, u, answer, out_ptr, out_cap)
        ELSE [Failed(len, u, answer, out_ptr, out_cap) EXCEPT !.written = len]

\* encode_http_envelope: {"status":200,"body_base64":""} around the body.
Envelope(answer) == 31 + Base64(answer)

\* fetch_url of URL u: a URL off the list is denied, any other is fetched, which
\* may time out, fail, or answer too much.
FetchUrl(u, out_ptr, out_cap) ==
    IF ~IsAllowed(u, allow)
      THEN {Failed(ERR_DENIED, Absent, Absent, out_ptr, out_cap)}
      ELSE {Failed(code, u, Absent, out_ptr, out_cap) : code \in {ERR_TIMEOUT, ERR_TRANSPORT}}
           \cup {IF answer > MAX_HTTP_BODY_BYTES
                   THEN Failed(ERR_TOO_LARGE, u, answer, out_ptr, out_cap)
                   ELSE Deliver(Envelope(answer), u, answer, out_ptr, out_cap) :
                 answer \in HttpBodies}

\* The import. Text that is not UTF-8 is a bad argument too.
HttpGetHost ==
    /\ pc = "guest"
    /\ \E url_ptr, out_ptr \in Ptrs, url_len, out_cap \in Lens :
        \/ call' = Failed(ERR_BAD_ARGS, Absent, Absent, out_ptr, out_cap)
        \/ /\ ArgsOk(url_ptr, url_len, out_ptr, out_cap)
           /\ \E u \in Urls : call' \in FetchUrl(u, out_ptr, out_cap)
    /\ UNCHANGED <<pc, headers, module, allow, memory, input, result>>

\* invoke returns: a negative or oversize length is an error, otherwise the
\* output is read from where the input was.
ReadOutput(out_len) ==
    /\ \/ out_len < 0 /\ Stop("Invoke") /\ UNCHANGED memory
       \/ /\ out_len > MAX_GUEST_OUTPUT_BYTES
          /\ Stop("PayloadTooLarge") /\ UNCHANGED memory
       \/ /\ out_len \in 0 .. MAX_GUEST_OUTPUT_BYTES
          /\ GrowAndAccess(OFFSET + out_len, Stop("Ok"))
    /\ UNCHANGED <<headers, module, allow, input, call>>

InvokeReturns == pc = "guest" /\ \E out_len \in OutLens : ReadOutput(out_len)

HostStep ==
    PublishHeaders \/ Validate \/ ResolveRow \/ CompileModule \/ CheckInput \/ WriteInput

\* A guest that does what it likes.
AnyGuest == GuestGrows \/ HttpGetHost \/ InvokeReturns

-----------------------------------------------------------------------------
(* Properties.                                                             *)

\* The two ABI checks agree: a module that was published compiles on every host,
\* and a valid module the hosts would run is not refused at publish.
ChecksAgree ==
    module # Absent /\ Validates(module) =>
        (AssertAbi(module) <=> result # "Refused")

\* What a URL names: the host and the port as written.
Names(u) == <<u.host, u.port>>

\* Deploy, publish, storage and every further parse keep the list: it is not refused
\* once it was accepted, and a guest reaches exactly the hosts and ports that the
\* publisher named. A URL that was fetched names one, and a well-formed URL that
\* names one is on the list.
ReachesWhatWasNamed ==
    LET named == {Names(headers[i]) : i \in DOMAIN headers} IN
    /\ result # "Domain"
    /\ call.fetched # Absent => Names(call.fetched) \in named
    /\ pc \in {"compile", "run", "instantiate", "input", "guest"} =>
        \A u \in Urls : Parses(u) /\ Names(u) \in named => IsAllowed(u, allow)

\* The buffer a guest offers is all the host writes of its memory: what was
\* written lies inside the buffer and the memory, and is what the code says;
\* after an error nothing was written.
WritesOnlyTheBuffer ==
    /\ call.code > 0 =>
        /\ call.written = call.code
        /\ call.written <= call.out_cap
        /\ InMemory(call.out_ptr, call.written)
    /\ call.code <= 0 => call.written = 0

\* After growing, the input and the output always fit: the error of an access
\* beyond the end of the memory is never met, whatever sizes module and guest
\* choose.
GrowthSuffices == result # "OutOfBounds"
=============================================================================
