---------------------------- MODULE MCGuestSdk -----------------------------
EXTENDS GuestSdk

U(host, port, zeros, tail) ==
    [https |-> TRUE, userinfo |-> FALSE, host |-> host, port |-> port,
     zeros |-> zeros, tail |-> tail]

\* Two hosts, a port in two spellings, paths; and one URL per way to be refused.
GoodUrls == {U("a", Absent, FALSE, "none"), U("a", Absent, FALSE, "path"),
             U("a", 443, FALSE, "path"), U("a", 443, TRUE, "none"),
             U("b", Absent, FALSE, "none"), U("b", 65535, FALSE, "none")}
BadUrls == {U("localhost", Absent, FALSE, "none"), U("a", 0, FALSE, "none"),
            U("a", 65536, FALSE, "none"), U("a", Absent, FALSE, "query"),
            [U("a", Absent, FALSE, "none") EXCEPT !.https = FALSE],
            [U("a", Absent, FALSE, "none") EXCEPT !.userinfo = TRUE]}
MCUrls == GoodUrls \cup BadUrls

\* Lists up to the limit and one beyond, with and without duplicates.
MCHeaders ==
    LET a == U("a", Absent, FALSE, "path")
        z == U("a", 443, TRUE, "none")
        b == U("b", 65535, FALSE, "none") IN
    {<<>>, <<a, z>>, <<a, a>>, <<b, z>>, <<a, b, z>>, <<a, z, a>>, <<b, b, a>>}
    \cup {<<u>> : u \in MCUrls}

MCImports == [name: {"nitrum.http_get", "other"}, kind: {"func", "other"}, type: 0..1]
MCModules ==
    [types: {<<"invoke", "http_get">>, <<"http_get", "invoke">>,
             <<"other", "invoke">>, <<"struct", "invoke">>, <<"invoke">>},
     imports: {<<>>} \cup {<<i>> : i \in MCImports} \cup (MCImports \X MCImports),
     funcs: {<<>>, <<0>>, <<1>>, <<1, 0>>},
     memory: {"none", "memory", "other"},
     invoke: {"none", "func", "other"},
     index: 0..2]

\* The ends of the memory and of the ranges the host accepts.
MCPtrs == {-1, 0, PAGE, MAX_GUEST_MEMORY_BYTES}
MCLens == {-1, 0, MAX_HTTP_URL_BYTES, MAX_HTTP_URL_BYTES + 1, Envelope(MAX_HTTP_BODY_BYTES)}
MCOutLens == {-1, 0, PAGE - OFFSET, PAGE - OFFSET + 1,
              MAX_GUEST_OUTPUT_BYTES, MAX_GUEST_OUTPUT_BYTES + 1}

\* With 80 bytes around them: one page, a byte more; the limit, a byte more.
MCBodies == {0, 49044, 49045, 786372, 786373, MAX_INVOKE_BODY_BYTES, MAX_INVOKE_BODY_BYTES + 1}
=============================================================================
