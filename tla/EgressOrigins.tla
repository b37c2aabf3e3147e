--------------------------- MODULE EgressOrigins ----------------------------
(***************************************************************************)
(* The egress allow list of a function: EgressOrigin::parse, the list made *)
(* of the publish headers, and the check of a guest's URL against it. An   *)
(* origin is kept as text and parsed again when a catalog row is read.     *)
(***************************************************************************)
EXTENDS Naturals, Sequences, FiniteSets, SequencesExt

CONSTANTS
    HostNames,          \* host names validate_host accepts
    OtherHosts,         \* localhost, .local, IP literals, empty, too long, ill-formed
    Ports,              \* the numbers ports are written with
    Absent,             \* no port
    MAX_EGRESS_ALLOW    \* limits.rs

ASSUME EgressAssumption ==
    /\ HostNames \cap OtherHosts = {}
    /\ Ports \subseteq Nat /\ Absent \notin Ports
    /\ MAX_EGRESS_ALLOW \in Nat \ {0}

\* The text of a URL, as far as parse looks at it. zeros: the port is written
\* with leading zeros. A query that follows the authority at once belongs to it.
Url == [https: BOOLEAN, userinfo: BOOLEAN, host: HostNames \cup OtherHosts,
        port: Ports \cup {Absent}, zeros: BOOLEAN,
        tail: {"none", "path", "query"}]

\* as_str: https://host[:port].
EgressOrigin == [host: HostNames, port: Ports \cup {Absent}, zeros: BOOLEAN]

AsUrl(o) == [https |-> TRUE, userinfo |-> FALSE, host |-> o.host,
             port |-> o.port, zeros |-> o.zeros, tail |-> "none"]

\* validate_host
ValidHost(host) == host \in HostNames

\* EgressOrigin::parse succeeds. The port is a u16 and not zero.
Parses(u) ==
    /\ u.https /\ ~u.userinfo /\ u.tail # "query"
    /\ u.port # Absent => u.port \in 1 .. 2^16 - 1
    /\ ValidHost(u.host)

OriginAsWritten(u) == [host |-> u.host, port |-> u.port, zeros |-> u.zeros]

\* The result of parse: the port is printed again, from its number.
Origin(u) == [host |-> u.host, port |-> u.port, zeros |-> FALSE]

TooManyOffByOne(origins) ==
    \E i \in 1..Len(origins) :
        Cardinality(Range(SubSeq(origins, 1, i - 1))) > MAX_EGRESS_ALLOW

\* normalize_egress_allow: the list is full when another origin comes, be it one
\* that is on it already.
TooMany(origins) ==
    \E i \in 1..Len(origins) :
        Cardinality(Range(SubSeq(origins, 1, i - 1))) >= MAX_EGRESS_ALLOW

\* The origins that are left, without duplicates. The catalog stores a set.
Normalized(origins) == Range(origins)

\* is_allowed
IsAllowed(u, allow) == Parses(u) /\ Origin(u) \in allow
=============================================================================
