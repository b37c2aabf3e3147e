---------------------------- MODULE InvokeClient ----------------------------
(***************************************************************************)
(* `nitrum-fn invoke` against the hosts: the CLI sends a request, checks   *)
(* the content hash header and, with --pcr0, the attestation document      *)
(* against a nonce it drew, and prints the body only when all of them      *)
(* agree. With --insecure the connection is not authenticated: the answer  *)
(* it reads need not be the host's. Other callers invoke meanwhile, with   *)
(* nonces of their own or with one they have seen.                         *)
(***************************************************************************)
EXTENDS HostInvoke

CONSTANTS
    Sessions,       \* the requests that come from the CLI
    PCR0            \* the measurement of the hosts' image

ASSUME ClientAssumption ==
    /\ Sessions \subseteq Invokes
    /\ Absent \notin Wasms \cup Bodies \cup Invokes
    /\ PCR0 # "other"

VARIABLE cli        \* session -> the state of its process

clientVars == <<serviceVars, cli>>

CliPC == {"args", "sent", "printed", "failed"}

\* fn_shasum, pcr0, insecure: the arguments; --pcr0 requires --fn-shasum.
CliInvoke == {c \in [pc: CliPC, fn_shasum: Wasms \cup {Absent}, pcr0: {PCR0, Absent},
                     insecure: BOOLEAN, body: Bodies \cup {Absent}] :
                c.pcr0 # Absent => c.fn_shasum # Absent}

ClientTypeOK ==
    /\ HostTypeOK
    /\ cli \in [Sessions -> CliInvoke]

ClientInit ==
    /\ HostInit
    /\ cli \in [Sessions -> {c \in CliInvoke : c.pc = "args" /\ c.body = Absent}]

-----------------------------------------------------------------------------
\* random_nonce: one per run, drawn when --pcr0 is given.
NonceOf(i) == IF cli[i].pcr0 = Absent THEN Absent ELSE i

\* run() up to send: --fn-shasum that is no hash ends it.
CliSend(i) ==
    /\ cli[i].pc = "args"
    /\ \E pc \in {"sent", "failed"} : cli' = [cli EXCEPT ![i].pc = pc]
    /\ UNCHANGED serviceVars

\* A request reaches its host. What others send as a nonce may be one they saw.
Arrive(i) ==
    /\ \/ /\ i \in Sessions
          /\ cli[i].pc # "args"
          /\ InvokeStart(i, NonceOf(i))
       \/ /\ i \notin Sessions
          /\ \E n \in {Absent, i} \cup {s \in Sessions : cli[s].pc # "args"} :
                InvokeStart(i, n)
    /\ UNCHANGED <<registerVars, catalogReplica, cli>>

\* The documents there are: those of the hosts, and those of other images, which
\* may say anything.
Minted ==
    {[pcr0 |-> PCR0, data |-> inv[j].doc] : j \in {k \in Invokes : inv[k].doc # Absent}}
        \cup [pcr0: {"other"}, data: Document]

\* An answer as the CLI reads it; Absent: the header is missing.
Answer == [success: BOOLEAN, shasum: Wasms \cup {Absent}, body: Bodies,
           attestation: Minted \cup {Absent}]

\* into_response: an error of the host is never a success and has neither header.
ErrorAnswers ==
    {r \in Answer : ~r.success /\ r.shasum = Absent /\ r.attestation = Absent}

HostAnswersGuestLast(i) ==
    {r \in Answer :
        /\ inv[i].result = "Ok"
        /\ r.body = inv[i].body
        /\ inv[i].doc # Absent => r.attestation = [pcr0 |-> PCR0, data |-> inv[i].doc]}

\* What the host sends: the guest's status and headers, over which it writes the
\* content hash and, when it has one, the document; or an error. A host that
\* restarted, or is not done, has not answered.
HostAnswers(i) ==
    IF inv[i].result # "Ok"
      THEN {r \in ErrorAnswers : inv[i].pc = "done" /\ inv[i].result # "Gone"}
      ELSE {r \in Answer :
             /\ r.body = inv[i].body
             /\ r.shasum = inv[i].version.content_hash
             /\ inv[i].doc # Absent => r.attestation = [pcr0 |-> PCR0, data |-> inv[i].doc]}

ShasumMatches(i, r) == cli[i].fn_shasum \in {Absent, r.shasum}

AttestationWithoutNonce(i, r) ==
    /\ r.attestation # Absent
    /\ r.attestation.pcr0 = cli[i].pcr0
    /\ r.attestation.data.hash = cli[i].fn_shasum
    /\ r.attestation.data.body = r.body

\* verify_invoke_attestation: measurement, nonce, content hash, body hash.
VerifyInvokeAttestation(i, r) ==
    /\ r.attestation # Absent
    /\ r.attestation.pcr0 = cli[i].pcr0
    /\ r.attestation.data.nonce = i
    /\ r.attestation.data.hash = cli[i].fn_shasum
    /\ r.attestation.data.body = r.body

\* What run() checks before it prints a body.
Accepts(i, r) ==
    /\ r.success
    /\ ShasumMatches(i, r)
    /\ cli[i].pcr0 # Absent => VerifyInvokeAttestation(i, r)

\* The answer is read. Without one (time-out, connection, an error answer), and
\* when the document is too old or cannot be written to --attestation-out, it fails.
CliReceive(i) ==
    /\ cli[i].pc = "sent"
    /\ \/ cli' = [cli EXCEPT ![i].pc = "failed"]
       \/ \E r \in Answer :
            /\ cli[i].insecure \/ r \in HostAnswers(i)
            /\ Accepts(i, r)
            /\ cli' = [cli EXCEPT ![i].pc = "printed", ![i].body = r.body]
    /\ UNCHANGED serviceVars

ClientNext ==
    \/ \E i \in Sessions : CliSend(i) \/ CliReceive(i)
    \/ \E i \in Invokes : Arrive(i)
    \/ HostNext /\ UNCHANGED <<registerVars, cli>>
    \/ RegisterNext /\ UNCHANGED <<hostVars, cli>>

ClientSpec == ClientInit /\ [][ClientNext]_clientVars

-----------------------------------------------------------------------------
(* Properties.                                                             *)

\* A body that is printed is what was asked for. With --pcr0, also over a
\* connection that is not authenticated: a host ran the module --fn-shasum names
\* for this run's nonce, was paid for it, and the module returned this body.
\* With --fn-shasum over an authenticated one: the host of this request did,
\* whatever headers the guest set.
PrintedMeansRan ==
    \A i \in Sessions :
        cli[i].pc = "printed" =>
            /\ cli[i].pcr0 # Absent =>
                 \E j \in Invokes :
                    /\ inv[j].nonce = i /\ inv[j].charged
                    /\ inv[j].ran = cli[i].fn_shasum /\ inv[j].body = cli[i].body
            /\ ~cli[i].insecure /\ cli[i].fn_shasum # Absent =>
                 inv[i].ran = cli[i].fn_shasum /\ inv[i].body = cli[i].body
=============================================================================
