------------------------- MODULE InvokeClientProofs -------------------------
(***************************************************************************)
(* Proofs about HostInvoke and InvokeClient for any number of hosts,       *)
(* functions, modules, callers and CLI runs: whatever the bucket returns   *)
(* and whoever answers the CLI, a host runs what one publish offered, its  *)
(* cache is faithful, a run is paid for, and a body the CLI prints is one  *)
(* a host computed for it.                                                 *)
(***************************************************************************)
EXTENDS InvokeClient, TLAPS

USE ClientAssumption, RegisterAssumption

-----------------------------------------------------------------------------
(* The inductive invariant.                                                *)

\* A row is, but for its generation, what one publish of the function offered.
OfferedRow(f, row) ==
    [function |-> f, content_hash |-> row.content_hash,
     egress_allow |-> row.egress_allow] \in offered

RowsOffered ==
    \A f \in Functions :
        /\ catalog[f] # Absent => OfferedRow(f, catalog[f])
        /\ catalogReplica[f] # Absent => OfferedRow(f, catalogReplica[f])

Resolved == {"get", "cache", "compile", "run", "attest"}
Paid == Resolved \cup {"resolve", "refund"}

\* A request that has a version has one that was offered, what it fetched is that
\* version's module, and what it runs or ran is, too.
LoadsItsVersion(i) ==
    /\ inv[i].pc \in {"idle", "debit", "resolve"} => inv[i].ran = Absent
    /\ inv[i].pc \in Resolved \/ inv[i].ran # Absent =>
        inv[i].version \in CatalogRow /\ OfferedRow(inv[i].function, inv[i].version)
    /\ inv[i].pc \in {"cache", "compile"} => inv[i].wasm = inv[i].version.content_hash
    /\ inv[i].ran # Absent => inv[i].ran = inv[i].version.content_hash
    /\ inv[i].pc \in {"run", "attest"} \/ inv[i].result = "Ok" => inv[i].ran # Absent

\* A document is the last thing a request gets, and says what the request ran.
AttestsItsRun(i) ==
    /\ inv[i].pc = "attest" => inv[i].nonce # Absent /\ inv[i].body # Absent
    /\ inv[i].doc # Absent => inv[i].result = "Ok" /\ inv[i].doc = UserData(i)

\* How a request stands with the ledger at each of its steps.
PaysItsRun(i) ==
    /\ inv[i].pc \in {"idle", "debit"} => ~inv[i].charged
    /\ inv[i].pc \in Paid => inv[i].charged
    /\ inv[i].entered => inv[i].charged /\ inv[i].pc \in {"attest", "done"}
    /\ inv[i].pc = "attest" => inv[i].entered
    /\ inv[i].pc \notin {"done", "refund"} => inv[i].result = "None"
    /\ inv[i].pc = "refund" => inv[i].result \in FailedBeforeGuest

RequestOK(i) == LoadsItsVersion(i) /\ AttestsItsRun(i) /\ PaysItsRun(i)

\* The runs a printed body stands for are over: nothing can change them any more.
PrintedIsFinal ==
    \A i \in Sessions :
        cli[i].pc = "printed" =>
            /\ cli[i].pcr0 # Absent =>
                 \E j \in Invokes :
                    /\ inv[j].pc = "done" /\ inv[j].nonce = i /\ inv[j].charged
                    /\ inv[j].ran = cli[i].fn_shasum /\ inv[j].body = cli[i].body
            /\ ~cli[i].insecure /\ cli[i].fn_shasum # Absent =>
                 /\ inv[i].pc = "done" /\ inv[i].ran = cli[i].fn_shasum
                 /\ inv[i].body = cli[i].body

ClientInv ==
    /\ ClientTypeOK
    /\ RowsOffered
    /\ CacheIsFaithful
    /\ PaidOncePerRun
    /\ \A i \in Invokes : RequestOK(i)
    /\ PrintedIsFinal

-----------------------------------------------------------------------------
(* Steps of one request.                                                   *)

\* What PaidOncePerRun says of one request.
PaidOnce(i) ==
    /\ inv[i].entered => inv[i].charged
    /\ inv[i].result \in {"Ok", "Attestation"} => inv[i].entered
    /\ inv[i].pc = "done" /\ ~inv[i].entered /\ inv[i].charged =>
        inv[i].result \in {"Invoke", "Storage", "Gone"}

\* A step of one request that is not over, to x, keeps the invariant when it keeps
\* that request's part of it.
LEMMA RequestStepKeeps ==
    ASSUME ClientInv, NEW i \in Invokes, inv[i].pc # "done",
           NEW x \in Invoke, inv' = [inv EXCEPT ![i] = x],
           inv'[i] = x => RequestOK(i)' /\ PaidOnce(i)',
           modules' \in [Hosts -> [Wasms -> Wasms \cup {Absent}]], CacheIsFaithful',
           UNCHANGED <<registerVars, catalogReplica, cli>>
    PROVE  ClientInv'
  <1>0. /\ inv' \in [Invokes -> Invoke] /\ inv'[i] = x
        /\ \A j \in Invokes : j # i => inv'[j] = inv[j]
    BY DEF ClientInv, ClientTypeOK, HostTypeOK
  <1>1. ClientTypeOK'
    BY <1>0 DEF ClientInv, ClientTypeOK, HostTypeOK, RegisterTypeOK, registerVars
  <1>2. RowsOffered'
    BY DEF ClientInv, RowsOffered, OfferedRow, registerVars
  <1>3. PaidOncePerRun'
    BY <1>0 DEF ClientInv, PaidOncePerRun, PaidOnce
  <1>4. ASSUME NEW j \in Invokes PROVE RequestOK(j)'
    <2>1. CASE j = i
      BY <1>0, <2>1
    <2>2. CASE j # i
      <3>1. RequestOK(j) /\ inv'[j] = inv[j] /\ offered' = offered
        BY <1>0, <2>2 DEF ClientInv, registerVars
      <3>2. QED
        BY <3>1 DEF RequestOK, LoadsItsVersion, AttestsItsRun, PaysItsRun, OfferedRow,
                    UserData
    <2>3. QED
      BY <2>1, <2>2
  <1>5. PrintedIsFinal'
    <2>1. \A j \in Invokes : inv[j].pc = "done" => inv'[j] = inv[j]
      BY <1>0
    <2>2. PrintedIsFinal /\ cli' = cli
      BY DEF ClientInv
    <2>3. QED
      BY <2>1, <2>2 DEF PrintedIsFinal
  <1>6. QED
    BY <1>1, <1>2, <1>3, <1>4, <1>5 DEF ClientInv

\* What the steps of a request leave alone: what was asked; what was loaded; what
\* came of the run.
SameCall(x, i) == x.function = inv[i].function /\ x.nonce = inv[i].nonce
SameLoad(x, i) ==
    x.version = inv[i].version /\ x.wasm = inv[i].wasm /\ x.ran = inv[i].ran
SameRun(x, i) ==
    x.entered = inv[i].entered /\ x.body = inv[i].body /\ x.doc = inv[i].doc

\* Every request has its type and its part of the invariant.
LEMMA RequestFacts ==
    ASSUME ClientInv, NEW i \in Invokes
    PROVE  /\ inv \in [Invokes -> Invoke] /\ inv[i] \in Invoke
           /\ LoadsItsVersion(i) /\ AttestsItsRun(i) /\ PaysItsRun(i) /\ PaidOnce(i)
           /\ modules \in [Hosts -> [Wasms -> Wasms \cup {Absent}]] /\ CacheIsFaithful
  BY DEF ClientInv, ClientTypeOK, HostTypeOK, RequestOK, PaidOncePerRun, PaidOnce

\* Steps that leave the caches, the catalog and the CLI alone.
Elsewhere == <<modules, registerVars, catalogReplica, cli>>

\* An answer that fits the charge and the guest keeps the invariant.
LEMMA AnswerKeeps ==
    ASSUME ClientInv, NEW i \in Invokes, inv[i].pc # "done",
           NEW result \in InvResults, NEW charged \in BOOLEAN,
           \/ charged = inv[i].charged /\ InvAnswer(i, result)
           \/ inv' = [inv EXCEPT ![i].pc = "done", ![i].result = result, ![i].charged = charged],
           inv[i].entered => charged,
           result = "Ok" => inv[i].pc = "attest",
           result = "Attestation" => inv[i].entered,
           charged /\ ~inv[i].entered => result \in {"Invoke", "Storage", "Gone"},
           UNCHANGED Elsewhere
    PROVE  ClientInv'
  <1>1. /\ inv \in [Invokes -> Invoke] /\ inv[i] \in Invoke
        /\ LoadsItsVersion(i) /\ AttestsItsRun(i) /\ PaysItsRun(i) /\ PaidOnce(i)
        /\ modules \in [Hosts -> [Wasms -> Wasms \cup {Absent}]] /\ CacheIsFaithful
    BY RequestFacts
  <1>2. PICK x \in Invoke :
            /\ inv' = [inv EXCEPT ![i] = x]
            /\ x.pc = "done" /\ x.result = result /\ x.charged = charged
            /\ SameCall(x, i) /\ SameLoad(x, i) /\ SameRun(x, i)
    <2>1. "done" \in InvPC
      BY DEF InvPC
    <2>2. CASE charged = inv[i].charged /\ InvAnswer(i, result)
      <3> DEFINE x == [inv[i] EXCEPT !.pc = "done", !.result = result]
      <3>1. x \in Invoke
        BY <1>1, <2>1, Zenon DEF Invoke
      <3>2. /\ x.pc = "done" /\ x.result = result /\ x.charged = charged
            /\ SameCall(x, i) /\ SameLoad(x, i) /\ SameRun(x, i)
        BY <1>1, <2>2, Zenon DEF Invoke, SameCall, SameLoad, SameRun
      <3>3. inv' = [inv EXCEPT ![i] = x]
        BY <2>2 DEF InvAnswer
      <3>4. QED
        BY <3>1, <3>2, <3>3
    <2>3. CASE inv' = [inv EXCEPT ![i].pc = "done", ![i].result = result,
                                  ![i].charged = charged]
      <3> DEFINE x == [inv[i] EXCEPT !.pc = "done", !.result = result, !.charged = charged]
      <3>1. x \in Invoke
        BY <1>1, <2>1, Zenon DEF Invoke
      <3>2. /\ x.pc = "done" /\ x.result = result /\ x.charged = charged
            /\ SameCall(x, i) /\ SameLoad(x, i) /\ SameRun(x, i)
        BY <1>1, Zenon DEF Invoke, SameCall, SameLoad, SameRun
      <3>3. inv' = [inv EXCEPT ![i] = x]
        BY <2>3
      <3>4. QED
        BY <3>1, <3>2, <3>3
    <2>4. QED
      BY <2>2, <2>3
  <1>3. ASSUME inv'[i] = x PROVE RequestOK(i)' /\ PaidOnce(i)'
    <2>1. inv[i].doc = Absent /\ offered' = offered
      BY <1>1 DEF AttestsItsRun, PaysItsRun, FailedBeforeGuest, Elsewhere, registerVars
    <2>2. LoadsItsVersion(i)'
      BY <1>1, <1>2, <1>3, <2>1
         DEF LoadsItsVersion, SameCall, SameLoad, Resolved, OfferedRow
    <2>3. AttestsItsRun(i)' /\ PaysItsRun(i)' /\ PaidOnce(i)'
      BY <1>1, <1>2, <1>3, <2>1
         DEF AttestsItsRun, PaysItsRun, PaidOnce, SameRun, Paid, Resolved
    <2>4. QED
      BY <2>2, <2>3 DEF RequestOK
  <1>4. QED
    BY <1>1, <1>2, <1>3, RequestStepKeeps DEF Elsewhere, CacheIsFaithful

\* A request that was charged and has not entered its guest fails safely: it is on
\* its way to a refund, or has met an error that keeps the charge.
LEMMA FailPaidKeeps ==
    ASSUME ClientInv, NEW i \in Invokes, inv[i].pc \in Paid \ {"attest", "refund"},
           NEW err \in FailedBeforeGuest \cup {"Invoke"}, FailPaid(i, err),
           UNCHANGED Elsewhere
    PROVE  ClientInv'
  <1> DEFINE pc == IF err \in FailedBeforeGuest THEN "refund" ELSE "done"
             x == [inv[i] EXCEPT !.pc = pc, !.result = err, !.version = Absent,
                                 !.wasm = Absent, !.ran = Absent]
  <1>1. pc \in InvPC /\ err \in InvResults
    BY DEF InvPC, InvResults
  <1>2. /\ inv[i] \in Invoke /\ inv[i].charged /\ ~inv[i].entered /\ inv[i].doc = Absent
        /\ modules \in [Hosts -> [Wasms -> Wasms \cup {Absent}]] /\ CacheIsFaithful
    BY RequestFacts DEF PaysItsRun, AttestsItsRun, Paid, Resolved
  <1>3. inv' = [inv EXCEPT ![i] = x]
    BY DEF FailPaid
  <1>4. pc \in {"refund", "done"} /\ (pc = "refund" <=> err \in FailedBeforeGuest)
    OBVIOUS
  <1> HIDE DEF pc
  <1>5. x \in Invoke
    BY <1>1, <1>2, Zenon DEF Invoke
  <1>6. /\ x.pc = pc /\ x.result = err /\ x.version = Absent /\ x.ran = Absent
        /\ x.charged = inv[i].charged /\ SameRun(x, i)
    BY <1>2, Zenon DEF Invoke, SameRun
  <1> HIDE DEF x
  <1>7. ASSUME inv'[i] = x PROVE RequestOK(i)' /\ PaidOnce(i)'
    BY <1>2, <1>4, <1>6, <1>7
       DEF RequestOK, LoadsItsVersion, AttestsItsRun, PaysItsRun, PaidOnce, SameRun, Paid,
           Resolved, FailedBeforeGuest
  <1>8. QED
    BY <1>2, <1>3, <1>5, <1>7, RequestStepKeeps
       DEF Elsewhere, Paid, Resolved, CacheIsFaithful

\* InvokeStart: what is refused was not charged; a nonce is only remembered.
LEMMA InvokeStartKeeps ==
    ASSUME ClientInv, NEW i \in Invokes, NEW nonce \in Invokes \cup {Absent},
           InvokeStart(i, nonce), UNCHANGED <<registerVars, catalogReplica, cli>>
    PROVE  ClientInv'
  <1> DEFINE x == [inv[i] EXCEPT !.pc = "debit", !.nonce = nonce]
  <1>1. /\ inv[i] \in Invoke /\ inv[i].pc = "idle" /\ UNCHANGED Elsewhere
        /\ LoadsItsVersion(i) /\ AttestsItsRun(i) /\ PaysItsRun(i) /\ PaidOnce(i)
        /\ modules \in [Hosts -> [Wasms -> Wasms \cup {Absent}]] /\ CacheIsFaithful
    BY RequestFacts DEF InvokeStart, Elsewhere
  <1>2. ~inv[i].charged /\ ~inv[i].entered /\ inv[i].doc = Absent
    BY <1>1 DEF PaysItsRun, AttestsItsRun
  <1>3. CASE InvalidRequest(i)
    <2>1. inv[i].charged \in BOOLEAN /\ "Refused" \in InvResults
      BY <1>1 DEF Invoke, InvResults
    <2>2. QED
      BY <1>1, <1>2, <1>3, <2>1, AnswerKeeps DEF InvalidRequest
  <1>4. CASE inv' = [inv EXCEPT ![i].pc = "debit", ![i].nonce = nonce]
    <2>1. "debit" \in InvPC
      BY DEF InvPC
    <2>2. x \in Invoke
      BY <1>1, <2>1, Zenon DEF Invoke
    <2>3. /\ x.pc = "debit" /\ x.function = inv[i].function /\ x.charged = inv[i].charged
          /\ x.result = inv[i].result /\ SameLoad(x, i) /\ SameRun(x, i)
      BY <1>1, Zenon DEF Invoke, SameLoad, SameRun
    <2>4. inv' = [inv EXCEPT ![i] = x]
      BY <1>4
    <2> HIDE DEF x
    <2>5. ASSUME inv'[i] = x PROVE RequestOK(i)' /\ PaidOnce(i)'
      BY <1>1, <1>2, <2>3, <2>5
         DEF RequestOK, LoadsItsVersion, AttestsItsRun, PaysItsRun, PaidOnce, SameLoad,
             SameRun, Paid, Resolved, OfferedRow, Elsewhere, registerVars
    <2>6. QED
      BY <1>1, <2>2, <2>4, <2>5, RequestStepKeeps DEF Elsewhere, CacheIsFaithful
  <1>5. QED
    BY <1>3, <1>4 DEF InvokeStart

\* DebitCaller: a request goes on only when it is charged.
LEMMA DebitCallerKeeps ==
    ASSUME ClientInv, NEW i \in Invokes, DebitCaller(i),
           UNCHANGED <<registerVars, catalogReplica, cli>>
    PROVE  ClientInv'
  <1> DEFINE x == [inv[i] EXCEPT !.pc = "resolve", !.charged = TRUE]
  <1>1. /\ inv[i] \in Invoke /\ inv[i].pc = "debit" /\ UNCHANGED Elsewhere
        /\ LoadsItsVersion(i) /\ AttestsItsRun(i) /\ PaysItsRun(i) /\ PaidOnce(i)
        /\ modules \in [Hosts -> [Wasms -> Wasms \cup {Absent}]] /\ CacheIsFaithful
    BY RequestFacts DEF DebitCaller, Elsewhere
  <1>2. ~inv[i].charged /\ ~inv[i].entered /\ inv[i].doc = Absent
    BY <1>1 DEF PaysItsRun, AttestsItsRun
  <1>3. /\ inv[i].charged \in BOOLEAN
        /\ {"Refused", "Storage"} \subseteq InvResults
    BY <1>1 DEF Invoke, InvResults, FailedBeforeGuest
  <1>4. ASSUME NEW err \in {"Refused", "Storage"}, InvAnswer(i, err) PROVE ClientInv'
    BY <1>1, <1>2, <1>3, <1>4, AnswerKeeps
  <1>5. CASE inv' = [inv EXCEPT ![i].pc = "done", ![i].result = "Storage", ![i].charged = TRUE]
    BY <1>1, <1>2, <1>3, <1>5, AnswerKeeps
  <1>6. CASE inv' = [inv EXCEPT ![i].pc = "resolve", ![i].charged = TRUE]
    <2>1. "resolve" \in InvPC
      BY DEF InvPC
    <2>2. x \in Invoke
      BY <1>1, <2>1, Zenon DEF Invoke
    <2>3. /\ x.pc = "resolve" /\ x.charged = TRUE /\ x.result = inv[i].result
          /\ SameCall(x, i) /\ SameLoad(x, i) /\ SameRun(x, i)
      BY <1>1, Zenon DEF Invoke, SameCall, SameLoad, SameRun
    <2>4. inv' = [inv EXCEPT ![i] = x]
      BY <1>6
    <2> HIDE DEF x
    <2>5. ASSUME inv'[i] = x PROVE RequestOK(i)' /\ PaidOnce(i)'
      BY <1>1, <1>2, <2>3, <2>5
         DEF RequestOK, LoadsItsVersion, AttestsItsRun, PaysItsRun, PaidOnce, SameCall,
             SameLoad, SameRun, Paid, Resolved, OfferedRow, Elsewhere, registerVars
    <2>6. QED
      BY <1>1, <2>2, <2>4, <2>5, RequestStepKeeps DEF Elsewhere, CacheIsFaithful
  <1>7. QED
    BY <1>4, <1>5, <1>6 DEF DebitCaller

\* RefundCaller: the guest was not entered, and a charge stays only with Storage.
LEMMA RefundCallerKeeps ==
    ASSUME ClientInv, NEW i \in Invokes, RefundCaller(i),
           UNCHANGED <<registerVars, catalogReplica, cli>>
    PROVE  ClientInv'
  <1>1. /\ inv[i] \in Invoke /\ inv[i].pc = "refund" /\ UNCHANGED Elsewhere
        /\ LoadsItsVersion(i) /\ AttestsItsRun(i) /\ PaysItsRun(i) /\ PaidOnce(i)
        /\ modules \in [Hosts -> [Wasms -> Wasms \cup {Absent}]] /\ CacheIsFaithful
    BY RequestFacts DEF RefundCaller, Elsewhere
  <1>2. ~inv[i].entered /\ inv[i].result \in FailedBeforeGuest /\ inv[i].doc = Absent
    BY <1>1 DEF PaysItsRun, AttestsItsRun, FailedBeforeGuest
  <1>3. inv[i].charged \in BOOLEAN /\ "Storage" \in InvResults /\ FALSE \in BOOLEAN
    BY <1>1 DEF Invoke, InvResults, FailedBeforeGuest
  <1>4. CASE inv' = [inv EXCEPT ![i].pc = "done", ![i].charged = FALSE]
    <2> DEFINE x == [inv[i] EXCEPT !.pc = "done", !.charged = FALSE]
    <2>1. "done" \in InvPC
      BY DEF InvPC
    <2>2. x \in Invoke
      BY <1>1, <2>1, Zenon DEF Invoke
    <2>3. /\ x.pc = "done" /\ x.charged = FALSE /\ x.result = inv[i].result
          /\ SameCall(x, i) /\ SameLoad(x, i) /\ SameRun(x, i)
      BY <1>1, Zenon DEF Invoke, SameCall, SameLoad, SameRun
    <2>4. inv' = [inv EXCEPT ![i] = x]
      BY <1>4
    <2> HIDE DEF x
    <2>5. ASSUME inv'[i] = x PROVE RequestOK(i)' /\ PaidOnce(i)'
      BY <1>1, <1>2, <2>3, <2>5
         DEF RequestOK, LoadsItsVersion, AttestsItsRun, PaysItsRun, PaidOnce, SameCall,
             SameLoad, SameRun, Paid, Resolved, OfferedRow, Elsewhere, registerVars,
             FailedBeforeGuest
    <2>6. QED
      BY <1>1, <2>2, <2>4, <2>5, RequestStepKeeps DEF Elsewhere, CacheIsFaithful
  <1>5. CASE inv' = [inv EXCEPT ![i].pc = "done", ![i].charged = FALSE,
                                ![i].result = "Storage"]
    <2> DEFINE x == [inv[i] EXCEPT !.pc = "done", !.charged = FALSE, !.result = "Storage"]
    <2>1. "done" \in InvPC
      BY DEF InvPC
    <2>2. x \in Invoke
      BY <1>1, <1>3, <2>1, Zenon DEF Invoke
    <2>3. /\ x.pc = "done" /\ x.charged = FALSE /\ x.result = "Storage"
          /\ SameCall(x, i) /\ SameLoad(x, i) /\ SameRun(x, i)
      BY <1>1, Zenon DEF Invoke, SameCall, SameLoad, SameRun
    <2>4. inv' = [inv EXCEPT ![i] = x]
      BY <1>5
    <2> HIDE DEF x
    <2>5. ASSUME inv'[i] = x PROVE RequestOK(i)' /\ PaidOnce(i)'
      BY <1>1, <1>2, <2>3, <2>5
         DEF RequestOK, LoadsItsVersion, AttestsItsRun, PaysItsRun, PaidOnce, SameCall,
             SameLoad, SameRun, Paid, Resolved, OfferedRow, Elsewhere, registerVars
    <2>6. QED
      BY <1>1, <2>2, <2>4, <2>5, RequestStepKeeps DEF Elsewhere, CacheIsFaithful
  <1>6. CASE InvAnswer(i, "Storage")
    BY <1>1, <1>2, <1>3, <1>6, AnswerKeeps
  <1>7. QED
    BY <1>4, <1>5, <1>6 DEF RefundCaller

\* Resolve: either copy of the catalog holds what was offered for the function.
LEMMA ResolveKeeps ==
    ASSUME ClientInv, NEW i \in Invokes, Resolve(i),
           UNCHANGED <<registerVars, catalogReplica, cli>>
    PROVE  ClientInv'
  <1>1. /\ inv[i] \in Invoke /\ inv[i].pc = "resolve" /\ UNCHANGED Elsewhere
        /\ LoadsItsVersion(i) /\ AttestsItsRun(i) /\ PaysItsRun(i) /\ PaidOnce(i)
        /\ modules \in [Hosts -> [Wasms -> Wasms \cup {Absent}]] /\ CacheIsFaithful
    BY RequestFacts DEF Resolve, Elsewhere
  <1>2. ASSUME NEW err \in FailedBeforeGuest, FailPaid(i, err) PROVE ClientInv'
    BY <1>1, <1>2, FailPaidKeeps DEF Paid
  <1>3. ASSUME NEW row \in {catalog[inv[i].function], catalogReplica[inv[i].function]},
               row # Absent, inv' = [inv EXCEPT ![i].pc = "get", ![i].version = row]
        PROVE  ClientInv'
    <2> DEFINE x == [inv[i] EXCEPT !.pc = "get", !.version = row]
    <2>1. "get" \in InvPC /\ inv[i].function \in Functions
      BY <1>1 DEF InvPC, Invoke
    <2>2. row \in CatalogRow /\ OfferedRow(inv[i].function, row)
      BY <1>3, <2>1
         DEF ClientInv, ClientTypeOK, HostTypeOK, RegisterTypeOK, RowsOffered
    <2>3. x \in Invoke
      BY <1>1, <2>1, <2>2, Zenon DEF Invoke
    <2>4. /\ x.pc = "get" /\ x.version = row /\ x.wasm = inv[i].wasm /\ x.ran = inv[i].ran
          /\ x.charged = inv[i].charged /\ x.result = inv[i].result
          /\ SameCall(x, i) /\ SameRun(x, i)
      BY <1>1, Zenon DEF Invoke, SameCall, SameRun
    <2>5. inv' = [inv EXCEPT ![i] = x]
      BY <1>3
    <2> HIDE DEF x
    <2>6. inv[i].doc = Absent /\ inv[i].ran = Absent
      BY <1>1 DEF AttestsItsRun, PaysItsRun, LoadsItsVersion
    <2>7. ASSUME inv'[i] = x PROVE RequestOK(i)' /\ PaidOnce(i)'
      BY <1>1, <2>2, <2>4, <2>6, <2>7
         DEF RequestOK, LoadsItsVersion, AttestsItsRun, PaysItsRun, PaidOnce, SameCall,
             SameLoad, SameRun, Paid, Resolved, OfferedRow, Elsewhere, registerVars
    <2>8. QED
      BY <1>1, <2>3, <2>5, <2>7, RequestStepKeeps DEF Elsewhere, CacheIsFaithful
  <1>4. QED
    BY <1>2, <1>3 DEF Resolve

\* GetArtifact: what goes on has the hash of the version, whatever the bucket sent.
LEMMA GetArtifactKeeps ==
    ASSUME ClientInv, NEW i \in Invokes, GetArtifact(i),
           UNCHANGED <<registerVars, catalogReplica, cli>>
    PROVE  ClientInv'
  <1>1. /\ inv[i] \in Invoke /\ inv[i].pc = "get" /\ UNCHANGED Elsewhere
        /\ LoadsItsVersion(i) /\ AttestsItsRun(i) /\ PaysItsRun(i) /\ PaidOnce(i)
        /\ modules \in [Hosts -> [Wasms -> Wasms \cup {Absent}]] /\ CacheIsFaithful
    BY RequestFacts DEF GetArtifact, Elsewhere
  <1>2. ASSUME NEW err \in GetObjectErrors, FailPaid(i, err) PROVE ClientInv'
    BY <1>1, <1>2, FailPaidKeeps DEF Paid, Resolved, GetObjectErrors
  <1>3. ASSUME NEW bytes \in Wasms, bytes = inv[i].version.content_hash,
               inv' = [inv EXCEPT ![i].pc = "cache", ![i].wasm = bytes]
        PROVE  ClientInv'
    <2> DEFINE x == [inv[i] EXCEPT !.pc = "cache", !.wasm = bytes]
    <2>1. "cache" \in InvPC
      BY DEF InvPC
    <2>2. x \in Invoke
      BY <1>1, <2>1, Zenon DEF Invoke
    <2>3. /\ x.pc = "cache" /\ x.wasm = bytes /\ x.version = inv[i].version
          /\ x.ran = inv[i].ran /\ x.charged = inv[i].charged /\ x.result = inv[i].result
          /\ SameCall(x, i) /\ SameRun(x, i)
      BY <1>1, Zenon DEF Invoke, SameCall, SameRun
    <2>4. inv' = [inv EXCEPT ![i] = x]
      BY <1>3
    <2> HIDE DEF x
    <2>5. inv[i].doc = Absent
      BY <1>1 DEF AttestsItsRun, PaysItsRun
    <2>6. ASSUME inv'[i] = x PROVE RequestOK(i)' /\ PaidOnce(i)'
      BY <1>1, <1>3, <2>3, <2>5, <2>6
         DEF RequestOK, LoadsItsVersion, AttestsItsRun, PaysItsRun, PaidOnce, SameCall,
             SameLoad, SameRun, Paid, Resolved, OfferedRow, Elsewhere, registerVars
    <2>7. QED
      BY <1>1, <2>2, <2>4, <2>6, RequestStepKeeps DEF Elsewhere, CacheIsFaithful
  <1>4. CASE FailPaid(i, "Load")
    BY <1>1, <1>4, FailPaidKeeps DEF Paid, Resolved, FailedBeforeGuest
  <1>5. QED
    BY <1>2, <1>3, <1>4 DEF GetArtifact

\* CacheLookup: a hit is the module of the version because the cache is faithful.
LEMMA CacheLookupKeeps ==
    ASSUME ClientInv, NEW i \in Invokes, CacheLookup(i),
           UNCHANGED <<registerVars, catalogReplica, cli>>
    PROVE  ClientInv'
  <1> DEFINE hit == modules[inv[i].host][inv[i].version.content_hash]
  <1>1. /\ inv[i] \in Invoke /\ inv[i].pc = "cache" /\ UNCHANGED Elsewhere
        /\ LoadsItsVersion(i) /\ AttestsItsRun(i) /\ PaysItsRun(i) /\ PaidOnce(i)
        /\ modules \in [Hosts -> [Wasms -> Wasms \cup {Absent}]] /\ CacheIsFaithful
    BY RequestFacts DEF CacheLookup, Elsewhere
  <1>2. /\ inv[i].version.content_hash \in Wasms /\ inv[i].host \in Hosts
        /\ hit \in {inv[i].version.content_hash, Absent}
    <2>1. inv[i].version \in CatalogRow /\ inv[i].host \in Hosts
      BY <1>1 DEF LoadsItsVersion, Resolved, Invoke
    <2>2. inv[i].version.content_hash \in Wasms
      BY <2>1 DEF CatalogRow
    <2>3. QED
      BY <1>1, <2>1, <2>2 DEF CacheIsFaithful
  <1>3. inv[i].doc = Absent
    BY <1>1 DEF AttestsItsRun, PaysItsRun
  <1>4. CASE hit = Absent /\ InvGoTo(i, "compile")
    <2> DEFINE x == [inv[i] EXCEPT !.pc = "compile"]
    <2>1. "compile" \in InvPC
      BY DEF InvPC
    <2>2. x \in Invoke
      BY <1>1, <2>1, Zenon DEF Invoke
    <2>3. /\ x.pc = "compile" /\ x.charged = inv[i].charged /\ x.result = inv[i].result
          /\ SameCall(x, i) /\ SameLoad(x, i) /\ SameRun(x, i)
      BY <1>1, Zenon DEF Invoke, SameCall, SameLoad, SameRun
    <2>4. inv' = [inv EXCEPT ![i] = x]
      BY <1>4 DEF InvGoTo
    <2> HIDE DEF x
    <2>5. ASSUME inv'[i] = x PROVE RequestOK(i)' /\ PaidOnce(i)'
      BY <1>1, <1>3, <2>3, <2>5
         DEF RequestOK, LoadsItsVersion, AttestsItsRun, PaysItsRun, PaidOnce, SameCall,
             SameLoad, SameRun, Paid, Resolved, OfferedRow, Elsewhere, registerVars
    <2>6. QED
      BY <1>1, <2>2, <2>4, <2>5, RequestStepKeeps DEF Elsewhere, CacheIsFaithful
  <1>5. CASE /\ hit # Absent
             /\ inv' = [inv EXCEPT ![i].pc = "run", ![i].ran = hit, ![i].wasm = Absent]
    <2> DEFINE x == [inv[i] EXCEPT !.pc = "run", !.ran = hit, !.wasm = Absent]
    <2>1. "run" \in InvPC /\ hit = inv[i].version.content_hash /\ hit \in Wasms
      BY <1>2, <1>5 DEF InvPC
    <2>2. inv' = [inv EXCEPT ![i] = x]
      BY <1>5
    <2> HIDE DEF hit
    <2>3. x \in Invoke
      BY <1>1, <2>1, Zenon DEF Invoke
    <2>4. /\ x.pc = "run" /\ x.ran = hit /\ x.version = inv[i].version
          /\ x.charged = inv[i].charged /\ x.result = inv[i].result
          /\ SameCall(x, i) /\ SameRun(x, i)
      BY <1>1, Zenon DEF Invoke, SameCall, SameRun
    <2> HIDE DEF x
    <2>5. ASSUME inv'[i] = x PROVE RequestOK(i)' /\ PaidOnce(i)'
      BY <1>1, <1>3, <2>1, <2>4, <2>5
         DEF RequestOK, LoadsItsVersion, AttestsItsRun, PaysItsRun, PaidOnce, SameCall,
             SameLoad, SameRun, Paid, Resolved, OfferedRow, Elsewhere, registerVars
    <2>6. QED
      BY <1>1, <2>2, <2>3, <2>5, RequestStepKeeps DEF Elsewhere, CacheIsFaithful
  <1>6. QED
    BY <1>4, <1>5 DEF CacheLookup

\* Compile: what is inserted under a hash has that hash.
LEMMA CompileKeeps ==
    ASSUME ClientInv, NEW i \in Invokes, Compile(i),
           UNCHANGED <<registerVars, catalogReplica, cli>>
    PROVE  ClientInv'
  <1> DEFINE wasm == inv[i].wasm
             x == [inv[i] EXCEPT !.pc = "run", !.ran = wasm, !.wasm = Absent]
  <1>1. /\ inv[i] \in Invoke /\ inv[i].pc = "compile"
        /\ LoadsItsVersion(i) /\ AttestsItsRun(i) /\ PaysItsRun(i) /\ PaidOnce(i)
        /\ modules \in [Hosts -> [Wasms -> Wasms \cup {Absent}]] /\ CacheIsFaithful
    BY RequestFacts DEF Compile
  <1>2. CASE FailPaid(i, "Load") /\ UNCHANGED modules
    BY <1>1, <1>2, FailPaidKeeps DEF Paid, Resolved, FailedBeforeGuest, Elsewhere
  <1>3. CASE /\ inv' = [inv EXCEPT ![i].pc = "run", ![i].ran = wasm, ![i].wasm = Absent]
             /\ modules' = [modules EXCEPT ![inv[i].host][inv[i].version.content_hash] = wasm]
    <2>1. /\ "run" \in InvPC /\ wasm = inv[i].version.content_hash /\ wasm \in Wasms
          /\ inv[i].host \in Hosts
      <3>1. inv[i].version \in CatalogRow /\ wasm = inv[i].version.content_hash
        BY <1>1 DEF LoadsItsVersion, Resolved
      <3>2. QED
        BY <1>1, <3>1 DEF CatalogRow, InvPC, Invoke
    <2>2. inv' = [inv EXCEPT ![i] = x]
      BY <1>3
    <2>3. /\ modules' \in [Hosts -> [Wasms -> Wasms \cup {Absent}]]
          /\ CacheIsFaithful'
      BY <1>1, <1>3, <2>1 DEF CacheIsFaithful
    <2> HIDE DEF wasm
    <2>4. x \in Invoke
      BY <1>1, <2>1, Zenon DEF Invoke
    <2>5. /\ x.pc = "run" /\ x.ran = wasm /\ x.version = inv[i].version
          /\ x.charged = inv[i].charged /\ x.result = inv[i].result
          /\ SameCall(x, i) /\ SameRun(x, i)
      BY <1>1, Zenon DEF Invoke, SameCall, SameRun
    <2> HIDE DEF x
    <2>6. inv[i].doc = Absent
      BY <1>1 DEF AttestsItsRun, PaysItsRun
    <2>7. ASSUME inv'[i] = x PROVE RequestOK(i)' /\ PaidOnce(i)'
      BY <1>1, <2>1, <2>5, <2>6, <2>7
         DEF RequestOK, LoadsItsVersion, AttestsItsRun, PaysItsRun, PaidOnce, SameCall,
             SameLoad, SameRun, Paid, Resolved, OfferedRow, Elsewhere, registerVars
    <2>8. QED
      BY <1>1, <2>2, <2>3, <2>4, <2>7, RequestStepKeeps
  <1>4. QED
    BY <1>2, <1>3 DEF Compile

\* RunGuest: once the guest is called the charge is final.
LEMMA RunGuestKeeps ==
    ASSUME ClientInv, NEW i \in Invokes, RunGuest(i),
           UNCHANGED <<registerVars, catalogReplica, cli>>
    PROVE  ClientInv'
  <1>1. /\ inv[i] \in Invoke /\ inv[i].pc = "run" /\ UNCHANGED Elsewhere
        /\ LoadsItsVersion(i) /\ AttestsItsRun(i) /\ PaysItsRun(i) /\ PaidOnce(i)
        /\ modules \in [Hosts -> [Wasms -> Wasms \cup {Absent}]] /\ CacheIsFaithful
    BY RequestFacts DEF RunGuest, Elsewhere
  <1>2. /\ inv[i].charged /\ ~inv[i].entered /\ inv[i].doc = Absent
        /\ {"done", "attest"} \subseteq InvPC
        /\ {"Ok", "None", "Invoke"} \subseteq InvResults
    BY <1>1 DEF PaysItsRun, AttestsItsRun, Paid, Resolved, InvPC, InvResults
  <1>3. CASE FailPaid(i, "Invoke")
    BY <1>1, <1>3, FailPaidKeeps DEF Paid, Resolved
  <1>4. CASE inv' = [inv EXCEPT ![i].pc = "done", ![i].entered = TRUE, ![i].result = "Invoke"]
    <2> DEFINE x == [inv[i] EXCEPT !.pc = "done", !.entered = TRUE, !.result = "Invoke"]
    <2>1. x \in Invoke
      BY <1>1, <1>2, Zenon DEF Invoke
    <2>2. /\ x.pc = "done" /\ x.entered = TRUE /\ x.result = "Invoke"
          /\ x.charged = inv[i].charged /\ x.body = inv[i].body /\ x.doc = inv[i].doc
          /\ SameCall(x, i) /\ SameLoad(x, i)
      BY <1>1, Zenon DEF Invoke, SameCall, SameLoad
    <2>3. inv' = [inv EXCEPT ![i] = x]
      BY <1>4
    <2> HIDE DEF x
    <2>4. ASSUME inv'[i] = x PROVE RequestOK(i)' /\ PaidOnce(i)'
      BY <1>1, <1>2, <2>2, <2>4
         DEF RequestOK, LoadsItsVersion, AttestsItsRun, PaysItsRun, PaidOnce, SameCall,
             SameLoad, SameRun, Paid, Resolved, OfferedRow, Elsewhere, registerVars
    <2>5. QED
      BY <1>1, <2>1, <2>3, <2>4, RequestStepKeeps DEF Elsewhere, CacheIsFaithful
  <1>5. ASSUME NEW b \in Bodies,
               inv' = [inv EXCEPT ![i].body = b, ![i].entered = TRUE,
                         ![i].pc = IF inv[i].nonce = Absent THEN "done" ELSE "attest",
                         ![i].result = IF inv[i].nonce = Absent THEN "Ok" ELSE "None"]
        PROVE  ClientInv'
    <2> DEFINE pc == IF inv[i].nonce = Absent THEN "done" ELSE "attest"
               result == IF inv[i].nonce = Absent THEN "Ok" ELSE "None"
               x == [inv[i] EXCEPT !.body = b, !.entered = TRUE, !.pc = pc,
                                   !.result = result]
    <2>1. /\ inv[i].nonce = Absent => pc = "done" /\ result = "Ok"
          /\ inv[i].nonce # Absent => pc = "attest" /\ result = "None"
          /\ pc \in InvPC /\ result \in InvResults
      BY <1>2
    <2>2. inv' = [inv EXCEPT ![i] = x]
      BY <1>5
    <2> HIDE DEF pc, result
    <2>3. x \in Invoke
      BY <1>1, <2>1, Zenon DEF Invoke
    <2>4. /\ x.pc = pc /\ x.entered = TRUE /\ x.result = result /\ x.body = b
          /\ x.charged = inv[i].charged /\ x.doc = inv[i].doc
          /\ SameCall(x, i) /\ SameLoad(x, i)
      BY <1>1, Zenon DEF Invoke, SameCall, SameLoad
    <2> HIDE DEF x
    <2>5. ASSUME inv'[i] = x PROVE RequestOK(i)' /\ PaidOnce(i)'
      BY <1>1, <1>2, <2>1, <2>4, <2>5
         DEF RequestOK, LoadsItsVersion, AttestsItsRun, PaysItsRun, PaidOnce, SameCall,
             SameLoad, SameRun, Paid, Resolved, OfferedRow, Elsewhere, registerVars
    <2>6. QED
      BY <1>1, <2>2, <2>3, <2>5, RequestStepKeeps DEF Elsewhere, CacheIsFaithful
  <1>6. QED
    BY <1>3, <1>4, <1>5 DEF RunGuest

\* Attest: the document names the nonce, the hash and the body of this request.
LEMMA AttestKeeps ==
    ASSUME ClientInv, NEW i \in Invokes, Attest(i),
           UNCHANGED <<registerVars, catalogReplica, cli>>
    PROVE  ClientInv'
  <1>1. /\ inv[i] \in Invoke /\ inv[i].pc = "attest" /\ UNCHANGED Elsewhere
        /\ LoadsItsVersion(i) /\ AttestsItsRun(i) /\ PaysItsRun(i) /\ PaidOnce(i)
        /\ modules \in [Hosts -> [Wasms -> Wasms \cup {Absent}]] /\ CacheIsFaithful
    BY RequestFacts DEF Attest, Elsewhere
  <1>2. /\ inv[i].charged /\ inv[i].entered /\ inv[i].charged \in BOOLEAN
        /\ "done" \in InvPC /\ {"Ok", "Attestation"} \subseteq InvResults
    BY <1>1 DEF PaysItsRun, InvPC, InvResults, Invoke
  <1>3. ASSUME NEW result \in {"Ok", "Attestation"}, InvAnswer(i, result) PROVE ClientInv'
    BY <1>1, <1>2, <1>3, AnswerKeeps
  <1>4. CASE inv' = [inv EXCEPT ![i].pc = "done", ![i].result = "Ok", ![i].doc = UserData(i)]
    <2> DEFINE doc == UserData(i)
               x == [inv[i] EXCEPT !.pc = "done", !.result = "Ok", !.doc = doc]
    <2>1. doc \in Document
      <3>1. inv[i].nonce \in Invokes /\ inv[i].body \in Bodies /\ inv[i].version \in CatalogRow
        BY <1>1 DEF AttestsItsRun, LoadsItsVersion, Resolved, Invoke
      <3>2. QED
        BY <3>1 DEF UserData, Document, CatalogRow
    <2>2. inv' = [inv EXCEPT ![i] = x]
      BY <1>4
    <2> HIDE DEF doc
    <2>3. x \in Invoke
      BY <1>1, <1>2, <2>1, Zenon DEF Invoke
    <2>4. /\ x.pc = "done" /\ x.result = "Ok" /\ x.doc = doc /\ x.entered = inv[i].entered
          /\ x.charged = inv[i].charged /\ x.body = inv[i].body
          /\ SameCall(x, i) /\ SameLoad(x, i)
      BY <1>1, Zenon DEF Invoke, SameCall, SameLoad
    <2> HIDE DEF x
    <2>5. ASSUME inv'[i] = x PROVE RequestOK(i)' /\ PaidOnce(i)'
      <3>1. UserData(i)' = doc
        BY <2>4, <2>5 DEF UserData, doc, SameCall, SameLoad
      <3>2. AttestsItsRun(i)'
        BY <2>4, <2>5, <3>1 DEF AttestsItsRun
      <3>3. LoadsItsVersion(i)' /\ PaysItsRun(i)' /\ PaidOnce(i)'
        BY <1>1, <1>2, <2>4, <2>5
           DEF LoadsItsVersion, PaysItsRun, PaidOnce, SameCall, SameLoad, Paid, Resolved,
               OfferedRow, Elsewhere, registerVars
      <3>4. QED
        BY <3>2, <3>3 DEF RequestOK
    <2>6. QED
      BY <1>1, <2>2, <2>3, <2>5, RequestStepKeeps DEF Elsewhere, CacheIsFaithful
  <1>5. QED
    BY <1>3, <1>4 DEF Attest

\* Every step of a request.
LEMMA InvokeStepKeeps ==
    ASSUME ClientInv, NEW i \in Invokes, InvokeStep(i),
           UNCHANGED <<registerVars, catalogReplica, cli>>
    PROVE  ClientInv'
  BY DebitCallerKeeps, ResolveKeeps, GetArtifactKeeps, CacheLookupKeeps, CompileKeeps,
     RunGuestKeeps, AttestKeeps, RefundCallerKeeps DEF InvokeStep

\* A restart fails the requests under way, keeps what is over, and empties a cache.
LEMMA HostRestartKeeps ==
    ASSUME ClientInv, NEW h \in Hosts, HostRestart(h),
           UNCHANGED <<registerVars, catalogReplica, cli>>
    PROVE  ClientInv'
  <1> DEFINE Hit(i) == inv[i].host = h /\ inv[i].pc \notin {"idle", "done"}
  <1>1. /\ inv \in [Invokes -> Invoke] /\ modules \in [Hosts -> [Wasms -> Wasms \cup {Absent}]]
        /\ CacheIsFaithful
        /\ "done" \in InvPC /\ "Gone" \in InvResults /\ offered' = offered
    BY DEF ClientInv, ClientTypeOK, HostTypeOK, InvPC, InvResults, registerVars
  <1>2. ASSUME NEW i \in Invokes
        PROVE  /\ inv'[i] \in Invoke
               /\ ~Hit(i) => inv'[i] = inv[i]
               /\ Hit(i) =>
                    /\ inv'[i].pc = "done" /\ inv'[i].result = "Gone"
                    /\ inv'[i].charged = inv[i].charged
                    /\ SameCall(inv'[i], i) /\ SameLoad(inv'[i], i) /\ SameRun(inv'[i], i)
    <2> DEFINE x == [inv[i] EXCEPT !.pc = "done", !.result = "Gone"]
    <2>1. inv[i] \in Invoke /\ inv'[i] = IF Hit(i) THEN x ELSE inv[i]
      BY <1>1 DEF HostRestart
    <2>2. x \in Invoke
      BY <1>1, <2>1, Zenon DEF Invoke
    <2>3. /\ x.pc = "done" /\ x.result = "Gone" /\ x.charged = inv[i].charged
          /\ SameCall(x, i) /\ SameLoad(x, i) /\ SameRun(x, i)
      BY <2>1, Zenon DEF Invoke, SameCall, SameLoad, SameRun
    <2> HIDE DEF x, Hit
    <2>4. QED
      BY <2>1, <2>2, <2>3
  <1>3. inv' \in [Invokes -> Invoke]
    <2>1. DOMAIN inv' = Invokes /\ inv' = [i \in Invokes |-> inv'[i]]
      BY DEF HostRestart
    <2>2. QED
      BY <1>2, <2>1
  <1>4. /\ modules' \in [Hosts -> [Wasms -> Wasms \cup {Absent}]]
        /\ CacheIsFaithful'
    BY <1>1 DEF HostRestart, CacheIsFaithful
  <1>5. ClientTypeOK'
    BY <1>3, <1>4 DEF ClientInv, ClientTypeOK, HostTypeOK, RegisterTypeOK, registerVars
  <1>6. RowsOffered'
    BY DEF ClientInv, RowsOffered, OfferedRow, registerVars
  <1>7. ASSUME NEW i \in Invokes PROVE RequestOK(i)' /\ PaidOnce(i)'
    <2>1. LoadsItsVersion(i) /\ AttestsItsRun(i) /\ PaysItsRun(i) /\ PaidOnce(i)
      BY RequestFacts
    <2>2. CASE ~Hit(i)
      <3>1. inv'[i] = inv[i]
        BY <1>2, <2>2
      <3>2. QED
        BY <1>1, <2>1, <3>1
           DEF RequestOK, LoadsItsVersion, AttestsItsRun, PaysItsRun, PaidOnce, OfferedRow,
               UserData
    <2>3. CASE Hit(i)
      <3>1. inv[i].doc = Absent
        BY <2>1, <2>3 DEF AttestsItsRun, PaysItsRun, FailedBeforeGuest
      <3>2. QED
        BY <1>1, <1>2, <2>1, <2>3, <3>1
           DEF RequestOK, LoadsItsVersion, AttestsItsRun, PaysItsRun, PaidOnce, SameCall,
               SameLoad, SameRun, Paid, Resolved, OfferedRow
    <2>4. QED
      BY <2>2, <2>3
  <1>8. PaidOncePerRun'
    BY <1>7 DEF PaidOncePerRun, PaidOnce
  <1>9. PrintedIsFinal'
    <2>1. \A j \in Invokes : inv[j].pc = "done" => inv'[j] = inv[j]
      BY <1>2
    <2>2. PrintedIsFinal /\ cli' = cli
      BY DEF ClientInv
    <2>3. QED
      BY <2>1, <2>2 DEF PrintedIsFinal
  <1>10. QED
    BY <1>4, <1>5, <1>6, <1>7, <1>8, <1>9 DEF ClientInv

-----------------------------------------------------------------------------
(* Steps of the catalog.                                                   *)

\* Nothing but the rows changes, and they stay offered.
LEMMA RowStepKeeps ==
    ASSUME ClientInv, UNCHANGED <<offered, inv, modules, cli>>, RegisterTypeOK',
           catalogReplica' \in [Functions -> CatalogRow \cup {Absent}], RowsOffered'
    PROVE  ClientInv'
  <1>1. ClientTypeOK' /\ CacheIsFaithful' /\ PaidOncePerRun' /\ PrintedIsFinal'
    BY DEF ClientInv, ClientTypeOK, HostTypeOK, CacheIsFaithful, PaidOncePerRun,
           PrintedIsFinal
  <1>2. ASSUME NEW i \in Invokes PROVE RequestOK(i)'
    BY DEF ClientInv, RequestOK, LoadsItsVersion, AttestsItsRun, PaysItsRun, OfferedRow,
           UserData
  <1>3. QED
    BY <1>1, <1>2 DEF ClientInv

\* Replication copies a row that was offered.
LEMMA ReplicateKeeps ==
    ASSUME ClientInv, NEW f \in Functions, ReplicateCatalog(f),
           UNCHANGED <<registerVars, cli>>
    PROVE  ClientInv'
  <1>1. /\ catalogReplica' = [catalogReplica EXCEPT ![f] = catalog[f]]
        /\ catalogReplica \in [Functions -> CatalogRow \cup {Absent}]
        /\ catalog \in [Functions -> CatalogRow \cup {Absent}] /\ RegisterTypeOK
        /\ RowsOffered /\ UNCHANGED <<offered, artifacts, catalog, inv, modules, cli>>
    BY DEF ReplicateCatalog, ClientInv, ClientTypeOK, HostTypeOK, RegisterTypeOK,
           registerVars
  <1>2. RegisterTypeOK' /\ catalogReplica' \in [Functions -> CatalogRow \cup {Absent}]
    BY <1>1 DEF RegisterTypeOK
  <1>3. RowsOffered'
    BY <1>1 DEF RowsOffered, OfferedRow
  <1>4. QED
    BY <1>1, <1>2, <1>3, RowStepKeeps

\* A publish makes a function serve one of the offers.
LEMMA RegisterKeeps ==
    ASSUME ClientInv, RegisterNext, UNCHANGED <<hostVars, cli>>
    PROVE  ClientInv'
  <1>1. /\ RegisterTypeOK /\ RowsOffered /\ UNCHANGED <<catalogReplica, inv, modules, cli>>
        /\ catalogReplica \in [Functions -> CatalogRow \cup {Absent}]
    BY DEF ClientInv, ClientTypeOK, HostTypeOK, hostVars
  <1>2. PICK o \in offered : Upload(o) \/ \E g \in Generations : Serve(o, g)
    BY DEF RegisterNext
  <1>3. /\ o \in Offer /\ o.function \in Functions /\ o.content_hash \in Wasms
        /\ o.egress_allow \in SUBSET Origins
    BY <1>1, <1>2 DEF RegisterTypeOK, Offer
  <1>4. CASE Upload(o)
    <2>1. RegisterTypeOK' /\ UNCHANGED <<offered, catalog>>
      BY <1>1, <1>3, <1>4 DEF Upload, RegisterTypeOK
    <2>2. RowsOffered'
      BY <1>1, <2>1 DEF RowsOffered, OfferedRow
    <2>3. QED
      BY <1>1, <2>1, <2>2, RowStepKeeps
  <1>5. ASSUME NEW g \in Generations, Serve(o, g) PROVE ClientInv'
    <2> DEFINE new == [content_hash |-> o.content_hash, queued_at |-> g,
                       egress_allow |-> o.egress_allow]
    <2>1. /\ catalog' = [catalog EXCEPT ![o.function] = new]
          /\ UNCHANGED <<offered, artifacts>>
      BY <1>5 DEF Serve
    <2>2. new \in CatalogRow /\ new.content_hash = o.content_hash
          /\ new.egress_allow = o.egress_allow
      BY <1>3 DEF CatalogRow
    <2> HIDE DEF new
    <2>3. RegisterTypeOK' /\ catalog \in [Functions -> CatalogRow \cup {Absent}]
      BY <1>1, <1>3, <2>1, <2>2 DEF RegisterTypeOK
    <2>4. [function |-> o.function, content_hash |-> new.content_hash,
           egress_allow |-> new.egress_allow] = o
      BY <1>3, <2>2 DEF Offer
    <2>5. RowsOffered'
      BY <1>1, <1>2, <1>3, <2>1, <2>3, <2>4 DEF RowsOffered, OfferedRow
    <2>6. QED
      BY <1>1, <2>1, <2>3, <2>5, RowStepKeeps
  <1>6. QED
    BY <1>2, <1>4, <1>5

-----------------------------------------------------------------------------
(* Steps of the CLI.                                                       *)

\* What the CLI accepts from the host of its request, or with a document of this
\* measurement, is what a finished request computed.
LEMMA AcceptedIsFinal ==
    ASSUME ClientInv, NEW i \in Sessions, NEW r \in Answer, Accepts(i, r),
           cli[i].insecure \/ r \in HostAnswers(i)
    PROVE  /\ cli[i].pcr0 # Absent =>
                \E j \in Invokes :
                   /\ inv[j].pc = "done" /\ inv[j].nonce = i /\ inv[j].charged
                   /\ inv[j].ran = cli[i].fn_shasum /\ inv[j].body = r.body
           /\ ~cli[i].insecure /\ cli[i].fn_shasum # Absent =>
                /\ inv[i].pc = "done" /\ inv[i].ran = cli[i].fn_shasum
                /\ inv[i].body = r.body
  <1>1. ASSUME NEW j \in Invokes, inv[j].result = "Ok"
        PROVE  /\ inv[j].pc = "done" /\ inv[j].charged
               /\ inv[j].ran = inv[j].version.content_hash
    <2>1. LoadsItsVersion(j) /\ PaysItsRun(j) /\ PaidOnce(j)
      BY RequestFacts
    <2>2. QED
      BY <1>1, <2>1 DEF LoadsItsVersion, PaysItsRun, PaidOnce, FailedBeforeGuest
  <1>2. ASSUME cli[i].pcr0 # Absent
        PROVE  \E j \in Invokes :
                   /\ inv[j].pc = "done" /\ inv[j].nonce = i /\ inv[j].charged
                   /\ inv[j].ran = cli[i].fn_shasum /\ inv[j].body = r.body
    <2>1. cli[i].pcr0 = PCR0
      BY <1>2 DEF ClientInv, ClientTypeOK, CliInvoke
    <2>2. /\ VerifyInvokeAttestation(i, r)
          /\ r.attestation \in Minted
      BY <1>2 DEF Accepts, VerifyInvokeAttestation, Answer
    <2>3. r.attestation.pcr0 = PCR0
      BY <2>1, <2>2 DEF VerifyInvokeAttestation
    <2>4. PICK j \in Invokes : /\ inv[j].doc # Absent
                               /\ r.attestation = [pcr0 |-> PCR0, data |-> inv[j].doc]
      BY <2>2, <2>3 DEF Minted
    <2>5. inv[j].result = "Ok" /\ inv[j].doc = UserData(j)
      BY <2>4, RequestFacts DEF AttestsItsRun
    <2>6. r.attestation.data = UserData(j)
      BY <2>4, <2>5
    <2>7. /\ inv[j].nonce = i /\ inv[j].version.content_hash = cli[i].fn_shasum
          /\ inv[j].body = r.body
      BY <2>2, <2>6 DEF VerifyInvokeAttestation, UserData
    <2>8. QED
      BY <1>1, <2>5, <2>7
  <1>3. ASSUME ~cli[i].insecure, cli[i].fn_shasum # Absent
        PROVE  /\ inv[i].pc = "done" /\ inv[i].ran = cli[i].fn_shasum
               /\ inv[i].body = r.body
    <2>1. r \in HostAnswers(i) /\ r.success /\ r.shasum = cli[i].fn_shasum /\ i \in Invokes
      BY <1>3 DEF Accepts, ShasumMatches
    <2>2. inv[i].result = "Ok"
      BY <2>1 DEF HostAnswers, ErrorAnswers
    <2>3. r.body = inv[i].body /\ r.shasum = inv[i].version.content_hash
      BY <2>1, <2>2 DEF HostAnswers
    <2>4. QED
      BY <1>1, <2>1, <2>2, <2>3
  <1>4. QED
    BY <1>2, <1>3

\* A step of one CLI run keeps the invariant when what it prints is final.
LEMMA CliStepKeeps ==
    ASSUME ClientInv, NEW i \in Sessions, NEW c \in CliInvoke,
           cli' = [cli EXCEPT ![i] = c], UNCHANGED serviceVars,
           c.pc = "printed" =>
            /\ c.pcr0 # Absent =>
                 \E j \in Invokes :
                    /\ inv[j].pc = "done" /\ inv[j].nonce = i /\ inv[j].charged
                    /\ inv[j].ran = c.fn_shasum /\ inv[j].body = c.body
            /\ ~c.insecure /\ c.fn_shasum # Absent =>
                 inv[i].pc = "done" /\ inv[i].ran = c.fn_shasum /\ inv[i].body = c.body
    PROVE  ClientInv'
  <1>1. /\ UNCHANGED <<offered, artifacts, catalog, catalogReplica, inv, modules>>
        /\ cli \in [Sessions -> CliInvoke]
    BY DEF ClientInv, ClientTypeOK, serviceVars, registerVars, hostVars
  <1>2. ClientTypeOK'
    BY <1>1 DEF ClientInv, ClientTypeOK, HostTypeOK, RegisterTypeOK
  <1>3. RowsOffered' /\ CacheIsFaithful' /\ PaidOncePerRun'
    BY <1>1 DEF ClientInv, RowsOffered, OfferedRow, CacheIsFaithful, PaidOncePerRun
  <1>4. ASSUME NEW j \in Invokes PROVE RequestOK(j)'
    BY <1>1 DEF ClientInv, RequestOK, LoadsItsVersion, AttestsItsRun, PaysItsRun,
                OfferedRow, UserData
  <1>5. PrintedIsFinal'
    <2>1. ASSUME NEW s \in Sessions, s # i, cli'[s].pc = "printed"
          PROVE  cli'[s] = cli[s]
      BY <1>1, <2>1
    <2>2. cli'[i] = c /\ PrintedIsFinal /\ inv' = inv
      BY <1>1 DEF ClientInv
    <2>3. QED
      BY <2>1, <2>2 DEF PrintedIsFinal
  <1>6. QED
    BY <1>2, <1>3, <1>4, <1>5 DEF ClientInv

\* A CLI run that only goes on, without a body to print.
LEMMA CliGoesOn ==
    ASSUME ClientInv, NEW i \in Sessions, NEW pc \in {"sent", "failed"},
           cli' = [cli EXCEPT ![i].pc = pc], UNCHANGED serviceVars
    PROVE  ClientInv'
  <1> DEFINE c == [cli[i] EXCEPT !.pc = pc]
  <1>1. cli[i] \in CliInvoke /\ pc \in CliPC /\ cli' = [cli EXCEPT ![i] = c]
    BY DEF ClientInv, ClientTypeOK, CliPC
  <1>2. c \in CliInvoke /\ c.pc = pc
    BY <1>1, Zenon DEF CliInvoke
  <1> HIDE DEF c
  <1>3. QED
    BY <1>1, <1>2, CliStepKeeps

\* CliReceive: only what was accepted is printed.
LEMMA CliReceiveKeeps ==
    ASSUME ClientInv, NEW i \in Sessions, CliReceive(i)
    PROVE  ClientInv'
  <1>1. UNCHANGED serviceVars
    BY DEF CliReceive
  <1>2. CASE cli' = [cli EXCEPT ![i].pc = "failed"]
    BY <1>1, <1>2, CliGoesOn
  <1>3. ASSUME NEW r \in Answer, cli[i].insecure \/ r \in HostAnswers(i), Accepts(i, r),
               cli' = [cli EXCEPT ![i].pc = "printed", ![i].body = r.body]
        PROVE  ClientInv'
    <2> DEFINE body == r.body
               c == [cli[i] EXCEPT !.pc = "printed", !.body = body]
    <2>1. /\ cli[i] \in CliInvoke /\ "printed" \in CliPC /\ body \in Bodies
          /\ cli' = [cli EXCEPT ![i] = c]
      BY <1>3 DEF ClientInv, ClientTypeOK, CliPC, Answer
    <2>2. /\ cli[i].pcr0 # Absent =>
               \E j \in Invokes :
                  /\ inv[j].pc = "done" /\ inv[j].nonce = i /\ inv[j].charged
                  /\ inv[j].ran = cli[i].fn_shasum /\ inv[j].body = body
          /\ ~cli[i].insecure /\ cli[i].fn_shasum # Absent =>
               /\ inv[i].pc = "done" /\ inv[i].ran = cli[i].fn_shasum
               /\ inv[i].body = body
      BY <1>3, AcceptedIsFinal
    <2> HIDE DEF body
    <2>3. /\ c \in CliInvoke /\ c.body = body /\ c.pcr0 = cli[i].pcr0
          /\ c.fn_shasum = cli[i].fn_shasum /\ c.insecure = cli[i].insecure
      BY <2>1, Zenon DEF CliInvoke
    <2> HIDE DEF c
    <2>4. QED
      BY <1>1, <2>1, <2>2, <2>3, CliStepKeeps
  <1>4. QED
    BY <1>2, <1>3 DEF CliReceive

\* Arrive: whoever sends a request, its nonce is one of a request or none.
LEMMA ArriveKeeps ==
    ASSUME ClientInv, NEW i \in Invokes, Arrive(i)
    PROVE  ClientInv'
  <1>1. UNCHANGED <<registerVars, catalogReplica, cli>>
    BY DEF Arrive
  <1>2. PICK nonce \in Invokes \cup {Absent} : InvokeStart(i, nonce)
    BY DEF Arrive, NonceOf
  <1>3. QED
    BY <1>1, <1>2, InvokeStartKeeps

-----------------------------------------------------------------------------
(* The theorems.                                                           *)

\* The invariant of hosts, callers and CLI: loads, documents and charges of every
\* request fit its step, and what was printed is final.
THEOREM ClientInvariant == ClientSpec => []ClientInv
  <1>1. ClientInit => ClientInv
    <2> SUFFICES ASSUME ClientInit PROVE ClientInv
      OBVIOUS
    <2>1. RegisterTypeOK /\ catalogReplica = catalog /\ \A f \in Functions : catalog[f] = Absent
      BY DEF ClientInit, HostInit, RegisterInit, RegisterTypeOK
    <2>2. ASSUME NEW i \in Invokes
          PROVE  /\ inv[i] \in Invoke /\ inv[i].pc = "idle" /\ inv[i].ran = Absent
                 /\ inv[i].doc = Absent /\ inv[i].result = "None"
                 /\ inv[i].charged = FALSE /\ inv[i].entered = FALSE
      BY DEF ClientInit, HostInit, Invoke, InvPC, InvResults
    <2>3. inv \in [Invokes -> Invoke]
      <3>1. inv = [i \in Invokes |-> inv[i]]
        BY DEF ClientInit, HostInit
      <3>2. QED
        BY <2>2, <3>1
    <2>4. /\ modules \in [Hosts -> [Wasms -> Wasms \cup {Absent}]] /\ CacheIsFaithful
      BY DEF ClientInit, HostInit, CacheIsFaithful
    <2>5. cli \in [Sessions -> CliInvoke] /\ \A i \in Sessions : cli[i].pc = "args"
      BY DEF ClientInit
    <2>6. ClientTypeOK
      BY <2>1, <2>3, <2>4, <2>5 DEF ClientTypeOK, HostTypeOK, RegisterTypeOK
    <2>7. RowsOffered /\ PaidOncePerRun /\ PrintedIsFinal
      BY <2>1, <2>2, <2>5 DEF RowsOffered, PaidOncePerRun, PrintedIsFinal
    <2>8. \A i \in Invokes : RequestOK(i)
      BY <2>2 DEF RequestOK, LoadsItsVersion, AttestsItsRun, PaysItsRun, Resolved, Paid
    <2>9. QED
      BY <2>4, <2>6, <2>7, <2>8 DEF ClientInv
  <1>2. ClientInv /\ [ClientNext]_clientVars => ClientInv'
    <2> SUFFICES ASSUME ClientInv, [ClientNext]_clientVars PROVE ClientInv'
      OBVIOUS
    <2>1. ASSUME NEW i \in Sessions, CliSend(i) PROVE ClientInv'
      BY <2>1, CliGoesOn DEF CliSend
    <2>2. ASSUME NEW i \in Sessions, CliReceive(i) PROVE ClientInv'
      BY <2>2, CliReceiveKeeps
    <2>3. ASSUME NEW i \in Invokes, Arrive(i) PROVE ClientInv'
      BY <2>3, ArriveKeeps
    <2>4. CASE HostNext /\ UNCHANGED <<registerVars, cli>>
      <3>1. ASSUME NEW i \in Invokes, InvokeStep(i), UNCHANGED catalogReplica
            PROVE  ClientInv'
        BY <2>4, <3>1, InvokeStepKeeps
      <3>2. ASSUME NEW h \in Hosts, HostRestart(h), UNCHANGED catalogReplica
            PROVE  ClientInv'
        BY <2>4, <3>2, HostRestartKeeps
      <3>3. ASSUME NEW f \in Functions, ReplicateCatalog(f) PROVE ClientInv'
        BY <2>4, <3>3, ReplicateKeeps
      <3>4. QED
        BY <2>4, <3>1, <3>2, <3>3 DEF HostNext
    <2>5. CASE RegisterNext /\ UNCHANGED <<hostVars, cli>>
      BY <2>5, RegisterKeeps
    <2>6. CASE UNCHANGED clientVars
      <3>1. /\ UNCHANGED <<offered, inv, modules, cli, artifacts, catalog, catalogReplica>>
            /\ RegisterTypeOK /\ RowsOffered
            /\ catalogReplica \in [Functions -> CatalogRow \cup {Absent}]
        BY <2>6 DEF clientVars, serviceVars, registerVars, hostVars, ClientInv,
                    ClientTypeOK, HostTypeOK
      <3>2. QED
        BY <3>1, RowStepKeeps DEF RegisterTypeOK, RowsOffered, OfferedRow
    <2>7. QED
      BY <2>1, <2>2, <2>3, <2>4, <2>5, <2>6 DEF ClientNext
  <1>3. QED
    BY <1>1, <1>2, PTL DEF ClientSpec

\* Every table, request and CLI run keeps its type.
THEOREM ClientTypeCorrect == ClientSpec => []ClientTypeOK
  <1>1. ClientInv => ClientTypeOK
    BY DEF ClientInv
  <1>2. QED
    BY <1>1, ClientInvariant, PTL

\* No host ever caches a module under the hash of another, whatever bytes the
\* bucket returns: S3ArtifactStore::get hashes them again before cached_module.
THEOREM CachesAreFaithful == ClientSpec => []CacheIsFaithful
  <1>1. ClientInv => CacheIsFaithful
    BY DEF ClientInv
  <1>2. QED
    BY <1>1, ClientInvariant, PTL

\* A host runs a module only as one publish of the function offered it, with the
\* egress list of that publish, while others publish and rows are read late.
THEOREM EveryRunIsOnePublish == ClientSpec => []RunsOnePublish
  <1>1. ClientInv => RunsOnePublish
    <2> SUFFICES ASSUME ClientInv, NEW i \in Invokes, inv[i].ran # Absent
                 PROVE  [function |-> inv[i].function, content_hash |-> inv[i].ran,
                         egress_allow |-> inv[i].version.egress_allow] \in offered
      BY DEF RunsOnePublish
    <2>1. LoadsItsVersion(i)
      BY RequestFacts
    <2>2. QED
      BY <2>1 DEF LoadsItsVersion, OfferedRow
  <1>2. QED
    BY <1>1, ClientInvariant, PTL

\* A run that entered its guest is charged, and a charge without a run is left
\* only by a lost ledger write, a runner error or a restart.
THEOREM RunsArePaidOnce == ClientSpec => []PaidOncePerRun
  <1>1. ClientInv => PaidOncePerRun
    BY DEF ClientInv
  <1>2. QED
    BY <1>1, ClientInvariant, PTL

\* A body the CLI prints was computed by a host for this run: with --pcr0 even if
\* somebody else answered, with --fn-shasum whatever headers the guest set.
THEOREM PrintedBodiesWereComputed == ClientSpec => []PrintedMeansRan
  <1>1. ClientInv => PrintedMeansRan
    BY DEF ClientInv, PrintedIsFinal, PrintedMeansRan
  <1>2. QED
    BY <1>1, ClientInvariant, PTL
=============================================================================
