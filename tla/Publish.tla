------------------------------ MODULE Publish -------------------------------
(***************************************************************************)
(* PublishFunction::execute on the API tasks: take the function's publish  *)
(* lock, store the wasm, point the catalog at it, release the lock.        *)
(*                                                                         *)
(* The lock and the catalog are DynamoDB tables changed by conditional     *)
(* writes, the artifacts an S3 bucket keyed by content hash. A lock row    *)
(* expires TTL after the moment its publisher read the clock; a publisher  *)
(* that is slower than that keeps going without it. A request future may   *)
(* be dropped at any await, and a write whose answer was lost (time-out,   *)
(* drop, resend by the AWS SDK) may still reach the table, much later.     *)
(***************************************************************************)
EXTENDS Integers, FiniteSets

CONSTANTS
    Publishers,     \* publish requests
    Functions,      \* function names
    Wasms,          \* wasm modules; a module stands for its content hash
    Origins,        \* egress origins
    TTL,            \* TTL_SECS
    Second,         \* the ticks of the clock (milliseconds) in a second
    Skew,           \* how far the clock of an API task may lag
    MaxTime,        \* bound on the clock
    MaxLate,        \* bound on the writes in flight without a reader
    Absent          \* no row

ASSUME PublishAssumption ==
    /\ TTL \in Nat \ {0} /\ Second \in Nat \ {0} /\ Skew \in Nat /\ MaxTime \in Nat /\ MaxLate \in Nat
    /\ IsFiniteSet(Publishers)
    /\ Absent \notin Publishers

VARIABLES
    clock,          \* the most advanced clock
    lock,           \* lock table: function -> row
    holder,         \* history: who wrote the lock row
    artifacts,      \* hashes in the bucket
    catalog,        \* catalog table: function -> row of label "latest"
    pub,            \* request -> where its handler is
    late            \* writes sent whose answer nobody waits for

publishVars == <<clock, lock, holder, artifacts, catalog, pub, late>>

LockRow == [content_hash: Wasms, expires_at: Nat]
CatalogRow == [content_hash: Wasms, queued_at: Nat, egress_allow: SUBSET Origins]

ASSUME NoRowAssumption == Absent \notin LockRow \cup CatalogRow

PubPC == {"idle", "acquire", "put", "upsert", "release", "cleanup", "done", "gone"}
PubResults == {"None", "Refused", "Conflict", "Storage", "Ready", "Superseded"}

\* after: history, the publishes of the function that were done at the start.
Publish == [pc: PubPC, function: Functions, hash: Wasms,
            egress_allow: SUBSET Origins, queued_at: Nat, applied: BOOLEAN,
            result: PubResults, after: SUBSET Publishers]

PublishTypeOK ==
    /\ clock \in 0..MaxTime
    /\ lock \in [Functions -> LockRow \cup {Absent}]
    /\ holder \in [Functions -> Publishers \cup {Absent}]
    /\ artifacts \subseteq Wasms
    /\ catalog \in [Functions -> CatalogRow \cup {Absent}]
    /\ pub \in [Publishers -> Publish]
    /\ late \subseteq {"acquire", "upsert", "release"} \X Publishers

PublishInit ==
    /\ clock = 0
    /\ lock = [f \in Functions |-> Absent]
    /\ holder = [f \in Functions |-> Absent]
    /\ artifacts = {}
    /\ catalog = [f \in Functions |-> Absent]
    /\ pub \in [Publishers ->
                 {[pc |-> "idle", function |-> f, hash |-> h, egress_allow |-> e,
                   queued_at |-> 0, applied |-> FALSE, result |-> "None",
                   after |-> {}] :
                    f \in Functions, h \in Wasms, e \in SUBSET Origins}]
    /\ late = {}

-----------------------------------------------------------------------------
(* The conditional writes. Generations are in milliseconds, the lock table *)
(* in seconds.                                                             *)

Secs(t) == t \div Second

\* DynamoDbPublishLock::acquire: the row is missing, or expired when the
\* publisher read its clock.
Acquires(p) ==
    LET row == lock[pub[p].function] IN
    row # Absent => row.expires_at <= Secs(pub[p].queued_at)

PutLockWithoutExpiry(p) ==
    /\ lock' = [lock EXCEPT ![pub[p].function] =
                 [content_hash |-> pub[p].hash, expires_at |-> Absent]]
    /\ holder' = [holder EXCEPT ![pub[p].function] = p]

PutLockForGood(p) ==
    /\ lock' = [lock EXCEPT ![pub[p].function] =
                 [content_hash |-> pub[p].hash, expires_at |-> MaxTime + TTL]]
    /\ holder' = [holder EXCEPT ![pub[p].function] = p]

PutLock(p) ==
    /\ lock' = [lock EXCEPT ![pub[p].function] =
                 [content_hash |-> pub[p].hash,
                  expires_at |-> Secs(pub[p].queued_at) + TTL]]
    /\ holder' = [holder EXCEPT ![pub[p].function] = p]

ReleasesAny(p) == lock[pub[p].function] # Absent

\* DynamoDbPublishLock::release: only a row with this publish's hash.
Releases(p) ==
    /\ lock[pub[p].function] # Absent
    /\ lock[pub[p].function].content_hash = pub[p].hash

DeleteLock(p) ==
    /\ lock' = [lock EXCEPT ![pub[p].function] = Absent]
    /\ holder' = [holder EXCEPT ![pub[p].function] = Absent]

UpsertsIfNewer(p) ==
    LET row == catalog[pub[p].function] IN
    row # Absent => row.queued_at < pub[p].queued_at

UpsertsAlways(p) == TRUE

\* DynamoDbFunctionCatalog::upsert: no row, or one that was not queued later.
Upserts(p) ==
    LET row == catalog[pub[p].function] IN
    row # Absent => row.queued_at <= pub[p].queued_at

PutRowKeepingEgress(p) ==
    LET row == catalog[pub[p].function] IN
    catalog' = [catalog EXCEPT ![pub[p].function] =
                 [content_hash |-> pub[p].hash,
                  queued_at |-> pub[p].queued_at,
                  egress_allow |-> IF pub[p].egress_allow = {} /\ row # Absent
                                     THEN row.egress_allow
                                     ELSE pub[p].egress_allow]]

\* The whole item is replaced, the egress list included.
PutRow(p) ==
    catalog' = [catalog EXCEPT ![pub[p].function] =
                 [content_hash |-> pub[p].hash,
                  queued_at |-> pub[p].queued_at,
                  egress_allow |-> pub[p].egress_allow]]

-----------------------------------------------------------------------------
PubGoTo(p, pc) == pub' = [pub EXCEPT ![p].pc = pc]
PubAnswer(p, result) ==
    pub' = [pub EXCEPT ![p].pc = "done", ![p].result = result]

Bucket == UNCHANGED <<clock, artifacts>>
NoWrite == UNCHANGED <<lock, holder, catalog>>

\* Nobody waits for the answer of p's write any longer.
LeaveLate(op, p) ==
    /\ Cardinality(late) < MaxLate
    /\ late' = late \cup {<<op, p>>}
    /\ NoWrite

\* What an API task may read as the current time.
Now == {t \in 0..clock : t + Skew >= clock}

\* The publish is refused before it touches anything: by the route (the deploy
\* gate's bearer and minimum balance, the function's name, the egress headers),
\* or because the module is empty, oversize or invalid.
Refuse(p) == PubAnswer(p, "Refused")

\* execute() up to the lock: unless the publish is refused, the clock is read, for the generation
\* in milliseconds and, with no await in between, for the lock in seconds.
PublishStart(p) ==
    /\ pub[p].pc = "idle"
    /\ \/ Refuse(p)
       \/ /\ clock + TTL * Second <= MaxTime
          /\ \E t \in Now :
               pub' = [pub EXCEPT ![p].pc = "acquire", ![p].queued_at = t,
                        ![p].after = {q \in Publishers :
                                       /\ pub[q].pc = "done"
                                       /\ pub[q].function = pub[p].function}]
    /\ NoWrite /\ Bucket /\ UNCHANGED late

Acquire(p) ==
    /\ pub[p].pc = "acquire"
    /\ \/ Acquires(p) /\ PutLock(p) /\ PubGoTo(p, "put") /\ UNCHANGED <<catalog, late>>
       \/ ~Acquires(p) /\ PubAnswer(p, "Conflict") /\ NoWrite /\ UNCHANGED late
       \/ PubAnswer(p, "Storage") /\ LeaveLate("acquire", p)
    /\ Bucket

PutArtifactIgnoringError(p) ==
    /\ pub[p].pc = "put"
    /\ \/ artifacts' = artifacts \cup {pub[p].hash}
       \/ UNCHANGED artifacts
    /\ PubGoTo(p, "upsert")
    /\ NoWrite /\ UNCHANGED <<clock, late>>

\* S3ArtifactStore::put; on an error, also one after the object was stored, the
\* lock is released and the error returned.
PutArtifact(p) ==
    /\ pub[p].pc = "put"
    /\ \/ /\ artifacts' = artifacts \cup {pub[p].hash}
          /\ PubGoTo(p, "upsert") \/ PubGoTo(p, "cleanup")
       \/ PubGoTo(p, "cleanup") /\ UNCHANGED artifacts
    /\ NoWrite /\ UNCHANGED <<clock, late>>

\* A generation that lost is not an error: the publish goes on to release.
Upsert(p) ==
    /\ pub[p].pc = "upsert"
    /\ \/ /\ Upserts(p) /\ PutRow(p)
          /\ pub' = [pub EXCEPT ![p].pc = "release", ![p].applied = TRUE]
          /\ UNCHANGED <<lock, holder, late>>
       \/ ~Upserts(p) /\ PubGoTo(p, "release") /\ NoWrite /\ UNCHANGED late
       \/ PubGoTo(p, "cleanup") /\ LeaveLate("upsert", p)
    /\ Bucket

\* The release after the upsert: its error is the caller's answer, although the
\* catalog may have been written.
Release(p) ==
    /\ pub[p].pc = "release"
    /\ \/ /\ PubAnswer(p, IF pub[p].applied THEN "Ready" ELSE "Superseded")
          /\ IF Releases(p) THEN DeleteLock(p) /\ UNCHANGED catalog ELSE NoWrite
          /\ UNCHANGED late
       \/ PubAnswer(p, "Storage") /\ LeaveLate("release", p)
    /\ Bucket

\* The release of the error paths: its own error is ignored.
Cleanup(p) ==
    /\ pub[p].pc = "cleanup"
    /\ PubAnswer(p, "Storage")
    /\ \/ /\ IF Releases(p) THEN DeleteLock(p) /\ UNCHANGED catalog ELSE NoWrite
          /\ UNCHANGED late
       \/ LeaveLate("release", p)
    /\ Bucket

WriteOf(pc) == CASE pc = "acquire" -> "acquire"
                 [] pc = "upsert" -> "upsert"
                 [] pc \in {"release", "cleanup"} -> "release"

\* The AWS SDK gives up waiting for an answer and sends the same write again.
Resend(p) ==
    /\ pub[p].pc \in {"acquire", "upsert", "release", "cleanup"}
    /\ LeaveLate(WriteOf(pub[p].pc), p)
    /\ Bucket /\ UNCHANGED pub

\* The request future is dropped, or the task is killed.
PublishDrop(p) ==
    /\ pub[p].pc \notin {"idle", "done", "gone"}
    /\ PubGoTo(p, "gone")
    /\ \/ NoWrite /\ UNCHANGED <<artifacts, late>>
       \/ /\ pub[p].pc = "put"
          /\ artifacts' = artifacts \cup {pub[p].hash}
          /\ NoWrite /\ UNCHANGED late
       \/ /\ pub[p].pc \in {"acquire", "upsert", "release", "cleanup"}
          /\ LeaveLate(WriteOf(pub[p].pc), p)
          /\ UNCHANGED artifacts
    /\ UNCHANGED clock

\* A write nobody waits for reaches its table, or is lost; that its condition
\* failed is no one's concern.
LateWrite(op, p) ==
    /\ <<op, p>> \in late
    /\ late' = late \ {<<op, p>>}
    /\ \/ /\ op = "acquire" /\ Acquires(p)
          /\ PutLock(p) /\ UNCHANGED catalog
       \/ /\ op = "upsert" /\ Upserts(p)
          /\ PutRow(p) /\ UNCHANGED <<lock, holder>>
       \/ /\ op = "release" /\ Releases(p)
          /\ DeleteLock(p) /\ UNCHANGED catalog
       \/ NoWrite
    /\ Bucket /\ UNCHANGED pub

\* DynamoDB deletes rows whose expires_at has passed, sooner or later.
ReapLock(f) ==
    /\ lock[f] # Absent /\ lock[f].expires_at <= Secs(clock)
    /\ lock' = [lock EXCEPT ![f] = Absent]
    /\ holder' = [holder EXCEPT ![f] = Absent]
    /\ Bucket /\ UNCHANGED <<catalog, pub, late>>

Tick ==
    /\ clock < MaxTime
    /\ clock' = clock + 1
    /\ NoWrite /\ UNCHANGED <<artifacts, pub, late>>

PublishStep(p) ==
    \/ PublishStart(p) \/ Acquire(p) \/ PutArtifact(p) \/ Upsert(p)
    \/ Release(p) \/ Cleanup(p)

PublishNext ==
    \/ \E p \in Publishers : PublishStep(p) \/ Resend(p) \/ PublishDrop(p)
    \/ \E op \in {"acquire", "upsert", "release"}, p \in Publishers : LateWrite(op, p)
    \/ \E f \in Functions : ReapLock(f)
    \/ Tick

PublishSpec == PublishInit /\ [][PublishNext]_publishVars

\* Time passes; nothing else is fair: every task may have been killed.
FairPublishSpec == PublishSpec /\ WF_publishVars(Tick)

-----------------------------------------------------------------------------
(* Properties.                                                             *)

\* What the publishes of this behaviour offer.
Offered ==
    {[function |-> pub[p].function, content_hash |-> pub[p].hash,
      egress_allow |-> pub[p].egress_allow] : p \in Publishers}

Register == INSTANCE CatalogRegister WITH
    offered <- Offered,
    Generations <- 0..MaxTime,
    OfferSets <- SUBSET [function: Functions, content_hash: Wasms, egress_allow: SUBSET Origins]

\* Whatever overtakes whatever (an expired lock, a write delivered late, a failed
\* upload), hosts are served by a register: a row is one publish as a whole, its
\* module is in the bucket before it, and its generation never goes back.
CatalogIsRegister == Register!RegisterSpec

\* "Ready": the publish, or one queued no earlier, is what the function serves.
\* "Superseded": one queued strictly later is.
AnswerMatchesCatalog ==
    \A p \in Publishers :
        LET row == catalog[pub[p].function] IN
        /\ pub[p].result = "Ready" =>
             row # Absent /\ row.queued_at >= pub[p].queued_at
        /\ pub[p].result = "Superseded" =>
             row # Absent /\ row.queued_at > pub[p].queued_at

\* A publish is superseded by one that was still to be done when it started. The
\* deploy before it supersedes it only within the skew of the clocks, and never
\* when the two generations are equal.
SupersededByConcurrent ==
    \A p \in Publishers :
        pub[p].result = "Superseded" =>
            \E q \in Publishers \ {p} :
                /\ pub[q].function = pub[p].function
                /\ pub[q].queued_at = catalog[pub[p].function].queued_at
                /\ q \in pub[p].after =>
                    pub[q].queued_at \in pub[p].queued_at + 1 .. pub[p].queued_at + Skew

\* The publishes of f between lock and release whose lock term still runs.
Live(f) ==
    {p \in Publishers :
        /\ pub[p].function = f
        /\ pub[p].pc \in {"put", "upsert"}
        /\ Secs(clock) < Secs(pub[p].queued_at) + TTL}

Republished(f) ==
    \E p, q \in Publishers :
        /\ p # q /\ pub[p].function = f /\ pub[q].function = f
        /\ pub[p].hash = pub[q].hash

\* One live lock per function: of publishes of different modules only the one
\* the lock row belongs to is between lock and release within its lock term,
\* whatever was dropped, resent, taken over or delivered late.
LockExcludes ==
    \A f \in Functions :
        Republished(f) \/ \A p \in Live(f) : holder[f] = p

\* "Wrong-hash deletes are ignored so a late release cannot unlock a newer
\* publish": a publish within its term still has its lock row, also when the
\* same module is published again.
LiveHolderKeepsLock ==
    \A f \in Functions : \A p \in Live(f) : holder[f] = p

\* "Safety TTL so a crashed publish cannot block the name forever": whatever
\* becomes of its publisher, a lock row comes to be gone or open to take over.
CrashedPublishUnblocks ==
    \A f \in Functions :
        (lock[f] # Absent) ~> (lock[f] = Absent \/ lock[f].expires_at <= Secs(clock))
=============================================================================
