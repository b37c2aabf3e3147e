--------------------------- MODULE PublishProofs ----------------------------
(***************************************************************************)
(* Proofs about Publish for any number of publishes, functions and         *)
(* modules, any lock term, any skew of the clocks and any number of writes *)
(* delivered late: the catalog is the register CatalogRegister describes,  *)
(* answers tell the truth about it, and the lock excludes.                 *)
(***************************************************************************)
EXTENDS Publish, TLAPS

USE PublishAssumption, NoRowAssumption

-----------------------------------------------------------------------------
(* The inductive invariant.                                                *)

\* What is true of a publish, whatever the others do: its generation is a time that
\* has passed; a module is stored before the catalog is to point at it; and those
\* it started after were done by then, with generations at most Skew later.
PublishOK(p) ==
    /\ pub[p].queued_at <= clock
    /\ pub[p].pc = "upsert" => pub[p].hash \in artifacts
    /\ \A q \in pub[p].after :
        pub[q].pc = "done" /\ pub[q].queued_at <= pub[p].queued_at + Skew

\* What a publish knows of the catalog, by the time it is answered and before.
AnswerOK(p) ==
    LET row == catalog[pub[p].function] IN
    /\ pub[p].pc = "idle" => ~pub[p].applied /\ pub[p].result = "None"
    /\ pub[p].result = "Ready" => pub[p].applied
    /\ pub[p].applied => row # Absent /\ row.queued_at >= pub[p].queued_at
    /\ pub[p].result = "Superseded" \/ (pub[p].pc = "release" /\ ~pub[p].applied) =>
        row # Absent /\ row.queued_at > pub[p].queued_at

\* A write without a reader was sent by a publish that had come so far.
LateOK(op, p) ==
    <<op, p>> \in late =>
        /\ pub[p].pc # "idle"
        /\ op = "upsert" => pub[p].hash \in artifacts
        /\ op = "release" => pub[p].pc \notin {"acquire", "put", "upsert"}

\* A row has the generation of a publish of its function.
RowOK(f) ==
    catalog[f] # Absent =>
        \E q \in Publishers :
            /\ pub[q].function = f /\ pub[q].pc # "idle"
            /\ pub[q].queued_at = catalog[f].queued_at

\* The lock row of a function is that of its holder, and runs for the holder's term.
HolderOK(f) ==
    holder[f] # Absent =>
        /\ lock[f] # Absent
        /\ pub[holder[f]].function = f /\ pub[holder[f]].pc # "idle"
        /\ lock[f].content_hash = pub[holder[f]].hash
        /\ lock[f].expires_at = Secs(pub[holder[f]].queued_at) + TTL

PublishInv ==
    /\ PublishTypeOK
    /\ \A p \in Publishers : PublishOK(p) /\ AnswerOK(p)
    /\ \A op \in {"acquire", "upsert", "release"}, p \in Publishers : LateOK(op, p)
    /\ \A f \in Functions : RowOK(f) /\ HolderOK(f)
    /\ LockExcludes

-----------------------------------------------------------------------------
(* Seconds.                                                                *)

\* Whole seconds: how they round a time down.
LEMMA SecsRoundsDown ==
    ASSUME NEW t \in Nat
    PROVE  /\ Secs(t) \in Nat
           /\ Second * Secs(t) <= t /\ t < Second * Secs(t) + Second
  BY DEF Secs

\* A later time is not in an earlier second.
LEMMA SecsGrows ==
    ASSUME NEW s \in Nat, NEW t \in Nat, s <= t
    PROVE  Secs(s) <= Secs(t)
  <1> DEFINE a == Secs(s)
             b == Secs(t)
  <1>1. a \in Nat /\ b \in Nat /\ Second * a <= s /\ t < Second * b + Second
    BY SecsRoundsDown
  <1> HIDE DEF a, b
  <1>2. SUFFICES ASSUME b < a PROVE FALSE
    BY <1>1 DEF a, b
  <1>3. a - b - 1 \in Nat
    BY <1>1, <1>2
  <1>4. Second * (a - b - 1) \in Nat
    BY <1>3
  <1>5. Second * (a - b - 1) = Second * a - Second * b - Second
    BY <1>1
  <1>6. Second * a \in Nat /\ Second * b \in Nat
    BY <1>1
  <1>7. QED
    BY <1>1, <1>4, <1>5, <1>6

-----------------------------------------------------------------------------
(* How the records of publishes change.                                    *)

\* A step changes neither what is published nor, once it is queued, its place; and
\* what is done stays as it is.
Moves ==
    /\ pub' \in [Publishers -> Publish]
    /\ \A q \in Publishers :
        /\ pub'[q].function = pub[q].function /\ pub'[q].hash = pub[q].hash
        /\ pub'[q].egress_allow = pub[q].egress_allow
        /\ pub[q].pc # "idle" =>
            /\ pub'[q].pc # "idle" /\ pub'[q].queued_at = pub[q].queued_at
            /\ pub'[q].after = pub[q].after
        /\ pub[q].pc = "done" => pub'[q] = pub[q]

Others(p) == \A q \in Publishers : q # p => pub'[q] = pub[q]

\* The record of p becomes x.
LEMMA BecomesMoves ==
    ASSUME PublishTypeOK, NEW p \in Publishers, NEW x \in Publish,
           pub' = [pub EXCEPT ![p] = x], pub[p].pc # "done", x.pc # "idle",
           x.function = pub[p].function, x.hash = pub[p].hash,
           x.egress_allow = pub[p].egress_allow,
           pub[p].pc # "idle" => x.queued_at = pub[p].queued_at /\ x.after = pub[p].after
    PROVE  Moves /\ Others(p) /\ pub'[p] = x
  BY DEF PublishTypeOK, Moves, Others

\* PubGoTo: the next step of a publish.
LEMMA GoToMoves ==
    ASSUME PublishTypeOK, NEW p \in Publishers, NEW pc \in PubPC \ {"idle"},
           PubGoTo(p, pc), pub[p].pc # "done"
    PROVE  /\ Moves /\ Others(p)
           /\ pub'[p].pc = pc /\ pub'[p].result = pub[p].result
           /\ pub'[p].applied = pub[p].applied /\ pub'[p].queued_at = pub[p].queued_at
           /\ pub'[p].after = pub[p].after
  <1> DEFINE x == [pub[p] EXCEPT !.pc = pc]
  <1>1. pub[p] \in Publish /\ pc \in PubPC /\ pc # "idle" /\ pub' = [pub EXCEPT ![p] = x]
    BY DEF PublishTypeOK, PubGoTo
  <1>2. x \in Publish
    BY <1>1, Zenon DEF Publish
  <1>3. /\ x.pc = pc /\ x.function = pub[p].function /\ x.hash = pub[p].hash
        /\ x.egress_allow = pub[p].egress_allow /\ x.queued_at = pub[p].queued_at
        /\ x.applied = pub[p].applied /\ x.result = pub[p].result /\ x.after = pub[p].after
    BY <1>1, Zenon DEF Publish
  <1> HIDE DEF x
  <1>4. QED
    BY <1>1, <1>2, <1>3, BecomesMoves

\* PubAnswer: the answer of a publish.
LEMMA AnswerMoves ==
    ASSUME PublishTypeOK, NEW p \in Publishers, NEW result \in PubResults,
           PubAnswer(p, result), pub[p].pc # "done"
    PROVE  /\ Moves /\ Others(p)
           /\ pub'[p].pc = "done" /\ pub'[p].result = result
           /\ pub'[p].applied = pub[p].applied /\ pub'[p].queued_at = pub[p].queued_at
           /\ pub'[p].after = pub[p].after
  <1> DEFINE x == [pub[p] EXCEPT !.pc = "done", !.result = result]
  <1>1. pub[p] \in Publish /\ "done" \in PubPC /\ pub' = [pub EXCEPT ![p] = x]
    BY DEF PublishTypeOK, PubAnswer, PubPC
  <1>2. x \in Publish
    BY <1>1, Zenon DEF Publish
  <1>3. /\ x.pc = "done" /\ x.function = pub[p].function /\ x.hash = pub[p].hash
        /\ x.egress_allow = pub[p].egress_allow /\ x.queued_at = pub[p].queued_at
        /\ x.applied = pub[p].applied /\ x.result = result /\ x.after = pub[p].after
    BY <1>1, Zenon DEF Publish
  <1> HIDE DEF x
  <1>4. QED
    BY <1>1, <1>2, <1>3, BecomesMoves

\* PublishStart: a publish is queued, after those that are done.
LEMMA StartMoves ==
    ASSUME PublishTypeOK, NEW p \in Publishers, pub[p].pc = "idle", NEW t \in Nat,
           NEW after \in SUBSET Publishers,
           pub' = [pub EXCEPT ![p].pc = "acquire", ![p].queued_at = t, ![p].after = after]
    PROVE  /\ Moves /\ Others(p)
           /\ pub'[p].pc = "acquire" /\ pub'[p].queued_at = t /\ pub'[p].after = after
           /\ pub'[p].applied = pub[p].applied /\ pub'[p].result = pub[p].result
  <1> DEFINE x == [pub[p] EXCEPT !.pc = "acquire", !.queued_at = t, !.after = after]
  <1>1. pub[p] \in Publish /\ "acquire" \in PubPC /\ pub' = [pub EXCEPT ![p] = x]
    BY DEF PublishTypeOK, PubPC
  <1>2. x \in Publish
    BY <1>1, Zenon DEF Publish
  <1>3. /\ x.pc = "acquire" /\ x.queued_at = t /\ x.after = after
        /\ x.function = pub[p].function /\ x.hash = pub[p].hash
        /\ x.egress_allow = pub[p].egress_allow
        /\ x.applied = pub[p].applied /\ x.result = pub[p].result
    BY <1>1, Zenon DEF Publish
  <1> HIDE DEF x
  <1>4. QED
    BY <1>1, <1>2, <1>3, BecomesMoves

\* Upsert: a publish has put its row.
LEMMA AppliedMoves ==
    ASSUME PublishTypeOK, NEW p \in Publishers, pub[p].pc = "upsert",
           pub' = [pub EXCEPT ![p].pc = "release", ![p].applied = TRUE]
    PROVE  /\ Moves /\ Others(p)
           /\ pub'[p].pc = "release" /\ pub'[p].applied = TRUE
           /\ pub'[p].queued_at = pub[p].queued_at /\ pub'[p].after = pub[p].after
           /\ pub'[p].result = pub[p].result
  <1> DEFINE x == [pub[p] EXCEPT !.pc = "release", !.applied = TRUE]
  <1>1. pub[p] \in Publish /\ "release" \in PubPC /\ pub' = [pub EXCEPT ![p] = x]
    BY DEF PublishTypeOK, PubPC
  <1>2. x \in Publish
    BY <1>1, Zenon DEF Publish
  <1>3. /\ x.pc = "release" /\ x.applied = TRUE /\ x.queued_at = pub[p].queued_at
        /\ x.after = pub[p].after /\ x.function = pub[p].function /\ x.hash = pub[p].hash
        /\ x.egress_allow = pub[p].egress_allow /\ x.result = pub[p].result
    BY <1>1, Zenon DEF Publish
  <1> HIDE DEF x
  <1>4. QED
    BY <1>1, <1>2, <1>3, BecomesMoves

-----------------------------------------------------------------------------
(* The parts of the invariant under a step of one publish, or of a write   *)
(* it left behind.                                                         *)

\* Generations only grow.
CatalogGrows ==
    \A f \in Functions :
        catalog[f] # Absent =>
            catalog'[f] # Absent /\ catalog'[f].queued_at >= catalog[f].queued_at

\* A row that is put has its type, is that of its publish, and is no older than
\* the one it replaces.
LEMMA PutRowGrows ==
    ASSUME PublishInv, NEW p \in Publishers, Upserts(p), PutRow(p)
    PROVE  /\ catalog' \in [Functions -> CatalogRow \cup {Absent}]
           /\ CatalogGrows
           /\ catalog'[pub[p].function] # Absent
           /\ catalog'[pub[p].function].queued_at = pub[p].queued_at
           /\ \A f \in Functions : f # pub[p].function => catalog'[f] = catalog[f]
  <1> DEFINE g == pub[p].function
             row == [content_hash |-> pub[p].hash, queued_at |-> pub[p].queued_at,
                     egress_allow |-> pub[p].egress_allow]
  <1>1. /\ pub[p] \in Publish /\ catalog \in [Functions -> CatalogRow \cup {Absent}]
        /\ g \in Functions
    BY DEF PublishInv, PublishTypeOK, Publish
  <1>2. row \in CatalogRow /\ row.queued_at = pub[p].queued_at /\ row.queued_at \in Nat
    BY <1>1 DEF CatalogRow, Publish
  <1>3. catalog' = [catalog EXCEPT ![g] = row]
    BY DEF PutRow
  <1> HIDE DEF row
  <1>4. catalog[g] # Absent => catalog[g].queued_at <= row.queued_at
    BY <1>2 DEF Upserts
  <1>5. \A f \in Functions : catalog[f] # Absent => catalog[f].queued_at \in Nat
    BY <1>1 DEF CatalogRow
  <1>6. catalog'[g] = row /\ row # Absent /\ \A f \in Functions : f # g => catalog'[f] = catalog[f]
    BY <1>1, <1>2, <1>3
  <1>7. CatalogGrows
    BY <1>1, <1>2, <1>4, <1>5, <1>6 DEF CatalogGrows
  <1>8. QED
    BY <1>1, <1>2, <1>3, <1>6, <1>7

\* A catalog that is left alone grows, too.
LEMMA SameCatalogGrows ==
    ASSUME PublishInv, UNCHANGED catalog
    PROVE  CatalogGrows
  BY DEF PublishInv, PublishTypeOK, CatalogRow, CatalogGrows

\* What the other publishes know stays true while generations only grow.
LEMMA AnswersKept ==
    ASSUME PublishInv, NEW q \in Publishers, pub'[q] = pub[q], CatalogGrows,
           catalog' \in [Functions -> CatalogRow \cup {Absent}]
    PROVE  AnswerOK(q)'
  <1>1. pub[q] \in Publish /\ AnswerOK(q) /\ catalog \in [Functions -> CatalogRow \cup {Absent}]
    BY DEF PublishInv, PublishTypeOK
  <1>2. pub[q].function \in Functions /\ pub[q].queued_at \in Nat
    BY <1>1 DEF Publish
  <1>3. /\ catalog[pub[q].function] # Absent => catalog[pub[q].function].queued_at \in Nat
        /\ catalog'[pub[q].function] # Absent => catalog'[pub[q].function].queued_at \in Nat
    BY <1>1, <1>2 DEF CatalogRow
  <1>4. QED
    BY <1>1, <1>2, <1>3 DEF AnswerOK, CatalogGrows

\* What is true of the other publishes stays true while the bucket only grows.
LEMMA PublishesKept ==
    ASSUME PublishInv, NEW q \in Publishers, pub'[q] = pub[q], Moves,
           clock' \in Nat, clock <= clock', artifacts \subseteq artifacts'
    PROVE  PublishOK(q)'
  <1>1. /\ pub[q] \in Publish /\ PublishOK(q) /\ clock \in Nat
        /\ pub[q].after \subseteq Publishers /\ pub[q].queued_at \in Nat
    BY DEF PublishInv, PublishTypeOK, Publish
  <1>2. QED
    BY <1>1 DEF PublishOK, Moves

\* Rows keep the publish they have, or get the one that puts them.
LEMMA RowsKept ==
    ASSUME PublishInv, Moves,
           \/ UNCHANGED catalog
           \/ \E p \in Publishers : pub[p].pc # "idle" /\ Upserts(p) /\ PutRow(p)
    PROVE  \A f \in Functions : RowOK(f)'
  <1>1. CASE UNCHANGED catalog
    BY <1>1 DEF PublishInv, RowOK, Moves
  <1>2. ASSUME NEW p \in Publishers, pub[p].pc # "idle", Upserts(p), PutRow(p),
               NEW f \in Functions
        PROVE  RowOK(f)'
    <2>1. CASE f = pub[p].function
      <3>1. catalog'[f].queued_at = pub[p].queued_at
        BY <1>2, <2>1, PutRowGrows
      <3>2. /\ pub'[p].function = f /\ pub'[p].pc # "idle"
            /\ pub'[p].queued_at = catalog'[f].queued_at
        BY <1>2, <2>1, <3>1 DEF Moves
      <3>3. QED
        BY <3>2 DEF RowOK
    <2>2. CASE f # pub[p].function
      <3>1. catalog'[f] = catalog[f] /\ RowOK(f)
        BY <1>2, <2>2, PutRowGrows DEF PublishInv
      <3>2. QED
        BY <3>1 DEF RowOK, Moves
    <2>3. QED
      BY <2>1, <2>2
  <1>3. QED
    BY <1>1, <1>2

-----------------------------------------------------------------------------
(* The lock.                                                               *)

Working == {"put", "upsert"}

\* A publish that is live after a step was live before it, or has begun to work;
\* and what is republished does not depend on the step.
LEMMA LiveShrinks ==
    ASSUME PublishInv, Moves, clock' \in Nat, clock <= clock', NEW f \in Functions
    PROVE  /\ \A q \in Live(f)' :
                /\ q \in Publishers /\ pub[q].function = f /\ pub'[q].pc \in Working
                /\ pub[q].pc \in Working => q \in Live(f)
           /\ Republished(f)' <=> Republished(f)
  <1>1. Republished(f)' <=> Republished(f)
    BY DEF Republished, Moves
  <1>2. ASSUME NEW q \in Live(f)'
        PROVE  /\ q \in Publishers /\ pub[q].function = f /\ pub'[q].pc \in Working
               /\ pub[q].pc \in Working => q \in Live(f)
    <2>1. /\ q \in Publishers /\ pub'[q].function = f /\ pub'[q].pc \in Working
          /\ Secs(clock') < Secs(pub'[q].queued_at) + TTL
      BY <1>2 DEF Live, Working
    <2>2. pub[q].function = f
      BY <2>1 DEF Moves
    <2>3. ASSUME pub[q].pc \in Working PROVE q \in Live(f)
      <3>1. pub'[q].queued_at = pub[q].queued_at /\ pub[q].queued_at \in Nat /\ clock \in Nat
        BY <2>1, <2>3 DEF Moves, Working, PublishInv, PublishTypeOK, Publish
      <3>2. /\ Secs(clock) <= Secs(clock') /\ Secs(clock) \in Nat /\ Secs(clock') \in Nat
            /\ Secs(pub[q].queued_at) \in Nat
        BY <3>1, SecsGrows, SecsRoundsDown
      <3>3. Secs(clock) < Secs(pub[q].queued_at) + TTL
        BY <2>1, <3>1, <3>2
      <3>4. QED
        BY <2>1, <2>2, <2>3, <3>3 DEF Live, Working
    <2>4. QED
      BY <2>1, <2>2, <2>3
  <1>3. QED
    BY <1>1, <1>2

\* The lock row of a live publish: it has not expired.
LEMMA LiveRow ==
    ASSUME PublishInv, NEW f \in Functions, ~Republished(f), NEW q \in Live(f)
    PROVE  /\ holder[f] = q /\ lock[f] # Absent /\ lock[f].content_hash = pub[q].hash
           /\ lock[f].expires_at \in Nat /\ Secs(clock) \in Nat
           /\ Secs(clock) < lock[f].expires_at
  <1>1. q \in Publishers /\ Secs(clock) < Secs(pub[q].queued_at) + TTL
    BY DEF Live
  <1>2. holder[f] = q /\ HolderOK(f)
    BY DEF PublishInv, LockExcludes
  <1>3. /\ lock[f] # Absent /\ lock[f].content_hash = pub[q].hash
        /\ lock[f].expires_at = Secs(pub[q].queued_at) + TTL
    BY <1>1, <1>2 DEF HolderOK
  <1>4. lock[f].expires_at \in Nat /\ clock \in Nat
    BY <1>3 DEF PublishInv, PublishTypeOK, LockRow
  <1>5. QED
    BY <1>1, <1>2, <1>3, <1>4, SecsRoundsDown

LockPart ==
    /\ lock \in [Functions -> LockRow \cup {Absent}]
    /\ holder \in [Functions -> Publishers \cup {Absent}]
    /\ \A f \in Functions : HolderOK(f)
    /\ LockExcludes

\* The lock table is left alone and nobody begins to work.
LEMMA LockKept ==
    ASSUME PublishInv, Moves, clock' \in Nat, clock <= clock', UNCHANGED <<lock, holder>>,
           \A q \in Publishers : pub'[q].pc \in Working => pub[q].pc \in Working
    PROVE  LockPart'
  <1>1. \A f \in Functions : HolderOK(f)'
    BY DEF PublishInv, PublishTypeOK, HolderOK, Moves
  <1>2. LockExcludes'
    <2> SUFFICES ASSUME NEW f \in Functions, ~Republished(f)', NEW q \in Live(f)'
                 PROVE  holder'[f] = q
      BY DEF LockExcludes
    <2>1. ~Republished(f) /\ q \in Live(f)
      BY LiveShrinks
    <2>2. QED
      BY <2>1, LiveRow
  <1>3. QED
    BY <1>1, <1>2 DEF LockPart, PublishInv, PublishTypeOK

\* A lock is taken: the row that was there has expired, so its holder is not live.
LEMMA LockTaken ==
    ASSUME PublishInv, Moves, UNCHANGED clock, NEW p \in Publishers, pub[p].pc # "idle",
           Acquires(p), PutLock(p),
           \A q \in Publishers : q # p /\ pub'[q].pc \in Working => pub[q].pc \in Working
    PROVE  LockPart'
  <1> DEFINE g == pub[p].function
             row == [content_hash |-> pub[p].hash,
                     expires_at |-> Secs(pub[p].queued_at) + TTL]
  <1>1. /\ pub[p] \in Publish /\ g \in Functions /\ pub[p].queued_at \in Nat /\ clock \in Nat
        /\ pub[p].queued_at <= clock
        /\ lock \in [Functions -> LockRow \cup {Absent}]
        /\ holder \in [Functions -> Publishers \cup {Absent}]
    BY DEF PublishInv, PublishTypeOK, Publish, PublishOK
  <1>2. /\ Secs(pub[p].queued_at) \in Nat /\ Secs(clock) \in Nat
        /\ Secs(pub[p].queued_at) <= Secs(clock)
    BY <1>1, SecsGrows, SecsRoundsDown
  <1>3. /\ row \in LockRow /\ row.content_hash = pub[p].hash
        /\ row.expires_at = Secs(pub[p].queued_at) + TTL
    BY <1>1, <1>2 DEF LockRow, Publish
  <1>4. lock' = [lock EXCEPT ![g] = row] /\ holder' = [holder EXCEPT ![g] = p]
    BY DEF PutLock
  <1> HIDE DEF row
  <1>5. /\ lock' \in [Functions -> LockRow \cup {Absent}]
        /\ holder' \in [Functions -> Publishers \cup {Absent}]
        /\ lock'[g] = row /\ row # Absent /\ holder'[g] = p
        /\ \A f \in Functions : f # g => lock'[f] = lock[f] /\ holder'[f] = holder[f]
    BY <1>1, <1>3, <1>4
  <1>6. ASSUME NEW f \in Functions PROVE HolderOK(f)'
    <2>1. CASE f = g
      BY <1>3, <1>5, <2>1 DEF HolderOK, Moves
    <2>2. CASE f # g
      BY <1>1, <1>5, <2>2 DEF HolderOK, Moves, PublishInv
    <2>3. QED
      BY <2>1, <2>2
  <1>7. LockExcludes'
    <2> SUFFICES ASSUME NEW f \in Functions, ~Republished(f)', NEW q \in Live(f)'
                 PROVE  holder'[f] = q
      BY DEF LockExcludes
    <2>1. /\ ~Republished(f) /\ q \in Publishers /\ pub[q].function = f
          /\ q # p => q \in Live(f)
      BY <1>1, LiveShrinks
    <2>2. CASE q = p
      BY <1>5, <2>1, <2>2
    <2>3. CASE q # p /\ f # g
      BY <1>5, <2>1, <2>3, LiveRow
    <2>4. CASE q # p /\ f = g
      <3>1. /\ lock[f] # Absent /\ lock[f].expires_at \in Nat
            /\ Secs(clock) < lock[f].expires_at
        BY <2>1, <2>4, LiveRow
      <3>2. lock[f].expires_at <= Secs(pub[p].queued_at)
        BY <2>4, <3>1 DEF Acquires
      <3>3. QED
        BY <1>2, <3>1, <3>2
    <2>5. QED
      BY <2>2, <2>3, <2>4
  <1>8. QED
    BY <1>5, <1>6, <1>7 DEF LockPart

\* A lock row is deleted: it is not that of a live publish, by its hash or its age.
LEMMA LockDeleted ==
    ASSUME PublishInv, Moves, UNCHANGED clock, NEW g \in Functions,
           lock' = [lock EXCEPT ![g] = Absent], holder' = [holder EXCEPT ![g] = Absent],
           ~Republished(g) => Live(g)' = {},
           \A q \in Publishers : pub'[q].pc \in Working => pub[q].pc \in Working
    PROVE  LockPart'
  <1>1. /\ lock \in [Functions -> LockRow \cup {Absent}]
        /\ holder \in [Functions -> Publishers \cup {Absent}] /\ clock \in Nat
    BY DEF PublishInv, PublishTypeOK
  <1>2. /\ lock' \in [Functions -> LockRow \cup {Absent}]
        /\ holder' \in [Functions -> Publishers \cup {Absent}]
        /\ lock'[g] = Absent /\ holder'[g] = Absent
        /\ \A f \in Functions : f # g => lock'[f] = lock[f] /\ holder'[f] = holder[f]
    BY <1>1
  <1>3. \A f \in Functions : HolderOK(f)'
    BY <1>1, <1>2 DEF HolderOK, Moves, PublishInv
  <1>4. LockExcludes'
    <2> SUFFICES ASSUME NEW f \in Functions, ~Republished(f)', NEW q \in Live(f)'
                 PROVE  holder'[f] = q
      BY DEF LockExcludes
    <2>1. ~Republished(f) /\ q \in Live(f)
      BY <1>1, LiveShrinks
    <2>2. f # g
      BY <2>1
    <2>3. QED
      BY <1>2, <2>1, <2>2, LiveRow
  <1>5. QED
    BY <1>2, <1>3, <1>4 DEF LockPart

\* A release finds its own hash: of publishes of different modules only the
\* releasing one can have it, and that one no longer works.
LEMMA LockReleased ==
    ASSUME PublishInv, Moves, UNCHANGED clock, NEW p \in Publishers,
           Releases(p), DeleteLock(p), pub'[p].pc \notin Working,
           \A q \in Publishers : pub'[q].pc \in Working => pub[q].pc \in Working
    PROVE  LockPart'
  <1>0. PICK g \in Functions : g = pub[p].function
    BY DEF PublishInv, PublishTypeOK, Publish
  <1>1. clock \in Nat
    BY DEF PublishInv, PublishTypeOK
  <1>2. ASSUME ~Republished(g), NEW q \in Live(g)' PROVE FALSE
    <2>1. q \in Publishers /\ pub[q].function = g /\ pub'[q].pc \in Working /\ q \in Live(g)
      BY <1>1, <1>2, LiveShrinks
    <2>2. lock[g].content_hash = pub[q].hash
      BY <1>1, <1>2, <2>1, LiveRow
    <2>3. pub[p].hash = pub[q].hash /\ p # q
      BY <1>0, <2>1, <2>2 DEF Releases
    <2>4. QED
      BY <1>0, <1>2, <2>1, <2>3 DEF Republished
  <1>3. ~Republished(g) => Live(g)' = {}
    BY <1>2
  <1>4. lock' = [lock EXCEPT ![g] = Absent] /\ holder' = [holder EXCEPT ![g] = Absent]
    BY <1>0 DEF DeleteLock
  <1>5. QED
    BY <1>1, <1>3, <1>4, LockDeleted

-----------------------------------------------------------------------------
(* The actions.                                                            *)

Ops == {"acquire", "upsert", "release"}

\* What a step of p, or of a write p left behind, may do to the tables.
LockWrite(p) ==
    \/ /\ UNCHANGED <<lock, holder>>
       /\ pub'[p].pc \in Working => pub[p].pc \in Working
    \/ Acquires(p) /\ PutLock(p) /\ pub[p].pc # "idle"
    \/ Releases(p) /\ DeleteLock(p) /\ pub'[p].pc \notin Working

CatalogWrite(p) ==
    \/ UNCHANGED catalog
    \/ Upserts(p) /\ PutRow(p) /\ pub[p].pc # "idle"

\* Such a step keeps the invariant when it keeps what the invariant says of p.
LEMMA StepKeeps ==
    ASSUME PublishInv, NEW p \in Publishers, Moves, Others(p), UNCHANGED clock,
           artifacts \subseteq artifacts', artifacts' \subseteq Wasms,
           late' \subseteq late \cup {<<op, p>> : op \in Ops},
           LockWrite(p), CatalogWrite(p),
           PublishOK(p)', AnswerOK(p)', \A op \in Ops : LateOK(op, p)'
    PROVE  PublishInv'
  <1>1. clock' \in 0..MaxTime /\ clock' \in Nat /\ clock <= clock'
    BY DEF PublishInv, PublishTypeOK
  <1>2. catalog' \in [Functions -> CatalogRow \cup {Absent}] /\ CatalogGrows
    BY PutRowGrows, SameCatalogGrows DEF CatalogWrite, PublishInv, PublishTypeOK
  <1>3. LockPart'
    <2>1. ASSUME NEW q \in Publishers, q # p, pub'[q].pc \in Working PROVE pub[q].pc \in Working
      BY <2>1 DEF Others
    <2>2. CASE /\ UNCHANGED <<lock, holder>>
               /\ pub'[p].pc \in Working => pub[p].pc \in Working
      BY <1>1, <2>1, <2>2, LockKept
    <2>3. CASE Acquires(p) /\ PutLock(p) /\ pub[p].pc # "idle"
      BY <2>1, <2>3, LockTaken
    <2>4. CASE Releases(p) /\ DeleteLock(p) /\ pub'[p].pc \notin Working
      BY <2>1, <2>4, LockReleased
    <2>5. QED
      BY <2>2, <2>3, <2>4 DEF LockWrite
  <1>4. PublishTypeOK'
    <2>1. late' \subseteq Ops \X Publishers
      BY DEF PublishInv, PublishTypeOK, Ops
    <2>2. QED
      BY <1>1, <1>2, <1>3, <2>1 DEF PublishInv, PublishTypeOK, Moves, LockPart, Ops
  <1>5. ASSUME NEW q \in Publishers PROVE PublishOK(q)' /\ AnswerOK(q)'
    <2>1. CASE q = p
      BY <2>1
    <2>2. CASE q # p
      BY <1>1, <1>2, <2>2, PublishesKept, AnswersKept DEF Others
    <2>3. QED
      BY <2>1, <2>2
  <1>6. ASSUME NEW op \in Ops, NEW q \in Publishers PROVE LateOK(op, q)'
    <2>1. CASE q = p
      BY <2>1
    <2>2. CASE q # p
      <3>1. <<op, q>> \in late' => <<op, q>> \in late
        BY <2>2
      <3>2. LateOK(op, q) /\ pub'[q] = pub[q]
        BY <2>2 DEF PublishInv, Others, Ops
      <3>3. QED
        BY <3>1, <3>2 DEF LateOK
    <2>3. QED
      BY <2>1, <2>2
  <1>7. \A f \in Functions : RowOK(f)'
    BY RowsKept DEF CatalogWrite
  <1>8. QED
    BY <1>3, <1>4, <1>5, <1>6, <1>7 DEF PublishInv, LockPart, Ops

\* What holds of a publish before its step.
LEMMA PublishFacts ==
    ASSUME PublishInv, NEW p \in Publishers
    PROVE  /\ PublishTypeOK /\ pub[p] \in Publish /\ PublishOK(p) /\ AnswerOK(p)
           /\ \A op \in Ops : LateOK(op, p)
           /\ pub[p].function \in Functions /\ pub[p].hash \in Wasms
           /\ pub[p].queued_at \in Nat /\ clock \in Nat /\ artifacts \subseteq Wasms
           /\ pub[p].after \subseteq Publishers
  BY DEF PublishInv, PublishTypeOK, Publish, Ops

\* A started publish that moves on, or is answered, without a write of its own
\* beyond the bucket, a lock or a late write.
LEMMA MoveKeeps ==
    ASSUME PublishInv, NEW p \in Publishers, pub[p].pc # "idle", Moves, Others(p),
           UNCHANGED <<clock, catalog>>,
           artifacts \subseteq artifacts', artifacts' \subseteq Wasms,
           late' \subseteq late \cup {<<op, p>> : op \in Ops},
           \A op \in Ops : <<op, p>> \in late' \ late =>
               /\ op = "upsert" => pub[p].hash \in artifacts'
               /\ op = "release" => pub'[p].pc \notin {"acquire", "put", "upsert"},
           LockWrite(p), pub'[p].applied = pub[p].applied,
           pub'[p].pc = "upsert" => pub[p].hash \in artifacts',
           pub[p].pc \notin {"acquire", "put", "upsert"} =>
               pub'[p].pc \notin {"acquire", "put", "upsert"},
           pub'[p].pc = "release" => pub[p].pc = "release",
           \/ pub'[p].result = pub[p].result
           \/ pub'[p].result \notin {"Ready", "Superseded"}
           \/ pub'[p].result = "Ready" /\ pub[p].applied
           \/ pub'[p].result = "Superseded" /\ pub[p].pc = "release" /\ ~pub[p].applied
    PROVE  PublishInv'
  <1>1. /\ PublishTypeOK /\ pub[p] \in Publish /\ PublishOK(p) /\ AnswerOK(p)
        /\ \A op \in Ops : LateOK(op, p)
        /\ pub[p].function \in Functions /\ pub[p].queued_at \in Nat /\ clock \in Nat
        /\ pub[p].after \subseteq Publishers
    BY PublishFacts
  <1>2. /\ pub'[p].function = pub[p].function /\ pub'[p].hash = pub[p].hash
        /\ pub'[p].queued_at = pub[p].queued_at /\ pub'[p].after = pub[p].after
        /\ pub'[p].pc # "idle"
    BY DEF Moves
  <1>3. PublishOK(p)'
    BY <1>1, <1>2 DEF PublishOK, Moves
  <1>4. AnswerOK(p)'
    BY <1>1, <1>2 DEF AnswerOK
  <1>5. ASSUME NEW op \in Ops PROVE LateOK(op, p)'
    <2>1. LateOK(op, p)
      BY <1>1
    <2>2. QED
      BY <1>2, <2>1 DEF LateOK
  <1>6. QED
    BY <1>3, <1>4, <1>5, StepKeeps DEF CatalogWrite

\* A step that leaves all publishes alone.
LEMMA StillMoves ==
    ASSUME PublishTypeOK, UNCHANGED pub
    PROVE  Moves /\ \A p \in Publishers : Others(p)
  BY DEF PublishTypeOK, Moves, Others

\* PublishStart: the clock read may be Skew behind, so the publishes done by now
\* are at most that much later.
LEMMA PublishStartKeeps ==
    ASSUME PublishInv, NEW p \in Publishers, PublishStart(p)
    PROVE  PublishInv'
  <1>1. /\ PublishTypeOK /\ pub[p] \in Publish /\ PublishOK(p) /\ AnswerOK(p)
        /\ pub[p].function \in Functions /\ pub[p].queued_at \in Nat /\ clock \in Nat
        /\ artifacts \subseteq Wasms /\ pub[p].after \subseteq Publishers
        /\ \A op \in Ops : LateOK(op, p)
    BY PublishFacts
  <1>2. /\ pub[p].pc = "idle"
        /\ UNCHANGED <<clock, lock, holder, artifacts, catalog, late>>
    BY DEF PublishStart, NoWrite, Bucket
  <1>3. ~pub[p].applied /\ pub[p].result = "None" /\ \A op \in Ops : <<op, p>> \notin late
    BY <1>1, <1>2 DEF AnswerOK, LateOK
  <1>4. CASE Refuse(p)
    <2>1. "Refused" \in PubResults
      BY DEF PubResults
    <2>2. /\ Moves /\ Others(p) /\ pub'[p].pc = "done" /\ pub'[p].result = "Refused"
          /\ pub'[p].applied = pub[p].applied /\ pub'[p].queued_at = pub[p].queued_at
          /\ pub'[p].after = pub[p].after
      BY <1>1, <1>2, <1>4, <2>1, AnswerMoves DEF Refuse
    <2>3. PublishOK(p)'
      BY <1>1, <1>2, <2>2 DEF PublishOK, Moves
    <2>4. AnswerOK(p)' /\ \A op \in Ops : LateOK(op, p)'
      BY <1>2, <1>3, <2>2 DEF AnswerOK, LateOK
    <2>5. QED
      BY <1>1, <1>2, <2>2, <2>3, <2>4, StepKeeps DEF LockWrite, CatalogWrite, Working
  <1>5. ASSUME NEW t \in Now,
               pub' = [pub EXCEPT ![p].pc = "acquire", ![p].queued_at = t,
                        ![p].after = {q \in Publishers :
                                       /\ pub[q].pc = "done"
                                       /\ pub[q].function = pub[p].function}]
        PROVE  PublishInv'
    <2> DEFINE after == {q \in Publishers : /\ pub[q].pc = "done"
                                            /\ pub[q].function = pub[p].function}
    <2>1. t \in Nat /\ t <= clock /\ clock <= t + Skew
      BY <1>1 DEF Now
    <2>2. after \in SUBSET Publishers /\ \A q \in after : pub[q].pc = "done"
      OBVIOUS
    <2>3. pub' = [pub EXCEPT ![p].pc = "acquire", ![p].queued_at = t, ![p].after = after]
      BY <1>5
    <2> HIDE DEF after
    <2>4. /\ Moves /\ Others(p)
          /\ pub'[p].pc = "acquire" /\ pub'[p].queued_at = t /\ pub'[p].after = after
          /\ pub'[p].applied = pub[p].applied /\ pub'[p].result = pub[p].result
      BY <1>1, <1>2, <2>1, <2>2, <2>3, StartMoves
    <2>5. PublishOK(p)'
      <3>1. ASSUME NEW q \in after
            PROVE  pub'[q].pc = "done" /\ pub'[q].queued_at <= t + Skew
        <4>1. q \in Publishers /\ pub[q].pc = "done" /\ pub'[q] = pub[q]
          BY <2>2, <2>4, <3>1 DEF Moves
        <4>2. pub[q].queued_at \in Nat /\ pub[q].queued_at <= clock
          BY <4>1, PublishFacts DEF PublishOK
        <4>3. QED
          BY <1>1, <2>1, <4>1, <4>2
      <3>2. QED
        BY <1>2, <2>1, <2>4, <3>1 DEF PublishOK
    <2>6. AnswerOK(p)' /\ \A op \in Ops : LateOK(op, p)'
      BY <1>2, <1>3, <2>4 DEF AnswerOK, LateOK
    <2>7. QED
      BY <1>1, <1>2, <2>4, <2>5, <2>6, StepKeeps DEF LockWrite, CatalogWrite, Working
  <1>6. QED
    BY <1>4, <1>5 DEF PublishStart

\* Acquire: taken, in conflict, or not known.
LEMMA AcquireKeeps ==
    ASSUME PublishInv, NEW p \in Publishers, Acquire(p)
    PROVE  PublishInv'
  <1>1. /\ PublishTypeOK /\ pub[p].pc = "acquire" /\ UNCHANGED <<clock, artifacts, catalog>>
        /\ artifacts \subseteq Wasms
    BY PublishFacts DEF Acquire, Bucket, NoWrite, LeaveLate
  <1>2. "put" \in PubPC \ {"idle"} /\ {"Conflict", "Storage"} \subseteq PubResults
    BY DEF PubPC, PubResults
  <1>3. CASE Acquires(p) /\ PutLock(p) /\ PubGoTo(p, "put") /\ UNCHANGED late
    <2>1. /\ Moves /\ Others(p) /\ pub'[p].pc = "put" /\ pub'[p].result = pub[p].result
          /\ pub'[p].applied = pub[p].applied
      BY <1>1, <1>2, <1>3, GoToMoves
    <2>2. QED
      BY <1>1, <1>3, <2>1, MoveKeeps DEF LockWrite
  <1>4. CASE PubAnswer(p, "Conflict") /\ NoWrite /\ UNCHANGED late
    <2>1. /\ Moves /\ Others(p) /\ pub'[p].pc = "done" /\ pub'[p].result = "Conflict"
          /\ pub'[p].applied = pub[p].applied
      BY <1>1, <1>2, <1>4, AnswerMoves
    <2>2. QED
      BY <1>1, <1>4, <2>1, MoveKeeps DEF LockWrite, NoWrite, Working
  <1>5. CASE PubAnswer(p, "Storage") /\ LeaveLate("acquire", p)
    <2>1. /\ Moves /\ Others(p) /\ pub'[p].pc = "done" /\ pub'[p].result = "Storage"
          /\ pub'[p].applied = pub[p].applied
      BY <1>1, <1>2, <1>5, AnswerMoves
    <2>2. late' = late \cup {<<"acquire", p>>} /\ UNCHANGED <<lock, holder>>
      BY <1>5 DEF LeaveLate, NoWrite
    <2>3. QED
      BY <1>1, <2>1, <2>2, MoveKeeps DEF LockWrite, Working, Ops
  <1>6. QED
    BY <1>3, <1>4, <1>5 DEF Acquire

\* PutArtifact: only a stored module goes on to the catalog.
LEMMA PutArtifactKeeps ==
    ASSUME PublishInv, NEW p \in Publishers, PutArtifact(p)
    PROVE  PublishInv'
  <1>1. /\ PublishTypeOK /\ pub[p].pc = "put"
        /\ UNCHANGED <<clock, lock, holder, catalog, late>>
        /\ artifacts \subseteq Wasms /\ pub[p].hash \in Wasms
    BY PublishFacts DEF PutArtifact, NoWrite
  <1>2. {"upsert", "cleanup"} \subseteq PubPC \ {"idle"}
    BY DEF PubPC
  <1>3. ASSUME NEW pc \in {"upsert", "cleanup"}, PubGoTo(p, pc),
               artifacts' \in {artifacts, artifacts \cup {pub[p].hash}},
               pc = "upsert" => artifacts' = artifacts \cup {pub[p].hash}
        PROVE  PublishInv'
    <2>1. /\ Moves /\ Others(p) /\ pub'[p].pc = pc /\ pub'[p].result = pub[p].result
          /\ pub'[p].applied = pub[p].applied
      BY <1>1, <1>2, <1>3, GoToMoves
    <2>2. QED
      BY <1>1, <1>3, <2>1, MoveKeeps DEF LockWrite, Working
  <1>4. QED
    BY <1>3 DEF PutArtifact

\* Upsert: the row is this publish's now, or belongs to a later one.
LEMMA UpsertKeeps ==
    ASSUME PublishInv, NEW p \in Publishers, Upsert(p)
    PROVE  PublishInv'
  <1>1. /\ PublishTypeOK /\ pub[p] \in Publish /\ PublishOK(p) /\ AnswerOK(p)
        /\ pub[p].function \in Functions /\ pub[p].queued_at \in Nat /\ clock \in Nat
        /\ artifacts \subseteq Wasms /\ pub[p].after \subseteq Publishers
        /\ \A op \in Ops : LateOK(op, p)
    BY PublishFacts
  <1>2. pub[p].pc = "upsert" /\ UNCHANGED <<clock, artifacts>> /\ pub[p].hash \in artifacts
    BY <1>1 DEF Upsert, Bucket, PublishOK
  <1>3. {"release", "cleanup"} \subseteq PubPC \ {"idle"}
    BY DEF PubPC
  <1>4. \A op \in Ops : <<op, p>> \in late => op # "release"
    BY <1>1, <1>2 DEF LateOK
  <1>5. CASE /\ Upserts(p) /\ PutRow(p)
             /\ pub' = [pub EXCEPT ![p].pc = "release", ![p].applied = TRUE]
             /\ UNCHANGED <<lock, holder, late>>
    <2>4. /\ Moves /\ Others(p)
          /\ pub'[p].pc = "release" /\ pub'[p].applied = TRUE
          /\ pub'[p].queued_at = pub[p].queued_at /\ pub'[p].after = pub[p].after
          /\ pub'[p].result = pub[p].result
      BY <1>1, <1>2, <1>5, AppliedMoves
    <2>5. PublishOK(p)' /\ \A op \in Ops : LateOK(op, p)'
      BY <1>1, <1>2, <1>4, <1>5, <2>4 DEF PublishOK, LateOK, Moves
    <2>6. AnswerOK(p)'
      <3>1. /\ catalog'[pub[p].function] # Absent
            /\ catalog'[pub[p].function].queued_at = pub[p].queued_at
        BY <1>5, PutRowGrows
      <3>2. pub[p].result # "Superseded"
        <4>1. ASSUME pub[p].result = "Superseded" PROVE FALSE
          <5>1. /\ catalog[pub[p].function] # Absent
                /\ catalog[pub[p].function].queued_at > pub[p].queued_at
            BY <1>1, <4>1 DEF AnswerOK
          <5>2. catalog[pub[p].function].queued_at <= pub[p].queued_at
            BY <1>5, <5>1 DEF Upserts
          <5>3. catalog[pub[p].function].queued_at \in Nat
            BY <1>1, <5>1 DEF PublishTypeOK, CatalogRow
          <5>4. QED
            BY <1>1, <5>1, <5>2, <5>3
        <4>2. QED
          BY <4>1
      <3>3. QED
        BY <1>1, <2>4, <3>1, <3>2 DEF AnswerOK, Moves
    <2>7. QED
      BY <1>1, <1>2, <1>5, <2>4, <2>5, <2>6, StepKeeps
         DEF LockWrite, CatalogWrite, Working
  <1>6. CASE ~Upserts(p) /\ PubGoTo(p, "release") /\ NoWrite /\ UNCHANGED late
    <2>1. /\ Moves /\ Others(p) /\ pub'[p].pc = "release" /\ pub'[p].result = pub[p].result
          /\ pub'[p].applied = pub[p].applied /\ pub'[p].queued_at = pub[p].queued_at
          /\ pub'[p].after = pub[p].after
      BY <1>1, <1>2, <1>3, <1>6, GoToMoves
    <2>2. /\ catalog[pub[p].function] # Absent
          /\ catalog[pub[p].function].queued_at > pub[p].queued_at
      <3>1. /\ catalog[pub[p].function] # Absent
            /\ ~(catalog[pub[p].function].queued_at <= pub[p].queued_at)
        BY <1>6 DEF Upserts
      <3>2. catalog[pub[p].function].queued_at \in Nat
        BY <1>1, <3>1 DEF PublishTypeOK, CatalogRow
      <3>3. QED
        BY <1>1, <3>1, <3>2
    <2>3. PublishOK(p)' /\ \A op \in Ops : LateOK(op, p)'
      BY <1>1, <1>2, <1>4, <1>6, <2>1 DEF PublishOK, LateOK, Moves
    <2>4. AnswerOK(p)'
      BY <1>1, <1>6, <2>1, <2>2 DEF AnswerOK, Moves, NoWrite
    <2>5. QED
      BY <1>1, <1>2, <1>6, <2>1, <2>3, <2>4, StepKeeps
         DEF LockWrite, CatalogWrite, Working, NoWrite
  <1>7. CASE PubGoTo(p, "cleanup") /\ LeaveLate("upsert", p)
    <2>1. /\ Moves /\ Others(p) /\ pub'[p].pc = "cleanup" /\ pub'[p].result = pub[p].result
          /\ pub'[p].applied = pub[p].applied
      BY <1>1, <1>2, <1>3, <1>7, GoToMoves
    <2>2. late' = late \cup {<<"upsert", p>>} /\ UNCHANGED <<lock, holder, catalog>>
      BY <1>7 DEF LeaveLate, NoWrite
    <2>3. QED
      BY <1>1, <1>2, <2>1, <2>2, MoveKeeps DEF LockWrite, Working, Ops
  <1>8. QED
    BY <1>5, <1>6, <1>7 DEF Upsert

\* A publish that is over, answered with what it knows: the lock row with its hash
\* is deleted, or the delete goes out without a reader.
LEMMA AnswerKeeps ==
    ASSUME PublishInv, NEW p \in Publishers, NEW result \in PubResults,
           pub[p].pc \in {"release", "cleanup"}, PubAnswer(p, result),
           \/ result = "Storage"
           \/ result = "Ready" /\ pub[p].applied
           \/ result = "Superseded" /\ pub[p].pc = "release" /\ ~pub[p].applied,
           UNCHANGED <<clock, artifacts>>,
           \/ /\ IF Releases(p) THEN DeleteLock(p) /\ UNCHANGED catalog ELSE NoWrite
              /\ UNCHANGED late
           \/ LeaveLate("release", p)
    PROVE  PublishInv'
  <1>1. PublishTypeOK /\ artifacts \subseteq Wasms
    BY PublishFacts
  <1>2. /\ Moves /\ Others(p) /\ pub'[p].pc = "done" /\ pub'[p].result = result
        /\ pub'[p].applied = pub[p].applied
    BY <1>1, AnswerMoves
  <1>3. /\ UNCHANGED catalog /\ LockWrite(p)
        /\ late' \in {late, late \cup {<<"release", p>>}}
    BY <1>2 DEF LeaveLate, NoWrite, LockWrite, Working
  <1>4. QED
    BY <1>1, <1>2, <1>3, MoveKeeps DEF Ops

\* Release: the answer says what the upsert found.
LEMMA ReleaseKeeps ==
    ASSUME PublishInv, NEW p \in Publishers, Release(p)
    PROVE  PublishInv'
  <1>1. pub[p].pc = "release" /\ UNCHANGED <<clock, artifacts>>
    BY DEF Release, Bucket
  <1>2. {"Ready", "Superseded", "Storage"} \subseteq PubResults
    BY DEF PubResults
  <1>3. CASE /\ PubAnswer(p, IF pub[p].applied THEN "Ready" ELSE "Superseded")
             /\ IF Releases(p) THEN DeleteLock(p) /\ UNCHANGED catalog ELSE NoWrite
             /\ UNCHANGED late
    <2>1. CASE pub[p].applied
      BY <1>1, <1>2, <1>3, <2>1, AnswerKeeps
    <2>2. CASE ~pub[p].applied
      BY <1>1, <1>2, <1>3, <2>2, AnswerKeeps
    <2>3. QED
      BY <2>1, <2>2
  <1>4. CASE PubAnswer(p, "Storage") /\ LeaveLate("release", p)
    BY <1>1, <1>2, <1>4, AnswerKeeps
  <1>5. QED
    BY <1>3, <1>4 DEF Release

\* Cleanup: an error promises nothing about the catalog.
LEMMA CleanupKeeps ==
    ASSUME PublishInv, NEW p \in Publishers, Cleanup(p)
    PROVE  PublishInv'
  BY AnswerKeeps DEF Cleanup, Bucket, PubResults

\* What is sent without a reader fits the step of its publish.
LEMMA LeaveLateFits ==
    ASSUME PublishInv, NEW p \in Publishers,
           pub[p].pc \in {"acquire", "upsert", "release", "cleanup"},
           LeaveLate(WriteOf(pub[p].pc), p), artifacts' = artifacts,
           pub'[p].pc \in {pub[p].pc, "gone"}
    PROVE  /\ UNCHANGED <<lock, holder, catalog>>
           /\ late' \subseteq late \cup {<<op, p>> : op \in Ops}
           /\ \A op \in Ops : <<op, p>> \in late' \ late =>
                /\ op = "upsert" => pub[p].hash \in artifacts'
                /\ op = "release" => pub'[p].pc \notin {"acquire", "put", "upsert"}
  <1>1. PublishOK(p)
    BY PublishFacts
  <1>2. UNCHANGED <<lock, holder, catalog>>
    BY DEF LeaveLate, NoWrite
  <1>3. CASE pub[p].pc = "acquire"
    BY <1>2, <1>3 DEF LeaveLate, WriteOf, Ops
  <1>4. CASE pub[p].pc = "upsert"
    <2>1. late' = late \cup {<<"upsert", p>>}
      BY <1>4 DEF LeaveLate, WriteOf
    <2>2. QED
      BY <1>1, <1>2, <1>4, <2>1 DEF PublishOK, Ops
  <1>5. CASE pub[p].pc \in {"release", "cleanup"}
    <2>1. late' = late \cup {<<"release", p>>}
      BY <1>5 DEF LeaveLate, WriteOf
    <2>2. QED
      BY <1>2, <1>5, <2>1 DEF Ops
  <1>6. QED
    BY <1>3, <1>4, <1>5

\* Resend: the same write may arrive twice.
LEMMA ResendKeeps ==
    ASSUME PublishInv, NEW p \in Publishers, Resend(p)
    PROVE  PublishInv'
  <1>1. /\ PublishTypeOK /\ artifacts \subseteq Wasms /\ PublishOK(p)
        /\ pub[p].pc \in {"acquire", "upsert", "release", "cleanup"}
        /\ LeaveLate(WriteOf(pub[p].pc), p) /\ UNCHANGED <<clock, artifacts, pub>>
    BY PublishFacts DEF Resend, Bucket
  <1>2. Moves /\ Others(p) /\ pub'[p] = pub[p]
    BY <1>1, StillMoves
  <1>3. /\ UNCHANGED <<lock, holder, catalog>>
        /\ late' \subseteq late \cup {<<op, p>> : op \in Ops}
        /\ \A op \in Ops : <<op, p>> \in late' \ late =>
             /\ op = "upsert" => pub[p].hash \in artifacts'
             /\ op = "release" => pub'[p].pc \notin {"acquire", "put", "upsert"}
    BY <1>1, <1>2, LeaveLateFits
  <1>4. QED
    BY <1>1, <1>2, <1>3, MoveKeeps DEF LockWrite, PublishOK

\* PublishDrop: whatever was under way may still happen.
LEMMA PublishDropKeeps ==
    ASSUME PublishInv, NEW p \in Publishers, PublishDrop(p)
    PROVE  PublishInv'
  <1>1. /\ PublishTypeOK /\ artifacts \subseteq Wasms /\ pub[p].hash \in Wasms
        /\ pub[p].pc \notin {"idle", "done"} /\ PubGoTo(p, "gone") /\ UNCHANGED clock
        /\ "gone" \in PubPC \ {"idle"}
    BY PublishFacts DEF PublishDrop, PubPC
  <1>2. /\ Moves /\ Others(p) /\ pub'[p].pc = "gone" /\ pub'[p].result = pub[p].result
        /\ pub'[p].applied = pub[p].applied
    BY <1>1, GoToMoves
  <1>3. CASE /\ UNCHANGED <<lock, holder, catalog, late>>
             /\ artifacts' \in {artifacts, artifacts \cup {pub[p].hash}}
    BY <1>1, <1>2, <1>3, MoveKeeps DEF LockWrite, Working
  <1>4. CASE /\ pub[p].pc \in {"acquire", "upsert", "release", "cleanup"}
             /\ LeaveLate(WriteOf(pub[p].pc), p)
             /\ UNCHANGED artifacts
    <2>1. /\ UNCHANGED <<lock, holder, catalog>>
          /\ late' \subseteq late \cup {<<op, p>> : op \in Ops}
          /\ \A op \in Ops : <<op, p>> \in late' \ late =>
               /\ op = "upsert" => pub[p].hash \in artifacts'
               /\ op = "release" => pub'[p].pc \notin {"acquire", "put", "upsert"}
      BY <1>2, <1>4, LeaveLateFits
    <2>2. QED
      BY <1>1, <1>2, <1>4, <2>1, MoveKeeps DEF LockWrite, Working
  <1>5. QED
    BY <1>3, <1>4 DEF PublishDrop, NoWrite

\* LateWrite: its condition protects the tables as it would have in time.
LEMMA LateWriteKeeps ==
    ASSUME PublishInv, NEW op \in Ops, NEW p \in Publishers, LateWrite(op, p)
    PROVE  PublishInv'
  <1>1. /\ PublishTypeOK /\ artifacts \subseteq Wasms /\ PublishOK(p) /\ AnswerOK(p)
        /\ \A o \in Ops : LateOK(o, p)
        /\ <<op, p>> \in late /\ late' = late \ {<<op, p>>}
        /\ UNCHANGED <<clock, artifacts, pub>>
    BY PublishFacts DEF LateWrite, Bucket
  <1>2. Moves /\ Others(p) /\ pub'[p] = pub[p]
    BY <1>1, StillMoves
  <1>3. pub[p].pc # "idle" /\ (op = "release" => pub[p].pc \notin Working)
    BY <1>1 DEF LateOK, Working
  <1>4. LockWrite(p) /\ CatalogWrite(p)
    BY <1>2, <1>3 DEF LateWrite, LockWrite, CatalogWrite, NoWrite
  <1>5. catalog' \in [Functions -> CatalogRow \cup {Absent}] /\ CatalogGrows
    BY <1>1, <1>4, PutRowGrows, SameCatalogGrows DEF CatalogWrite, PublishTypeOK
  <1>6. AnswerOK(p)'
    BY <1>2, <1>5, AnswersKept
  <1>7. PublishOK(p)' /\ \A o \in Ops : LateOK(o, p)'
    BY <1>1, <1>2 DEF PublishOK, LateOK
  <1>8. QED
    BY <1>1, <1>2, <1>4, <1>6, <1>7, StepKeeps

\* What neither the clock nor the reaper touches.
LEMMA RestKept ==
    ASSUME PublishInv, UNCHANGED <<artifacts, catalog, pub, late>>,
           clock' \in 0..MaxTime, clock <= clock', LockPart'
    PROVE  PublishInv'
  <1>1. Moves /\ CatalogGrows /\ clock' \in Nat
    BY StillMoves, SameCatalogGrows DEF PublishInv
  <1>2. PublishTypeOK'
    BY DEF PublishInv, PublishTypeOK, LockPart
  <1>3. ASSUME NEW q \in Publishers PROVE PublishOK(q)' /\ AnswerOK(q)'
    BY <1>1, <1>2, PublishesKept, AnswersKept DEF PublishTypeOK
  <1>4. ASSUME NEW op \in Ops, NEW q \in Publishers PROVE LateOK(op, q)'
    BY DEF PublishInv, LateOK, Ops
  <1>5. \A f \in Functions : RowOK(f)'
    BY <1>1, RowsKept
  <1>6. QED
    BY <1>2, <1>3, <1>4, <1>5 DEF PublishInv, LockPart, Ops

\* ReapLock: a row that has expired is not that of a live publish.
LEMMA ReapLockKeeps ==
    ASSUME PublishInv, NEW f \in Functions, ReapLock(f)
    PROVE  PublishInv'
  <1>1. /\ lock[f].expires_at <= Secs(clock)
        /\ lock' = [lock EXCEPT ![f] = Absent] /\ holder' = [holder EXCEPT ![f] = Absent]
        /\ UNCHANGED <<clock, artifacts, catalog, pub, late>>
        /\ clock \in 0..MaxTime
    BY DEF ReapLock, Bucket, PublishInv, PublishTypeOK
  <1>2. Moves
    BY <1>1, StillMoves DEF PublishInv
  <1>3. ASSUME ~Republished(f), NEW q \in Live(f)' PROVE FALSE
    <2>1. q \in Live(f)
      BY <1>1, <1>3 DEF Live
    <2>2. QED
      BY <1>1, <1>3, <2>1, LiveRow
  <1>4. LockPart'
    BY <1>1, <1>2, <1>3, LockDeleted
  <1>5. QED
    BY <1>1, <1>4, RestKept

\* Tick: time takes locks, it never gives one.
LEMMA TickKeeps ==
    ASSUME PublishInv, Tick
    PROVE  PublishInv'
  <1>1. /\ clock' = clock + 1 /\ clock \in Nat /\ clock' \in 0..MaxTime
        /\ UNCHANGED <<lock, holder, artifacts, catalog, pub, late>>
    BY DEF Tick, NoWrite, PublishInv, PublishTypeOK
  <1>2. Moves
    BY <1>1, StillMoves DEF PublishInv
  <1>3. LockPart'
    BY <1>1, <1>2, LockKept
  <1>4. QED
    BY <1>1, <1>3, RestKept

-----------------------------------------------------------------------------
(* The theorems.                                                           *)

\* The invariant of publishing holds initially.
LEMMA InitInv ==
    ASSUME PublishInit
    PROVE  PublishInv
  <1>1. ASSUME NEW p \in Publishers
        PROVE  /\ pub[p] \in Publish /\ pub[p].pc = "idle" /\ pub[p].queued_at = 0
               /\ pub[p].applied = FALSE /\ pub[p].result = "None" /\ pub[p].after = {}
    <2>1. PICK f \in Functions, h \in Wasms, e \in SUBSET Origins :
            pub[p] = [pc |-> "idle", function |-> f, hash |-> h, egress_allow |-> e,
                      queued_at |-> 0, applied |-> FALSE, result |-> "None", after |-> {}]
      BY DEF PublishInit
    <2>2. QED
      BY <2>1 DEF Publish, PubPC, PubResults
  <1>2. pub \in [Publishers -> Publish]
    <2>1. pub = [p \in Publishers |-> pub[p]]
      BY DEF PublishInit
    <2>2. QED
      BY <1>1, <2>1
  <1>3. PublishTypeOK
    BY <1>2 DEF PublishInit, PublishTypeOK
  <1>4. \A p \in Publishers : PublishOK(p) /\ AnswerOK(p)
    BY <1>1 DEF PublishOK, AnswerOK, PublishInit
  <1>5. \A op \in Ops, p \in Publishers : LateOK(op, p)
    BY DEF LateOK, PublishInit
  <1>6. \A f \in Functions : RowOK(f) /\ HolderOK(f)
    BY DEF RowOK, HolderOK, PublishInit
  <1>7. LockExcludes
    BY <1>1 DEF LockExcludes, Live
  <1>8. QED
    BY <1>3, <1>4, <1>5, <1>6, <1>7 DEF PublishInv, Ops

\* The invariant of publishing: every late write, lock row and catalog row belongs
\* to a publish that had come far enough to send it.
THEOREM PublishInvariant == PublishSpec => []PublishInv
  <1>1. PublishInit => PublishInv
    BY InitInv
  <1>2. PublishInv /\ [PublishNext]_publishVars => PublishInv'
    <2> SUFFICES ASSUME PublishInv, [PublishNext]_publishVars PROVE PublishInv'
      OBVIOUS
    <2>1. ASSUME NEW p \in Publishers, PublishStep(p) PROVE PublishInv'
      BY <2>1, PublishStartKeeps, AcquireKeeps, PutArtifactKeeps, UpsertKeeps,
         ReleaseKeeps, CleanupKeeps DEF PublishStep
    <2>2. ASSUME NEW p \in Publishers, Resend(p) PROVE PublishInv'
      BY <2>2, ResendKeeps
    <2>3. ASSUME NEW p \in Publishers, PublishDrop(p) PROVE PublishInv'
      BY <2>3, PublishDropKeeps
    <2>4. ASSUME NEW op \in {"acquire", "upsert", "release"}, NEW p \in Publishers,
                 LateWrite(op, p)
          PROVE  PublishInv'
      BY <2>4, LateWriteKeeps DEF Ops
    <2>5. ASSUME NEW f \in Functions, ReapLock(f) PROVE PublishInv'
      BY <2>5, ReapLockKeeps
    <2>6. CASE Tick
      BY <2>6, TickKeeps
    <2>7. CASE UNCHANGED publishVars
      <3>1. UNCHANGED <<clock, lock, holder, artifacts, catalog, pub, late>>
        BY <2>7 DEF publishVars
      <3>2. /\ Moves /\ clock \in Nat /\ clock' \in 0..MaxTime /\ clock <= clock'
        BY <3>1, StillMoves DEF PublishInv, PublishTypeOK
      <3>3. QED
        BY <3>1, <3>2, LockKept, RestKept
    <2>8. QED
      BY <2>1, <2>2, <2>3, <2>4, <2>5, <2>6, <2>7 DEF PublishNext
  <1>3. QED
    BY <1>1, <1>2, PTL DEF PublishSpec

\* Every table keeps its type; in particular no row is ever without a number to
\* compare the next one with.
THEOREM PublishTypeCorrect == PublishSpec => []PublishTypeOK
  <1>1. PublishInv => PublishTypeOK
    BY DEF PublishInv
  <1>2. QED
    BY <1>1, PublishInvariant, PTL

\* "Ready" and "Superseded" are true when they are answered and stay true, whatever
\* is written late.
THEOREM AnswersAreTrue == PublishSpec => []AnswerMatchesCatalog
  <1>1. PublishInv => AnswerMatchesCatalog
    BY DEF PublishInv, AnswerOK, AnswerMatchesCatalog
  <1>2. QED
    BY <1>1, PublishInvariant, PTL

\* Of publishes of different modules only the holder of the lock works within its
\* term, for every lock term and every delay.
THEOREM LockIsExclusive == PublishSpec => []LockExcludes
  <1>1. PublishInv => LockExcludes
    BY DEF PublishInv
  <1>2. QED
    BY <1>1, PublishInvariant, PTL

\* A publish is superseded by a concurrent one, or within the skew of the clocks.
THEOREM SupersededIsConcurrent == PublishSpec => []SupersededByConcurrent
  <1>1. PublishInv => SupersededByConcurrent
    <2> SUFFICES ASSUME PublishInv, NEW p \in Publishers, pub[p].result = "Superseded"
                 PROVE  \E q \in Publishers \ {p} :
                            /\ pub[q].function = pub[p].function
                            /\ pub[q].queued_at = catalog[pub[p].function].queued_at
                            /\ q \in pub[p].after =>
                                pub[q].queued_at \in
                                    pub[p].queued_at + 1 .. pub[p].queued_at + Skew
      BY DEF SupersededByConcurrent
    <2>1. /\ pub[p].function \in Functions /\ pub[p].queued_at \in Nat
          /\ PublishOK(p) /\ AnswerOK(p)
      BY PublishFacts
    <2>2. /\ catalog[pub[p].function] # Absent
          /\ catalog[pub[p].function].queued_at > pub[p].queued_at
      BY <2>1 DEF AnswerOK
    <2>3. PICK q \in Publishers :
            /\ pub[q].function = pub[p].function
            /\ pub[q].queued_at = catalog[pub[p].function].queued_at
      BY <2>1, <2>2 DEF PublishInv, RowOK
    <2>4. pub[q].queued_at \in Nat /\ pub[q].queued_at > pub[p].queued_at /\ q # p
      BY <2>1, <2>2, <2>3, PublishFacts
    <2>5. ASSUME q \in pub[p].after
          PROVE  pub[q].queued_at \in pub[p].queued_at + 1 .. pub[p].queued_at + Skew
      <3>1. pub[q].queued_at <= pub[p].queued_at + Skew
        BY <2>1, <2>5 DEF PublishOK
      <3>2. QED
        BY <2>1, <2>4, <3>1
    <2>6. QED
      BY <2>3, <2>4, <2>5
  <1>2. QED
    BY <1>1, PublishInvariant, PTL

-----------------------------------------------------------------------------
(* Refinement.                                                             *)

\* What is offered does not change.
LEMMA OfferedStays ==
    ASSUME Moves
    PROVE  Offered' = Offered
  BY DEF Offered, Moves

\* A row that is put is one publish as a whole, whose module is in the bucket.
LEMMA PutRowServes ==
    ASSUME PublishInv, Moves, NEW p \in Publishers, Upserts(p), PutRow(p),
           pub[p].hash \in artifacts, UNCHANGED artifacts
    PROVE  Register!RegisterNext
  <1> DEFINE o == [function |-> pub[p].function, content_hash |-> pub[p].hash,
                   egress_allow |-> pub[p].egress_allow]
             g == pub[p].queued_at
  <1>1. o \in Offered
    BY DEF Offered
  <1>2. g \in 0..MaxTime
    BY PublishFacts DEF PublishInv, PublishTypeOK, PublishOK
  <1>3. Offered' = Offered
    BY OfferedStays
  <1>4. Register!Serve(o, g)
    BY <1>3 DEF Register!Serve, Upserts, PutRow
  <1>5. QED
    BY <1>1, <1>2, <1>4 DEF Register!RegisterNext

\* A module that is stored belongs to a publish.
LEMMA PutUploads ==
    ASSUME PublishInv, Moves, NEW p \in Publishers,
           artifacts' = artifacts \cup {pub[p].hash}, UNCHANGED catalog
    PROVE  Register!RegisterNext
  <1> DEFINE o == [function |-> pub[p].function, content_hash |-> pub[p].hash,
                   egress_allow |-> pub[p].egress_allow]
  <1>1. o \in Offered
    BY DEF Offered
  <1>2. Register!Upload(o)
    BY OfferedStays DEF Register!Upload
  <1>3. QED
    BY <1>1, <1>2 DEF Register!RegisterNext

\* Every step of a publish moves it on.
LEMMA EveryStepMoves ==
    ASSUME PublishInv, NEW p \in Publishers, PublishStep(p) \/ Resend(p) \/ PublishDrop(p)
    PROVE  Moves
  <1>1. PublishTypeOK /\ pub[p] \in Publish /\ clock \in Nat
    BY PublishFacts
  <1>2. ASSUME NEW pc \in PubPC \ {"idle"}, PubGoTo(p, pc), pub[p].pc # "done" PROVE Moves
    BY <1>1, <1>2, GoToMoves
  <1>3. ASSUME NEW result \in PubResults, PubAnswer(p, result), pub[p].pc # "done"
        PROVE  Moves
    BY <1>1, <1>3, AnswerMoves
  <1>4. CASE PublishStart(p)
    <2> DEFINE after == {q \in Publishers : /\ pub[q].pc = "done"
                                            /\ pub[q].function = pub[p].function}
    <2>1. CASE Refuse(p)
      BY <1>3, <1>4, <2>1 DEF PublishStart, Refuse, PubResults
    <2>2. ASSUME NEW t \in Now,
                 pub' = [pub EXCEPT ![p].pc = "acquire", ![p].queued_at = t, ![p].after = after]
          PROVE  Moves
      <3>1. t \in Nat /\ after \in SUBSET Publishers
        BY <1>1 DEF Now
      <3>2. pub[p].pc = "idle"
        BY <1>4 DEF PublishStart
      <3> HIDE DEF after
      <3>3. QED
        BY <1>1, <2>2, <3>1, <3>2, StartMoves
    <2>3. QED
      BY <1>4, <2>1, <2>2 DEF PublishStart
  <1>5. CASE Upsert(p)
    BY <1>1, <1>2, <1>5, AppliedMoves DEF Upsert, PubPC
  <1>6. CASE Acquire(p)
    BY <1>2, <1>3, <1>6 DEF Acquire, PubPC, PubResults
  <1>7. CASE PutArtifact(p)
    BY <1>2, <1>7 DEF PutArtifact, PubPC
  <1>8. CASE Release(p)
    <2>1. (IF pub[p].applied THEN "Ready" ELSE "Superseded") \in PubResults
      BY DEF PubResults
    <2>2. QED
      BY <1>3, <1>8, <2>1 DEF Release, PubResults
  <1>9. CASE Cleanup(p)
    BY <1>3, <1>9 DEF Cleanup, PubResults
  <1>10. CASE Resend(p)
    BY <1>1, <1>10, StillMoves DEF Resend
  <1>11. CASE PublishDrop(p)
    BY <1>2, <1>11 DEF PublishDrop, PubPC
  <1>12. QED
    BY <1>4, <1>5, <1>6, <1>7, <1>8, <1>9, <1>10, <1>11 DEF PublishStep

\* A step of a publish is a step of the register, or nothing to it.
LEMMA StepImplementsRegister ==
    ASSUME PublishInv, NEW p \in Publishers, PublishStep(p) \/ Resend(p) \/ PublishDrop(p)
    PROVE  Register!RegisterNext \/ UNCHANGED <<Offered, artifacts, catalog>>
  <1>1. Moves /\ PublishOK(p) /\ Offered' = Offered
    BY EveryStepMoves, PublishFacts, OfferedStays
  <1>2. CASE UNCHANGED <<artifacts, catalog>>
    BY <1>1, <1>2
  <1>3. CASE artifacts' = artifacts \cup {pub[p].hash} /\ UNCHANGED catalog
    BY <1>1, <1>3, PutUploads
  <1>4. CASE Upsert(p) /\ Upserts(p) /\ PutRow(p)
    <2>1. pub[p].hash \in artifacts /\ UNCHANGED artifacts
      BY <1>1, <1>4 DEF Upsert, PublishOK, Bucket
    <2>2. QED
      BY <1>1, <1>4, <2>1, PutRowServes
  <1>5. \/ UNCHANGED <<artifacts, catalog>>
        \/ artifacts' = artifacts \cup {pub[p].hash} /\ UNCHANGED catalog
        \/ Upsert(p) /\ Upserts(p) /\ PutRow(p)
    <2>1. CASE PublishStart(p) \/ Acquire(p) \/ Release(p) \/ Cleanup(p) \/ Resend(p)
      BY <2>1 DEF PublishStart, Acquire, Release, Cleanup, Resend, NoWrite, Bucket, LeaveLate
    <2>2. CASE PutArtifact(p) \/ PublishDrop(p)
      BY <2>2 DEF PutArtifact, PublishDrop, NoWrite, LeaveLate
    <2>3. CASE Upsert(p)
      BY <2>3 DEF Upsert, NoWrite, Bucket, LeaveLate
    <2>4. QED
      BY <2>1, <2>2, <2>3 DEF PublishStep
  <1>6. QED
    BY <1>2, <1>3, <1>4, <1>5

\* Publishing implements the register: behind locks that expire, generations, lost
\* answers and late writes, hosts see a row of one publish as a whole, with its
\* module in the bucket, whose generation never goes back.
THEOREM PublishImplementsRegister == PublishSpec => CatalogIsRegister
  <1>1. PublishInit => Register!RegisterInit
    <2> SUFFICES ASSUME PublishInit PROVE Register!RegisterInit
      OBVIOUS
    <2>1. PublishTypeOK
      BY InitInv DEF PublishInv
    <2>2. Offered \in SUBSET [function: Functions, content_hash: Wasms,
                              egress_allow: SUBSET Origins]
      BY <2>1 DEF Offered, PublishTypeOK, Publish
    <2>3. QED
      BY <2>2 DEF Register!RegisterInit, PublishInit
  <1>2. PublishInv /\ [PublishNext]_publishVars =>
            [Register!RegisterNext]_(Register!registerVars)
    <2> SUFFICES ASSUME PublishInv, [PublishNext]_publishVars
                 PROVE  Register!RegisterNext \/ UNCHANGED <<Offered, artifacts, catalog>>
      BY DEF Register!registerVars
    <2>1. ASSUME UNCHANGED pub PROVE Moves /\ Offered' = Offered
      BY <2>1, StillMoves, OfferedStays DEF PublishInv
    <2>2. ASSUME NEW p \in Publishers, PublishStep(p) \/ Resend(p) \/ PublishDrop(p)
          PROVE  Register!RegisterNext \/ UNCHANGED <<Offered, artifacts, catalog>>
      BY <2>2, StepImplementsRegister
    <2>3. ASSUME NEW op \in {"acquire", "upsert", "release"}, NEW p \in Publishers,
                 LateWrite(op, p)
          PROVE  Register!RegisterNext \/ UNCHANGED <<Offered, artifacts, catalog>>
      <3>1. UNCHANGED <<pub, artifacts>> /\ Moves /\ Offered' = Offered
        BY <2>1, <2>3 DEF LateWrite, Bucket
      <3>2. CASE UNCHANGED catalog
        BY <3>1, <3>2
      <3>3. CASE op = "upsert" /\ Upserts(p) /\ PutRow(p)
        <4>1. pub[p].hash \in artifacts
          BY <2>3, <3>3, PublishFacts DEF LateWrite, LateOK, Ops
        <4>2. QED
          BY <3>1, <3>3, <4>1, PutRowServes
      <3>4. QED
        BY <2>3, <3>2, <3>3 DEF LateWrite, NoWrite
    <2>4. ASSUME UNCHANGED <<pub, artifacts, catalog>>
          PROVE  UNCHANGED <<Offered, artifacts, catalog>>
      BY <2>1, <2>4
    <2>5. ASSUME NEW f \in Functions, ReapLock(f)
          PROVE  UNCHANGED <<Offered, artifacts, catalog>>
      BY <2>4, <2>5 DEF ReapLock, Bucket
    <2>6. CASE Tick
      BY <2>4, <2>6 DEF Tick, NoWrite
    <2>7. CASE UNCHANGED publishVars
      BY <2>4, <2>7 DEF publishVars
    <2>8. QED
      BY <2>2, <2>3, <2>5, <2>6, <2>7 DEF PublishNext
  <1>3. QED
    BY <1>1, <1>2, PublishInvariant, PTL
       DEF PublishSpec, CatalogIsRegister, Register!RegisterSpec
=============================================================================
