--------------------------- MODULE ExecutorProofs ---------------------------
(***************************************************************************)
(* Proofs about Executor for any number of runs, any time-out, tick and    *)
(* delay of the ticker and any bound: the epoch stops no guest before its  *)
(* time, and none holds its thread for longer than RunBound.               *)
(***************************************************************************)
EXTENDS Executor, TLAPS

USE ExecutorAssumption

-----------------------------------------------------------------------------
(* The inductive invariant.                                                *)

\* The ticker sleeps for EpochTick before each increment, and is at most MaxLag late.
TickerInTime ==
    /\ epoch <= wake - EpochTick
    /\ wake <= now + EpochTick
    /\ now <= wake + MaxLag

\* The increments of the epoch since the store of r was made.
Seen(r) == epoch + DeadlineTicks - run[r].deadline

\* The latest a run can be at its chain-th host call after the deadline.
LatestAt(chain) == DeadlineBound + chain * HttpTime

\* A run was made at some time between two increments. Since then each increment it
\* has seen but the first took EpochTick or more, and each took EpochTick + MaxLag
\* or less, which carries over to the time of the next one.
DeadlineFromStart(r) ==
    /\ run[r].since <= now
    /\ Seen(r) >= 0
    /\ Seen(r) >= 1 => Seen(r) * EpochTick <= wake - run[r].since
    /\ wake + MaxLag - run[r].since <= (Seen(r) + 1) * (EpochTick + MaxLag)

\* A fetch that is under way gives up in time, and guest code that is due has got
\* there by host calls only.
FetchesEnd(r) ==
    /\ run[r].pc = "http" =>
        /\ now <= run[r].until
        /\ run[r].until - run[r].since <= LatestAt(run[r].chain)
    /\ InGuestCode(r) /\ Due(r) => now - run[r].since <= LatestAt(run[r].chain)

ExecutorInv ==
    /\ ExecutorTypeOK
    /\ TickerInTime
    /\ \A r \in Runs : Active(r) => DeadlineFromStart(r) /\ FetchesEnd(r)
    /\ NotInterruptedEarly

-----------------------------------------------------------------------------
(* Arithmetic.                                                             *)

\* The deadline is a positive number of ticks.
LEMMA DeadlineTicksType == DeadlineTicks \in Nat \ {0}
  BY DEF DeadlineTicks

\* Multiples of a number of units grow with their factor.
LEMMA Multiples ==
    ASSUME NEW t \in Nat, NEW m \in Nat, NEW n \in Nat, m <= n
    PROVE  /\ m * t \in Nat /\ n * t \in Nat /\ m * t <= n * t
           /\ (n + 1) * t = n * t + t
  <1>1. m * t \in Nat /\ n * t \in Nat /\ (n - m) * t \in Nat
    OBVIOUS
  <1>2. n * t = (n - m) * t + m * t
    OBVIOUS
  <1>3. (n + 1) * t = n * t + t
    OBVIOUS
  <1>4. QED
    BY <1>1, <1>2, <1>3

\* The bounds are numbers of units.
LEMMA Bounds ==
    /\ EpochTick + MaxLag \in Nat \ {0} /\ DeadlineBound \in Nat /\ RunBound \in Nat
    /\ DeadlineBound <= RunBound
  <1>1. DeadlineBound \in Nat
    BY DeadlineTicksType, Multiples DEF DeadlineBound
  <1>2. StraightLine * HttpTime \in Nat
    BY Multiples
  <1>3. QED
    BY <1>1, <1>2 DEF RunBound

\* One more host call takes one more HttpTime at most; host calls take time; and
\* no run makes more of them than StraightLine after its deadline.
LEMMA LatestGrows ==
    ASSUME NEW c \in Nat
    PROVE  /\ LatestAt(c) \in Nat
           /\ LatestAt(c + 1) = LatestAt(c) + HttpTime
           /\ LatestAt(c) >= DeadlineBound
           /\ c >= 1 => LatestAt(c) >= DeadlineBound + HttpTime
           /\ c <= StraightLine => LatestAt(c) <= RunBound
  <1>1. c * HttpTime \in Nat /\ (c + 1) * HttpTime = c * HttpTime + HttpTime
    BY Multiples
  <1>2. c >= 1 => c * HttpTime >= HttpTime
    <2>1. SUFFICES ASSUME c >= 1 PROVE c * HttpTime >= HttpTime
      OBVIOUS
    <2>2. 1 * HttpTime <= c * HttpTime
      BY <2>1, Multiples
    <2>3. QED
      BY <2>2, <1>1
  <1>3. c <= StraightLine => c * HttpTime <= StraightLine * HttpTime
    BY Multiples
  <1>4. StraightLine * HttpTime \in Nat
    BY Multiples
  <1>5. QED
    BY <1>1, <1>2, <1>3, <1>4, Bounds DEF LatestAt, RunBound

\* What a run has seen is a number, and it is due when that reaches its deadline.
LEMMA SeenType ==
    ASSUME ExecutorTypeOK, NEW r \in Runs, DeadlineFromStart(r)
    PROVE  /\ Seen(r) \in Nat
           /\ Due(r) <=> Seen(r) >= DeadlineTicks
           /\ now \in Nat /\ wake \in Nat /\ epoch \in Nat /\ run[r].since \in Nat
  BY DeadlineTicksType DEF ExecutorTypeOK, Run, DeadlineFromStart, Seen, Due

\* A run that is not due yet is within its time, the ticker's delay included.
LEMMA NotDueInTime ==
    ASSUME ExecutorInv, NEW r \in Runs, Active(r), ~Due(r)
    PROVE  wake + MaxLag - run[r].since <= DeadlineBound
  <1>1. DeadlineFromStart(r) /\ ExecutorTypeOK
    BY DEF ExecutorInv
  <1>2. Seen(r) \in Nat /\ Seen(r) + 1 <= DeadlineTicks
    BY <1>1, SeenType, DeadlineTicksType
  <1>3. (Seen(r) + 1) * (EpochTick + MaxLag) <= DeadlineTicks * (EpochTick + MaxLag)
    BY <1>2, DeadlineTicksType, Multiples
  <1> DEFINE s == (Seen(r) + 1) * (EpochTick + MaxLag)
  <1>4. s \in Nat
    BY <1>2, Multiples
  <1>5. wake + MaxLag - run[r].since <= s /\ s <= DeadlineBound
    BY <1>1, <1>3 DEF DeadlineFromStart, DeadlineBound
  <1>6. wake + MaxLag - run[r].since \in Int
    BY <1>1, SeenType
  <1> HIDE DEF s
  <1>7. QED
    BY <1>4, <1>5, <1>6, Bounds

\* A run that is due has had its ticks but the first.
LEMMA DueHadItsTime ==
    ASSUME ExecutorInv, NEW r \in Runs, Active(r), Due(r)
    PROVE  now - run[r].since >= (DeadlineTicks - 1) * EpochTick
  <1>1. DeadlineFromStart(r) /\ ExecutorTypeOK /\ TickerInTime
    BY DEF ExecutorInv
  <1>2. Seen(r) \in Nat /\ DeadlineTicks <= Seen(r)
    BY <1>1, SeenType
  <1>3. DeadlineTicks * EpochTick <= Seen(r) * EpochTick
    BY <1>2, DeadlineTicksType, Multiples
  <1>4. DeadlineTicks * EpochTick = (DeadlineTicks - 1) * EpochTick + EpochTick
    <2>1. DeadlineTicks - 1 \in Nat
      BY DeadlineTicksType
    <2>2. ((DeadlineTicks - 1) + 1) * EpochTick = (DeadlineTicks - 1) * EpochTick + EpochTick
      BY <2>1, Multiples
    <2>3. QED
      BY <2>2, DeadlineTicksType
  <1> DEFINE least == (DeadlineTicks - 1) * EpochTick
             seen == Seen(r) * EpochTick
             all == DeadlineTicks * EpochTick
  <1>5. least \in Nat /\ seen \in Nat /\ all \in Nat
    BY <1>2, DeadlineTicksType, Multiples
  <1>6. seen <= wake - run[r].since
    BY <1>1, <1>2, DeadlineTicksType DEF DeadlineFromStart
  <1>7. wake <= now + EpochTick /\ now \in Nat /\ wake \in Nat /\ run[r].since \in Nat
    BY <1>1, SeenType DEF TickerInTime
  <1>8. all <= seen /\ all = least + EpochTick
    BY <1>3, <1>4
  <1> HIDE DEF least, seen, all
  <1>9. now - run[r].since >= least
    BY <1>5, <1>6, <1>7, <1>8
  <1>10. QED
    BY <1>9 DEF least

\* What the other runs, and this one when nothing happens to it, keep.
LEMMA OthersKeep ==
    ASSUME ExecutorInv, NEW r \in Runs, NEW q \in Runs, q # r,
           UNCHANGED clockVars, run'[q] = run[q]
    PROVE  /\ Active(q)' => DeadlineFromStart(q)' /\ FetchesEnd(q)'
           /\ run'[q].trap = "interrupt" => run'[q].ran >= (DeadlineTicks - 1) * EpochTick
  BY DEF ExecutorInv, NotInterruptedEarly, Active, DeadlineFromStart, FetchesEnd,
         Seen, InGuestCode, Due, clockVars

\* A step of one run keeps the invariant when it keeps that run's part of it.
LEMMA RunStepKeeps ==
    ASSUME ExecutorInv, NEW r \in Runs, NEW new \in Run,
           run' = [run EXCEPT ![r] = new], UNCHANGED clockVars,
           Active(r)' => DeadlineFromStart(r)' /\ FetchesEnd(r)',
           new.trap = "interrupt" => new.ran >= (DeadlineTicks - 1) * EpochTick
    PROVE  ExecutorInv'
  <1>1. ExecutorTypeOK' /\ TickerInTime'
    BY DEF ExecutorInv, ExecutorTypeOK, TickerInTime, clockVars
  <1>2. run'[r] = new /\ \A q \in Runs : q # r => run'[q] = run[q]
    BY DEF ExecutorInv, ExecutorTypeOK
  <1>3. \A q \in Runs : Active(q)' => DeadlineFromStart(q)' /\ FetchesEnd(q)'
    BY <1>2, OthersKeep
  <1>4. NotInterruptedEarly'
    BY <1>2, OthersKeep DEF NotInterruptedEarly
  <1>5. QED
    BY <1>1, <1>3, <1>4 DEF ExecutorInv

\* A run that ends keeps nothing but its result, its trap and how long it took.
LEMMA EndKeeps ==
    ASSUME ExecutorInv, NEW r \in Runs, Active(r), NEW result \in RunResults,
           NEW trap \in Traps, End(r, result, trap), UNCHANGED clockVars,
           trap = "interrupt" => Due(r)
    PROVE  ExecutorInv'
  <1> DEFINE ran == now - run[r].since
             new == [NoRun EXCEPT !.pc = "done", !.result = result, !.ran = ran,
                                  !.trap = trap]
  <1>1. run[r] \in Run /\ now \in Nat /\ DeadlineFromStart(r)
    BY DEF ExecutorInv, ExecutorTypeOK
  <1>2. ran \in Nat
    BY <1>1 DEF DeadlineFromStart, Run
  <1>3. NoRun \in Run
    BY DEF NoRun, Run, RunPC, RunResults, Traps
  <1>4. new \in Run /\ new.pc = "done" /\ new.trap = trap /\ new.ran = ran
    <2> HIDE DEF ran
    <2>1. QED
      BY <1>2, <1>3 DEF Run, RunPC
  <1>5. run' = [run EXCEPT ![r] = new] /\ run \in [Runs -> Run]
    BY DEF End, ExecutorInv, ExecutorTypeOK
  <1>6. trap = "interrupt" => ran >= (DeadlineTicks - 1) * EpochTick
    BY DueHadItsTime
  <1> HIDE DEF new, ran
  <1>7. new.trap = "interrupt" => new.ran >= (DeadlineTicks - 1) * EpochTick
    BY <1>4, <1>6
  <1>8. ~Active(r)'
    BY <1>4, <1>5 DEF Active
  <1>9. QED
    BY <1>4, <1>5, <1>7, <1>8, RunStepKeeps

\* A run that fails ends with one of its results, whatever the error's text says.
LEMMA FailKeeps ==
    ASSUME ExecutorInv, NEW r \in Runs, Active(r), NEW trap \in Traps, Fail(r, trap),
           UNCHANGED clockVars, trap = "interrupt" => Due(r)
    PROVE  ExecutorInv'
  <1>1. PICK text \in BOOLEAN : End(r, MapWasmErr(trap, text), trap)
    BY DEF Fail
  <1>2. MapWasmErr(trap, text) \in RunResults
    BY DEF MapWasmErr, RunResults
  <1>3. QED
    BY <1>1, <1>2, EndKeeps

\* A new store starts its run now, with a deadline counted from the current epoch.
LEMMA RunStartKeeps ==
    ASSUME ExecutorInv, NEW r \in Runs, RunStart(r)
    PROVE  ExecutorInv'
  <1>1. /\ run[r] \in Run /\ run \in [Runs -> Run] /\ now \in Nat /\ epoch \in Nat
        /\ wake \in Nat /\ wake <= now + EpochTick
        /\ run[r].pc = "idle" /\ UNCHANGED clockVars /\ NotInterruptedEarly
    BY DEF ExecutorInv, ExecutorTypeOK, TickerInTime, RunStart
  <1>2. CASE run' = [run EXCEPT ![r].pc = "done", ![r].result = "PayloadTooLarge"]
    <2> DEFINE new == [run[r] EXCEPT !.pc = "done", !.result = "PayloadTooLarge"]
    <2>1. /\ new \in Run /\ run' = [run EXCEPT ![r] = new]
          /\ new.trap = run[r].trap /\ new.ran = run[r].ran
      BY <1>1, <1>2 DEF Run, RunPC, RunResults
    <2>2. ~Active(r)'
      BY <1>1, <1>2 DEF Active, Run
    <2>3. new.trap = "interrupt" => new.ran >= (DeadlineTicks - 1) * EpochTick
      BY <1>1, <2>1 DEF NotInterruptedEarly
    <2>4. QED
      BY <1>1, <2>1, <2>2, <2>3, RunStepKeeps
  <1>3. CASE NewStore(r)
    <2> DEFINE deadline == epoch + DeadlineTicks
               new == [run[r] EXCEPT !.pc = "start", !.since = now,
                                     !.deadline = deadline]
    <2>0. deadline \in Nat
      BY <1>1, DeadlineTicksType
    <2>1. new \in Run /\ run' = [run EXCEPT ![r] = new] /\ run'[r] = new
      <3>1. run' = [run EXCEPT ![r].pc = "start", ![r].since = now, ![r].deadline = deadline]
        BY <1>3 DEF NewStore
      <3> HIDE DEF deadline
      <3>2. QED
        BY <1>1, <2>0, <3>1 DEF Run, RunPC
    <2>2. DeadlineFromStart(r)'
      <3>1. Seen(r)' = 0
        BY <1>1, <2>1, DeadlineTicksType DEF Seen, clockVars
      <3>2. (Seen(r)' + 1) * (EpochTick + MaxLag) = EpochTick + MaxLag
        BY <3>1, Bounds
      <3>3. run'[r].since = now /\ now' = now /\ wake' = wake
        BY <1>1, <2>1 DEF Run, clockVars
      <3>4. QED
        BY <1>1, <3>1, <3>2, <3>3 DEF DeadlineFromStart
    <2>3. FetchesEnd(r)'
      BY <1>1, <2>1, DeadlineTicksType DEF FetchesEnd, Run, Due, InGuestCode, clockVars
    <2>4. new.trap = "interrupt" => new.ran >= (DeadlineTicks - 1) * EpochTick
      BY <1>1 DEF NotInterruptedEarly, Run
    <2>5. QED
      BY <1>1, <2>1, <2>2, <2>3, <2>4, RunStepKeeps
  <1>4. QED
    BY <1>2, <1>3 DEF RunStart

\* A fetch before the deadline starts a new chain in good time; one after it adds
\* a link.
LEMMA HttpGetKeeps ==
    ASSUME ExecutorInv, NEW r \in Runs, HttpGet(r)
    PROVE  ExecutorInv'
  <1> DEFINE chain == IF Due(r) THEN run[r].chain + 1 ELSE 1
             until == now + HttpTime
             new == [run[r] EXCEPT !.pc = "http", !.in = run[r].pc,
                                   !.until = until, !.chain = chain]
  <1>1. /\ run[r] \in Run /\ run \in [Runs -> Run] /\ now \in Nat /\ epoch \in Nat
        /\ UNCHANGED clockVars /\ InGuestCode(r) /\ Active(r)
        /\ NotInterruptedEarly /\ DeadlineFromStart(r) /\ FetchesEnd(r) /\ wake \in Nat
        /\ Due(r) => run[r].chain < StraightLine
    BY DEF ExecutorInv, ExecutorTypeOK, HttpGet, InGuestCode, Active
  <1>2. chain \in 0..StraightLine /\ run[r].chain \in 0..StraightLine
    BY <1>1 DEF Run
  <1>3. new \in Run /\ run' = [run EXCEPT ![r] = new] /\ run'[r] = new
    <2>1. /\ run' = [run EXCEPT ![r].pc = "http", ![r].in = run[r].pc,
                                ![r].until = until, ![r].chain = chain]
          /\ until \in Nat
      BY <1>1 DEF HttpGet
    <2>2. run[r].pc \in {"start", "guest"}
      BY <1>1 DEF InGuestCode
    <2> HIDE DEF until, chain
    <2>3. QED
      BY <1>1, <1>2, <2>1, <2>2 DEF Run, RunPC
  <1>4. DeadlineFromStart(r)'
    BY <1>1, <1>3 DEF DeadlineFromStart, Seen, Run, clockVars
  <1>5. now + HttpTime - run[r].since <= LatestAt(chain)
    <2>1. CASE Due(r)
      <3>1. now - run[r].since <= LatestAt(run[r].chain)
        BY <1>1, <2>1 DEF FetchesEnd
      <3>2. /\ LatestAt(run[r].chain) \in Nat
            /\ LatestAt(run[r].chain + 1) = LatestAt(run[r].chain) + HttpTime
        BY <1>2, LatestGrows
      <3>3. QED
        BY <1>1, <2>1, <3>1, <3>2 DEF Run
    <2>2. CASE ~Due(r)
      <3>1. wake + MaxLag - run[r].since <= DeadlineBound /\ now <= wake + MaxLag
        BY <1>1, <2>2, NotDueInTime DEF ExecutorInv, TickerInTime
      <3>2. LatestAt(1) >= DeadlineBound + HttpTime /\ LatestAt(1) \in Nat
        BY LatestGrows
      <3>3. QED
        BY <1>1, <2>2, <3>1, <3>2, Bounds DEF Run
    <2>3. QED
      BY <2>1, <2>2
  <1>6. FetchesEnd(r)'
    BY <1>1, <1>3, <1>5 DEF FetchesEnd, InGuestCode, Run, LatestAt, clockVars
  <1>7. new.trap = "interrupt" => new.ran >= (DeadlineTicks - 1) * EpochTick
    BY <1>1 DEF NotInterruptedEarly, Run
  <1>8. QED
    BY <1>1, <1>3, <1>4, <1>6, <1>7, RunStepKeeps

\* After a fetch the guest code goes on no later than the fetch would give up.
LEMMA HttpReturnKeeps ==
    ASSUME ExecutorInv, NEW r \in Runs, HttpReturn(r)
    PROVE  ExecutorInv'
  <1> DEFINE new == [run[r] EXCEPT !.pc = run[r].in, !.in = "start", !.until = 0]
  <1>1. /\ run[r] \in Run /\ run \in [Runs -> Run] /\ now \in Nat /\ epoch \in Nat
        /\ UNCHANGED clockVars /\ run[r].pc = "http"
        /\ NotInterruptedEarly /\ DeadlineFromStart(r) /\ FetchesEnd(r)
    BY DEF ExecutorInv, ExecutorTypeOK, HttpReturn, Active
  <1>2. new \in Run /\ run' = [run EXCEPT ![r] = new] /\ run'[r] = new
    BY <1>1 DEF Run, RunPC, HttpReturn
  <1>3. DeadlineFromStart(r)'
    BY <1>1, <1>2 DEF DeadlineFromStart, Seen, Run, clockVars
  <1>4. LatestAt(run[r].chain) \in Nat
    BY <1>1, LatestGrows DEF Run
  <1>5. now - run[r].since <= LatestAt(run[r].chain)
    BY <1>1, <1>4 DEF FetchesEnd, Run
  <1>6. FetchesEnd(r)'
    BY <1>1, <1>2, <1>5 DEF FetchesEnd, InGuestCode, Run, LatestAt, clockVars
  <1>7. new.trap = "interrupt" => new.ran >= (DeadlineTicks - 1) * EpochTick
    BY <1>1 DEF NotInterruptedEarly, Run
  <1>8. QED
    BY <1>1, <1>2, <1>3, <1>6, <1>7, RunStepKeeps

\* An increment comes EpochTick or more after the one before, and MaxLag late at
\* most: each run has seen one more, and guest code that comes to be due was in time.
LEMMA IncrementEpochKeeps ==
    ASSUME ExecutorInv, IncrementEpoch
    PROVE  ExecutorInv'
  <1>1. /\ now \in 0..MaxTime /\ wake \in Nat /\ epoch \in 0..MaxTime
        /\ run \in [Runs -> Run] /\ TickerInTime /\ now >= wake
        /\ epoch' = epoch + 1 /\ wake' = now + EpochTick /\ now' = now /\ run' = run
    BY DEF ExecutorInv, ExecutorTypeOK, IncrementEpoch
  <1>2. ExecutorTypeOK' /\ TickerInTime'
    BY <1>1 DEF ExecutorTypeOK, TickerInTime
  <1>3. ASSUME NEW r \in Runs, Active(r)'
        PROVE  DeadlineFromStart(r)' /\ FetchesEnd(r)'
    <2>1. /\ Active(r) /\ run[r] \in Run /\ DeadlineFromStart(r) /\ FetchesEnd(r)
          /\ ExecutorTypeOK
      BY <1>1, <1>3 DEF ExecutorInv, Active
    <2>2. Seen(r) \in Nat /\ run[r].since \in Nat /\ Seen(r)' = Seen(r) + 1
      BY <1>1, <2>1, SeenType, DeadlineTicksType DEF Seen, Run
    <2> DEFINE least == Seen(r) * EpochTick
               most == (Seen(r) + 1) * (EpochTick + MaxLag)
    <2>3. /\ least \in Nat /\ (Seen(r) + 1) * EpochTick = least + EpochTick
          /\ Seen(r) = 0 => least = 0
      BY <2>2, Multiples
    <2>4. /\ most \in Nat
          /\ (Seen(r) + 1 + 1) * (EpochTick + MaxLag) = most + (EpochTick + MaxLag)
      BY <2>2, Multiples, Bounds
    <2>5. /\ run[r].since <= now
          /\ Seen(r) >= 1 => least <= wake - run[r].since
          /\ wake + MaxLag - run[r].since <= most
      BY <2>1 DEF DeadlineFromStart
    <2>6. now >= wake /\ now <= wake + MaxLag
      BY <1>1 DEF TickerInTime
    <2> HIDE DEF least, most
    <2>7. least + EpochTick <= now + EpochTick - run[r].since
      BY <1>1, <2>2, <2>3, <2>5, <2>6
    <2>8. now + EpochTick + MaxLag - run[r].since <= most + (EpochTick + MaxLag)
      BY <1>1, <2>2, <2>4, <2>5, <2>6
    <2>9. DeadlineFromStart(r)'
      BY <1>1, <2>2, <2>3, <2>4, <2>5, <2>7, <2>8 DEF DeadlineFromStart
    <2>10. FetchesEnd(r)'
      <3>1. LatestAt(run[r].chain) \in Nat /\ LatestAt(run[r].chain) >= DeadlineBound
        BY <2>1, LatestGrows DEF Run
      <3>2. now - run[r].since <= DeadlineBound \/ Due(r)
        BY <1>1, <2>1, <2>2, <2>6, NotDueInTime, Bounds
      <3>3. InGuestCode(r) => now - run[r].since <= LatestAt(run[r].chain)
        BY <1>1, <2>1, <2>2, <3>1, <3>2, Bounds DEF FetchesEnd
      <3>4. QED
        BY <1>1, <2>1, <3>3 DEF FetchesEnd, InGuestCode, LatestAt
    <2>11. QED
      BY <2>9, <2>10
  <1>4. NotInterruptedEarly'
    BY <1>1 DEF NotInterruptedEarly, ExecutorInv
  <1>5. QED
    BY <1>2, <1>3, <1>4 DEF ExecutorInv

\* Time does not pass the end of a fetch, nor the latest the ticker comes.
LEMMA TimePassesKeeps ==
    ASSUME ExecutorInv, TimePasses
    PROVE  ExecutorInv'
  <1>1. /\ now \in 0..MaxTime /\ wake \in Nat /\ epoch \in 0..MaxTime
        /\ run \in [Runs -> Run] /\ TickerInTime /\ now < MaxTime /\ now < wake + MaxLag
        /\ epoch' = epoch /\ wake' = wake /\ now' = now + 1 /\ run' = run
    BY DEF ExecutorInv, ExecutorTypeOK, TimePasses
  <1>2. ExecutorTypeOK' /\ TickerInTime'
    BY <1>1 DEF ExecutorInv, ExecutorTypeOK, TickerInTime
  <1>3. ASSUME NEW r \in Runs, Active(r)'
        PROVE  DeadlineFromStart(r)' /\ FetchesEnd(r)'
    <2>1. Active(r) /\ run[r] \in Run /\ DeadlineFromStart(r) /\ FetchesEnd(r)
      BY <1>1, <1>3 DEF ExecutorInv, Active
    <2>2. DeadlineFromStart(r)'
      BY <1>1, <2>1 DEF DeadlineFromStart, Seen, Run
    <2>3. CASE run[r].pc = "http"
      <3>1. now < run[r].until
        BY <2>3 DEF TimePasses
      <3>2. QED
        BY <1>1, <2>1, <2>2, <2>3, <3>1 DEF FetchesEnd, InGuestCode, Run, LatestAt
    <2>4. CASE InGuestCode(r)
      <3>1. ~Due(r)
        BY <2>4 DEF TimePasses
      <3>2. QED
        BY <1>1, <2>2, <2>4, <3>1 DEF FetchesEnd, InGuestCode, Due
    <2>5. QED
      BY <2>1, <2>3, <2>4 DEF Active, InGuestCode, Run, RunPC
  <1>4. NotInterruptedEarly'
    BY <1>1 DEF NotInterruptedEarly, ExecutorInv
  <1>5. QED
    BY <1>2, <1>3, <1>4 DEF ExecutorInv

-----------------------------------------------------------------------------
(* The theorems.                                                           *)

\* The invariant of the executor: deadlines count from the start of their run, and
\* host calls are the only way past them.
THEOREM ExecutorInvariant == ExecutorSpec => []ExecutorInv
  <1>1. ExecutorInit => ExecutorInv
    BY DEF ExecutorInit, ExecutorInv, ExecutorTypeOK, TickerInTime, NotInterruptedEarly,
           Active, NoRun, Run, RunPC, RunResults, Traps
  <1>2. ExecutorInv /\ [ExecutorNext]_executorVars => ExecutorInv'
    <2> SUFFICES ASSUME ExecutorInv, [ExecutorNext]_executorVars PROVE ExecutorInv'
      OBVIOUS
    <2>1. ASSUME NEW r \in Runs, RunStart(r) PROVE ExecutorInv'
      BY <2>1, RunStartKeeps
    <2>2. ASSUME NEW r \in Runs, Instantiate(r) PROVE ExecutorInv'
      <3>1. /\ run[r] \in Run /\ run \in [Runs -> Run] /\ UNCHANGED clockVars
            /\ run[r].pc = "start" /\ Active(r) /\ NotInterruptedEarly
            /\ DeadlineFromStart(r) /\ FetchesEnd(r)
        BY <2>2 DEF ExecutorInv, ExecutorTypeOK, Instantiate, Active
      <3>2. CASE Fail(r, "none")
        BY <3>1, <3>2, FailKeeps DEF Traps
      <3>3. CASE run' = [run EXCEPT ![r].pc = "guest"]
        <4> DEFINE new == [run[r] EXCEPT !.pc = "guest"]
        <4>1. new \in Run /\ run' = [run EXCEPT ![r] = new] /\ run'[r] = new
          BY <3>1, <3>3 DEF Run, RunPC
        <4>2. DeadlineFromStart(r)' /\ FetchesEnd(r)'
          BY <3>1, <4>1 DEF DeadlineFromStart, Seen, FetchesEnd, InGuestCode, Due, Run,
                            LatestAt, clockVars
        <4>3. new.trap = "interrupt" => new.ran >= (DeadlineTicks - 1) * EpochTick
          BY <3>1 DEF NotInterruptedEarly, Run
        <4>4. QED
          BY <3>1, <4>1, <4>2, <4>3, RunStepKeeps
      <3>4. QED
        BY <2>2, <3>2, <3>3 DEF Instantiate
    <2>3. ASSUME NEW r \in Runs, GuestTraps(r) PROVE ExecutorInv'
      BY <2>3, FailKeeps DEF GuestTraps, InGuestCode, Active, Traps
    <2>4. ASSUME NEW r \in Runs, GuestReturns(r) PROVE ExecutorInv'
      BY <2>4, EndKeeps DEF GuestReturns, Active, RunResults, Traps
    <2>5. ASSUME NEW r \in Runs, Interrupt(r) PROVE ExecutorInv'
      BY <2>5, FailKeeps DEF Interrupt, InGuestCode, Active, Traps
    <2>6. ASSUME NEW r \in Runs, HttpGet(r) PROVE ExecutorInv'
      BY <2>6, HttpGetKeeps
    <2>7. ASSUME NEW r \in Runs, HttpReturn(r) PROVE ExecutorInv'
      BY <2>7, HttpReturnKeeps
    <2>8. CASE IncrementEpoch
      BY <2>8, IncrementEpochKeeps
    <2>9. CASE TimePasses
      BY <2>9, TimePassesKeeps
    <2>10. CASE UNCHANGED executorVars
      BY <2>10 DEF executorVars, ExecutorInv, ExecutorTypeOK, TickerInTime,
                   NotInterruptedEarly, Active, DeadlineFromStart, Seen, FetchesEnd,
                   InGuestCode, Due, LatestAt
    <2>11. QED
      BY <2>1, <2>2, <2>3, <2>4, <2>5, <2>6, <2>7, <2>8, <2>9, <2>10 DEF ExecutorNext
  <1>3. QED
    BY <1>1, <1>2, PTL DEF ExecutorSpec

\* The clocks stay within their bound and every run within its type: in particular
\* no deadline and no duration is ever negative.
THEOREM ExecutorTypeCorrect == ExecutorSpec => []ExecutorTypeOK
  <1>1. ExecutorInv => ExecutorTypeOK
    BY DEF ExecutorInv
  <1>2. QED
    BY <1>1, ExecutorInvariant, PTL

\* A guest that the epoch stops had the ticks set_epoch_deadline promised it, all but
\* the first in full, whatever the other runs on the engine do and wherever between
\* two increments its store was made.
THEOREM NeverEarly == ExecutorSpec => []NotInterruptedEarly
  <1>1. ExecutorInv => NotInterruptedEarly
    BY DEF ExecutorInv
  <1>2. QED
    BY <1>1, ExecutorInvariant, PTL

\* A guest holds its blocking thread for its deadline, the delays of the ticker on the
\* way there and one straight run of http_get calls at most.
THEOREM RunsAreBounded == ExecutorSpec => []RunIsBounded
  <1>1. ExecutorInv => RunIsBounded
    <2> SUFFICES ASSUME ExecutorInv, NEW r \in Runs, Active(r)
                 PROVE  now - run[r].since <= RunBound
      BY DEF RunIsBounded
    <2>1. /\ run[r] \in Run /\ now \in Nat /\ wake \in Nat /\ DeadlineFromStart(r)
          /\ FetchesEnd(r) /\ now <= wake + MaxLag
      BY DEF ExecutorInv, ExecutorTypeOK, TickerInTime
    <2>2. LatestAt(run[r].chain) \in Nat /\ LatestAt(run[r].chain) <= RunBound
      BY <2>1, LatestGrows DEF Run
    <2>3. CASE run[r].pc = "http"
      BY <2>1, <2>2, <2>3, Bounds DEF FetchesEnd, Run
    <2>4. CASE InGuestCode(r) /\ Due(r)
      BY <2>1, <2>2, <2>4, Bounds DEF FetchesEnd, Run
    <2>5. CASE ~Due(r)
      BY <2>1, <2>5, NotDueInTime, Bounds DEF Run
    <2>6. QED
      BY <2>1, <2>3, <2>4, <2>5 DEF Active, InGuestCode, Run, RunPC
  <1>2. QED
    BY <1>1, ExecutorInvariant, PTL
=============================================================================
