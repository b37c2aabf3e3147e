------------------------------ MODULE Executor ------------------------------
(***************************************************************************)
(* WasmtimeRunner::run from the blocking thread on: a fresh store with an  *)
(* epoch deadline, instantiation, the guest's invoke and the http_get host *)
(* calls it makes, under the ticker thread that advances the engine epoch. *)
(*                                                                         *)
(* The clock counts units finer than the ticker's sleep, so a store may be *)
(* made anywhere between two increments of the epoch. Wasmtime (external)  *)
(* compares the epoch with the deadline only at function entries and loop  *)
(* headers of guest code: never inside a host call, and not between two    *)
(* host calls of one straight piece of code. Dropping the request future   *)
(* does not stop the blocking thread, so there is no drop here.            *)
(***************************************************************************)
EXTENDS Integers

CONSTANTS
    Runs,           \* guest runs; all share one engine
    Origins,        \* https origins
    Allow,          \* run -> the origins its function may fetch from
    InvokeTime,     \* INVOKE_TIMEOUT, in units of the clock
    EpochTick,      \* EPOCH_TICK
    HttpTime,       \* HTTP_TIMEOUT
    StraightLine,   \* bound: host calls in a row without an epoch check
    MaxLag,         \* bound: what one round of the ticker takes beyond its sleep
    MaxTime         \* bound on the clock

\* epoch_deadline_ticks: rounded down, and a time-out shorter than a tick gets one.
DeadlineTicks == IF InvokeTime \div EpochTick = 0 THEN 1 ELSE InvokeTime \div EpochTick

\* The longest the epoch can take to reach a deadline, and the longest run.
DeadlineBound == DeadlineTicks * (EpochTick + MaxLag)
RunBound == DeadlineBound + StraightLine * HttpTime

ASSUME ExecutorAssumption ==
    /\ InvokeTime \in Nat /\ EpochTick \in Nat \ {0} /\ HttpTime \in Nat \ {0}
    /\ MaxLag \in Nat /\ StraightLine \in Nat \ {0} /\ MaxTime \in Nat
    /\ RunBound <= MaxTime
    /\ Allow \in [Runs -> SUBSET Origins]

VARIABLES
    now,        \* wall clock
    wake,       \* when the ticker's sleep is over
    epoch,      \* Engine's epoch counter
    run         \* run -> where its thread is

clockVars == <<now, wake, epoch>>
executorVars == <<now, wake, epoch, run>>

RunPC == {"idle", "start", "guest", "http", "done"}
RunResults == {"None", "Ok", "PayloadTooLarge", "Invoke", "Trap", "Timeout"}
\* The wasmtime::Trap of an error.
Traps == {"none", "interrupt", "other"}

\* in: the guest code a host call returns to (start function or invoke).
\* chain: host calls since the last epoch check. until: when a fetch gives up.
\* since, ran, trap: history, when the store was made, how long the run took and
\* the trap that ended it.
Run == [pc: RunPC, in: {"start", "guest"}, deadline: Nat, chain: 0..StraightLine,
        until: Nat, since: Nat, ran: Nat, trap: Traps, result: RunResults]

NoRun == [pc |-> "idle", in |-> "start", deadline |-> 0, chain |-> 0, until |-> 0,
          since |-> 0, ran |-> 0, trap |-> "none", result |-> "None"]

ExecutorTypeOK ==
    /\ now \in 0..MaxTime
    /\ wake \in 0..(MaxTime + EpochTick)
    /\ epoch \in 0..MaxTime
    /\ run \in [Runs -> Run]

ExecutorInit ==
    /\ now = 0
    /\ wake = EpochTick
    /\ epoch = 0
    /\ run = [r \in Runs |-> NoRun]

-----------------------------------------------------------------------------
(* How a run ends.                                                         *)

InGuestCode(r) == run[r].pc \in {"start", "guest"}
Due(r) == epoch >= run[r].deadline

\* The store is dropped.
End(r, result, trap) ==
    run' = [run EXCEPT ![r] = [NoRun EXCEPT !.pc = "done", !.result = result,
                                            !.ran = now - run[r].since, !.trap = trap]]

\* is_interrupt: the epoch's trap, or any error whose text says "interrupt", as
\* the backtrace of another trap does when a function of the guest has such a name.
IsInterrupt(trap, text) == trap = "interrupt" \/ text

MapWasmErr(trap, text) ==
    CASE IsInterrupt(trap, text) -> "Timeout"
      [] ~IsInterrupt(trap, text) /\ trap # "none" -> "Trap"
      [] OTHER -> "Invoke"

\* The run ends with an error of wasmtime that carries trap; text is whether its
\* text says "interrupt".
Fail(r, trap) ==
    \E text \in BOOLEAN : End(r, MapWasmErr(trap, text), trap)

-----------------------------------------------------------------------------
(* The blocking thread of a run.                                           *)

NewStoreAbsoluteDeadline(r) ==
    run' = [run EXCEPT ![r].pc = "start", ![r].since = now,
                       ![r].deadline = DeadlineTicks]

NewStorePastDeadline(r) ==
    run' = [run EXCEPT ![r].pc = "start", ![r].since = now,
                       ![r].deadline = epoch - DeadlineTicks]

NewStoreNoDeadline(r) ==
    run' = [run EXCEPT ![r].pc = "start", ![r].since = now,
                       ![r].deadline = epoch + MaxTime]

\* new_store: the deadline counts from the current epoch.
NewStore(r) ==
    run' = [run EXCEPT ![r].pc = "start", ![r].since = now,
                       ![r].deadline = epoch + DeadlineTicks]

\* invoke_sync: an oversize wire request is refused, otherwise a fresh store is
\* made and the module is instantiated.
RunStart(r) ==
    /\ run[r].pc = "idle"
    /\ now + RunBound <= MaxTime
    /\ \/ run' = [run EXCEPT ![r].pc = "done", ![r].result = "PayloadTooLarge"]
       \/ NewStore(r)
    /\ UNCHANGED clockVars

\* Instantiation fails without a trap (limits, link errors) or, its start function
\* done, the input is written and invoke called; growing the memory for the input
\* may fail, which is an Invoke error.
Instantiate(r) ==
    /\ run[r].pc = "start"
    /\ \/ Fail(r, "none")
       \/ run' = [run EXCEPT ![r].pc = "guest"]
    /\ UNCHANGED clockVars

\* Guest code traps, or a data segment does at instantiation.
GuestTraps(r) ==
    /\ InGuestCode(r)
    /\ Fail(r, "other")
    /\ UNCHANGED clockVars

\* invoke returns; a negative or oversize length, or an output the memory cannot
\* hold, is an error.
GuestReturns(r) ==
    /\ run[r].pc = "guest"
    /\ \E result \in {"Ok", "Invoke", "PayloadTooLarge"} : End(r, result, "none")
    /\ UNCHANGED clockVars

\* The epoch check of guest code finds the deadline reached (epoch_deadline_trap).
Interrupt(r) ==
    /\ InGuestCode(r) /\ Due(r)
    /\ Fail(r, "interrupt")
    /\ UNCHANGED clockVars

HttpGetUnlimited(r) ==
    /\ InGuestCode(r)
    /\ \E o \in Allow[r] :
         run' = [run EXCEPT ![r].pc = "http", ![r].in = run[r].pc,
                            ![r].until = now + 2 * HttpTime,
                            ![r].chain = IF Due(r) THEN @ ELSE 1]
    /\ Due(r) => run[r].chain < StraightLine
    /\ UNCHANGED clockVars

\* is_allowed: an empty list denies everything.
IsAllowed(r, origin) == origin \in Allow[r]

\* http_get of an allowed origin: the thread blocks in the fetch. Calls with bad
\* arguments or another origin return at once and are guest computation.
HttpGet(r) ==
    /\ InGuestCode(r)
    /\ Due(r) => run[r].chain < StraightLine
    /\ \E o \in Origins : IsAllowed(r, o)
    /\ run' = [run EXCEPT ![r].pc = "http", ![r].in = run[r].pc,
                       ![r].until = now + HttpTime,
                       ![r].chain = IF Due(r) THEN @ + 1 ELSE 1]
    /\ UNCHANGED clockVars

\* The fetch ends: answered, failed, or timed out.
HttpReturn(r) ==
    /\ run[r].pc = "http"
    /\ run' = [run EXCEPT ![r].pc = run[r].in, ![r].in = "start", ![r].until = 0]
    /\ UNCHANGED clockVars

-----------------------------------------------------------------------------
(* The ticker thread and the clock.                                        *)

\* The ticker's loop: its sleep is over, it increments the epoch and sleeps again,
\* for EpochTick at least.
IncrementEpoch ==
    /\ now >= wake
    /\ epoch' = epoch + 1
    /\ wake' = now + EpochTick
    /\ UNCHANGED <<now, run>>

\* Time passes: never beyond the time-out of a fetch, never while guest code runs
\* past its deadline (a check is at most a straight piece of code away), and the
\* ticker is no later than MaxLag.
TimePasses ==
    /\ now < MaxTime /\ now < wake + MaxLag
    /\ \A r \in Runs :
        /\ InGuestCode(r) => ~Due(r)
        /\ run[r].pc = "http" => now < run[r].until
    /\ now' = now + 1
    /\ UNCHANGED <<wake, epoch, run>>

ExecutorNext ==
    \/ \E r \in Runs :
        \/ RunStart(r) \/ Instantiate(r) \/ GuestTraps(r) \/ GuestReturns(r)
        \/ Interrupt(r) \/ HttpGet(r) \/ HttpReturn(r)
    \/ IncrementEpoch \/ TimePasses

ExecutorSpec == ExecutorInit /\ [][ExecutorNext]_executorVars

\* The ticker thread runs, time passes, fetches end and checks are made. The guest
\* itself owes nothing: it may loop or fetch forever.
FairExecutorSpec ==
    /\ ExecutorSpec
    /\ WF_executorVars(IncrementEpoch) /\ WF_executorVars(TimePasses)
    /\ \A r \in Runs : WF_executorVars(Interrupt(r)) /\ WF_executorVars(HttpReturn(r))

-----------------------------------------------------------------------------
(* Properties.                                                             *)

Active(r) == run[r].pc \notin {"idle", "done"}

\* The epoch stops no guest that has not had its ticks but the first, which may be
\* cut short by any amount: however many runs share the counter, whenever their
\* stores were made between two increments, and however late the ticker was. Of a
\* Timeout that map_wasm_err reads into the text of another trap nothing is said.
NotInterruptedEarly ==
    \A r \in Runs :
        run[r].trap = "interrupt" =>
            run[r].ran >= (DeadlineTicks - 1) * EpochTick

\* A run holds its blocking thread for a bounded time.
RunIsBounded ==
    \A r \in Runs : Active(r) => now - run[r].since <= RunBound

\* An endless guest is stopped: every run ends although the guest owes nothing.
EveryRunEnds ==
    \A r \in Runs : (run[r].pc # "idle") ~> (run[r].pc = "done")

\* "Epoch interruption enforces the 15s wall-clock deadline": no guest runs on
\* past its deadline, the ticker's own delay aside.
WallClockDeadline ==
    \A r \in Runs :
        Active(r) => now - run[r].since <= DeadlineBound
=============================================================================
