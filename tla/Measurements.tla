---------------------------- MODULE Measurements ----------------------------
(***************************************************************************)
(* BasicMeasurements: the counters every client thread updates without a   *)
(* lock after each database call, the status thread prints and main emits  *)
(* and resets between the phases.                                          *)
(*                                                                         *)
(*   core/measurements.{h,cc}, core/db_wrapper.h (which operation a call   *)
(*   is reported as), and their callers in core/ycsbc.cc                   *)
(*                                                                         *)
(* Time is in seconds.  latency_sum_ and last_latency_sum_ are treated     *)
(* like count_ and last_count_ by the code; only the former is kept.       *)
(***************************************************************************)
EXTENDS Integers, Sequences, FiniteSetsExt

CONSTANTS
    Clients,      \* the client threads
    Reports,      \* bound: database calls of a client, for each phase
    Latencies,    \* the latencies a call may have
    ShowStatus,   \* -s
    SecSkip,      \* sec_skip_
    Grace,        \* how far past sec_skip_ reporting may still turn on (10 in the code)
    MaxNow,       \* bound: the clock
    Infinity,     \* numeric_limits<uint64_t>::max()
    U32, U64      \* the moduli of uint and uint64_t arithmetic (2^32, 2^64 in the code)

ASSUME MeasurementsAssumption ==
    /\ IsFiniteSet(Clients)
    /\ Infinity \in Nat /\ Latencies \subseteq 0 .. (Infinity - 1)
    /\ {SecSkip, Grace, MaxNow} \subseteq Nat /\ {U32, U64} \subseteq Nat \ {0}
    /\ Reports \in Seq(Nat) /\ Len(Reports) \in 1 .. 2      \* -load or -run, or both
    /\ ShowStatus \in BOOLEAN

VARIABLES
    count, latency_sum, latency_min, latency_max,   \* count_, ...: per operation
    last_count,   \* last_count_
    report_on,    \* report_on_
    start,        \* start_; Epoch until Start() is called
    now,          \* system_clock::now()
    cli,          \* the client threads: pc and the locals of Report
    spc,          \* the status thread
    left,         \* its locals: the operations still to print,
    done,         \* and whether the latch was open when it last waited
    mpc, phase,   \* main
    period,       \* the Period Count printed last, per operation
    delta,        \* history: how many reports there were since the message before
    seen,         \* history: the count printed last in this phase
    logged,       \* history: what was to be recorded in this phase
    phase_start,  \* history: when Start() was called in this phase, or Epoch
    carried       \* history: recording was on before this phase's Start() was called

stats == <<count, latency_sum, latency_min, latency_max>>
status == <<spc, left, done, period, delta, seen, last_count>>
skiphist == <<phase_start, carried>>
vars == <<stats, status, report_on, start, now, cli, mpc, phase, logged, skiphist>>

Ops == {"READ", "READ_FAILED"}
Epoch == -1      \* a default time_point

Zero == [op \in Ops |-> 0]

Init ==
    /\ count = Zero /\ latency_sum = Zero /\ latency_max = Zero
    /\ latency_min = [op \in Ops |-> Infinity]
    /\ last_count = Zero
    /\ report_on = (SecSkip = 0)
    /\ start = Epoch /\ phase_start = Epoch /\ carried = FALSE
    /\ now = 0
    /\ cli = [c \in Clients |-> [pc |-> "call", n |-> 0, op |-> "READ", lat |-> 0,
                                 prev |-> 0, on |-> FALSE]]
    /\ spc = IF ShowStatus THEN "start" ELSE "closed"
    /\ left = {} /\ done = FALSE
    /\ period = Zero /\ delta = Zero /\ seen = Zero
    /\ mpc = "join" /\ phase = 1
    /\ logged = [op \in Ops |-> [l \in Latencies |-> 0]]

-----------------------------------------------------------------------------
(* A database call through DBWrapper, then Report. *)

(* Mutation: no upper bound, so a start_ that is not set yet counts as long ago. *)
InWindowNoBound == start = Epoch \/ now - start > SecSkip

(* elapse > sec_skip_ && elapse < sec_skip_ + 10; since the epoch it is far more. *)
InWindow == start # Epoch /\ now - start > SecSkip /\ now - start < SecSkip + Grace

(* The call returned and op is what it counts as.  if (!report_on_): the elapsed *)
(* time is read here and report_on_ set in Store.                                *)
Call(c) ==
    /\ cli[c].pc = "call" /\ cli[c].n < Reports[phase]
    /\ \E op \in Ops, l \in Latencies :
         IF report_on
         THEN /\ cli' = [cli EXCEPT ![c].pc = "count", ![c].n = @ + 1, ![c].op = op,
                                    ![c].lat = l]
              /\ logged' = [logged EXCEPT ![op][l] = @ + 1]
              /\ UNCHANGED carried
         ELSE /\ cli' = [cli EXCEPT ![c].pc = "store", ![c].n = @ + 1, ![c].on = InWindow]
              /\ carried' = (carried \/ (InWindow /\ phase_start = Epoch))
              /\ UNCHANGED logged
    /\ UNCHANGED <<stats, status, report_on, start, now, mpc, phase, phase_start>>

Store(c) ==
    /\ cli[c].pc = "store"
    /\ report_on' = cli[c].on
    /\ cli' = [cli EXCEPT ![c].pc = "call", ![c].on = FALSE]
    /\ UNCHANGED <<stats, status, start, now, mpc, phase, logged, skiphist>>

(* count_[op].fetch_add, latency_sum_[op].fetch_add, latency_min_[op].load *)
Count(c) ==
    /\ cli[c].pc = "count"
    /\ count' = [count EXCEPT ![cli[c].op] = (@ + 1) % U32]
    /\ cli' = [cli EXCEPT ![c].pc = "sum"]
    /\ UNCHANGED <<latency_sum, latency_min, latency_max, status, report_on, start, now, mpc,
                   phase, logged, skiphist>>

AddLatency(c) ==
    /\ cli[c].pc = "sum"
    /\ latency_sum' = [latency_sum EXCEPT ![cli[c].op] = @ + cli[c].lat]
    /\ cli' = [cli EXCEPT ![c].pc = "min", ![c].prev = latency_min[cli[c].op]]
    /\ UNCHANGED <<count, latency_min, latency_max, status, report_on, start, now, mpc, phase,
                   logged, skiphist>>

(* Mutation: a plain store, whatever the cell holds by now. *)
SwapAlways(cell, prev) == TRUE

(* compare_exchange succeeds; otherwise it reloads prev, and the loop tests again. *)
Swaps(cell, prev) == cell = prev

UpdateMin(c) ==
    /\ cli[c].pc = "min"
    /\ LET op == cli[c].op  lat == cli[c].lat  prev == cli[c].prev
       IN  \/ /\ prev > lat /\ Swaps(latency_min[op], prev)
              /\ latency_min' = [latency_min EXCEPT ![op] = lat]
              /\ cli' = [cli EXCEPT ![c].pc = "max", ![c].prev = latency_max[op]]
           \/ /\ prev > lat /\ ~Swaps(latency_min[op], prev)
              /\ cli' = [cli EXCEPT ![c].prev = latency_min[op]]
              /\ UNCHANGED latency_min
           \/ /\ prev <= lat
              /\ cli' = [cli EXCEPT ![c].pc = "max", ![c].prev = latency_max[op]]
              /\ UNCHANGED latency_min
    /\ UNCHANGED <<count, latency_sum, latency_max, status, report_on, start, now, mpc, phase,
                   logged, skiphist>>

UpdateMax(c) ==
    /\ cli[c].pc = "max"
    /\ LET op == cli[c].op  lat == cli[c].lat  prev == cli[c].prev
       IN  \/ /\ prev < lat /\ Swaps(latency_max[op], prev)
              /\ latency_max' = [latency_max EXCEPT ![op] = lat]
              /\ cli' = [cli EXCEPT ![c].pc = "call", ![c].prev = 0]
           \/ /\ prev < lat /\ ~Swaps(latency_max[op], prev)
              /\ cli' = [cli EXCEPT ![c].prev = latency_max[op]]
              /\ UNCHANGED latency_max
           \/ /\ prev >= lat
              /\ cli' = [cli EXCEPT ![c].pc = "call", ![c].prev = 0]
              /\ UNCHANGED latency_max
    /\ UNCHANGED <<count, latency_sum, latency_min, status, report_on, start, now, mpc, phase,
                   logged, skiphist>>

-----------------------------------------------------------------------------
(* The status thread: Start, then GetStatusMsg until the latch is open. *)

(* The client threads have returned; before that, the latch is closed. *)
Finished == \A c \in Clients : cli[c].pc = "call" /\ cli[c].n = Reports[phase]

Start ==
    /\ spc = "start"
    /\ start' = now
    /\ phase_start' = now
    /\ spc' = "print" /\ left' = Ops
    /\ UNCHANGED <<stats, done, period, delta, seen, last_count, report_on, now, cli, mpc,
                   phase, logged, carried>>

NextOp == IF "READ" \in left THEN "READ" ELSE "READ_FAILED"      \* in the order of the enum

(* Mutation: the message does not move last_count_. *)
LastCountKept(op, cnt) == last_count

LastCount(op, cnt) == IF cnt = 0 THEN last_count ELSE [last_count EXCEPT ![op] = cnt]

PrintOp ==
    /\ spc = "print" /\ left # {}
    /\ LET op == NextOp  cnt == count[NextOp]
       IN  /\ left' = left \ {op}
           /\ last_count' = LastCount(op, cnt)
           /\ IF cnt = 0                              \* continue
              THEN UNCHANGED <<period, delta, seen>>
              ELSE /\ period' = [period EXCEPT ![op] = (cnt - last_count[op]) % U64]
                   /\ delta' = [delta EXCEPT ![op] = cnt - seen[op]]
                   /\ seen' = [seen EXCEPT ![op] = cnt]
    /\ UNCHANGED <<stats, spc, done, report_on, start, now, cli, mpc, phase, logged, skiphist>>

(* if (done) break; done = latch->AwaitFor(interval); *)
Await ==
    /\ spc = "print" /\ left = {}
    /\ IF done
       THEN spc' = "closed" /\ UNCHANGED <<left, done>>
       ELSE left' = Ops /\ done' = Finished /\ UNCHANGED spc
    /\ UNCHANGED <<stats, period, delta, seen, last_count, report_on, start, now, cli, mpc,
                   phase, logged, skiphist>>

-----------------------------------------------------------------------------
(* main: join the clients and the status thread, Emit, Reset, next phase. *)

Emit ==
    /\ mpc = "join" /\ Finished /\ spc = "closed"
    /\ mpc' = "emit"
    /\ UNCHANGED <<stats, status, report_on, start, now, cli, phase, logged, skiphist>>

ResetStats ==
    /\ count' = Zero /\ latency_sum' = Zero /\ latency_max' = Zero
    /\ latency_min' = [op \in Ops |-> Infinity]

Reset ==
    /\ mpc = "emit" /\ phase < Len(Reports)
    /\ ResetStats
    /\ mpc' = "join" /\ phase' = phase + 1
    /\ cli' = [c \in Clients |-> [cli[c] EXCEPT !.n = 0]]
    /\ spc' = IF ShowStatus THEN "start" ELSE "closed"
    /\ done' = FALSE
    /\ seen' = Zero
    /\ logged' = [op \in Ops |-> [l \in Latencies |-> 0]]
    /\ phase_start' = Epoch
    /\ carried' = (carried \/ report_on)
    /\ UNCHANGED <<left, period, delta, last_count, report_on, start, now>>

Tick ==
    /\ now < MaxNow
    /\ now' = now + 1
    /\ UNCHANGED <<stats, status, report_on, start, cli, mpc, phase, logged, skiphist>>

Next ==
    \/ \E c \in Clients : \/ Call(c) \/ Store(c) \/ Count(c) \/ AddLatency(c)
                          \/ UpdateMin(c) \/ UpdateMax(c)
    \/ Start \/ PrintOp \/ Await
    \/ Emit \/ Reset \/ Tick

Spec == Init /\ [][Next]_vars

-----------------------------------------------------------------------------
(***************************************************************************)
(* What main emits after a phase is exactly what the phase reported:       *)
(* counts (modulo 2^32) and sums lose no update, the compare-and-swap      *)
(* loops leave the true extremes, and nothing of the phase before is left. *)
(***************************************************************************)
EmitExact ==
    mpc = "emit" => \A op \in Ops :
        LET seenLat == {l \in Latencies : logged[op][l] > 0}
        IN  /\ count[op] = MapThenSumSet(LAMBDA l : logged[op][l], Latencies) % U32
            /\ latency_sum[op] = MapThenSumSet(LAMBDA l : l * logged[op][l], Latencies)
            /\ latency_min[op] = IF seenLat = {} THEN Infinity ELSE Min(seenLat)
            /\ latency_max[op] = IF seenLat = {} THEN 0 ELSE Max(seenLat)

(***************************************************************************)
(* Calls are recorded only when Start() of their phase was called more     *)
(* than sec_skip_ seconds ago, although clients do not wait for Start()    *)
(* (measurements.cc:33) and one may store an answer another has overtaken. *)
(* What the second phase takes over from the first is excepted, since      *)
(* Reset leaves report_on_ and start_ alone: recording that was on goes    *)
(* on, and a report before the second Start() compares with the first one. *)
(* Without -s nothing is ever recorded.                                    *)
(***************************************************************************)
SkippedInPhase == phase_start # Epoch /\ now - phase_start > SecSkip

SkipRespected ==
    /\ report_on /\ SecSkip > 0 => SkippedInPhase \/ carried
    /\ carried => phase = 2

(***************************************************************************)
(* last_count_ is "the op count at last measurement" (measurements.h:51):  *)
(* the Period Count of a status message is the number of operations since  *)
(* the message before it, although the clients count while the message is  *)
(* put together.  Only the first message about an operation in the second  *)
(* phase, whose baseline Reset left at the first phase's count, may show   *)
(* anything else.                                                          *)
(***************************************************************************)
PeriodIsDeltaInPhase ==
    \A op \in Ops : period[op] # delta[op] => phase = 2 /\ delta[op] = seen[op]
=============================================================================
