---------------------------- MODULE RateLimiter -----------------------------
(***************************************************************************)
(* The token buckets that pace the client threads, one bucket per client,  *)
(* and the rate-file thread that changes their rates while clients consume *)
(* and sleep.                                                              *)
(*                                                                         *)
(*   utils/rate_limit.h, core/ycsbc.cc (RateLimitThread and the creation   *)
(*   of the limiters), core/client.h (Consume before every operation)      *)
(*                                                                         *)
(* Consume and SetRate are atomic under mutex_, except that a Consume that *)
(* must sleep unlocks first and only then reads tokens_ and r_ again, one  *)
(* after the other.                                                        *)
(***************************************************************************)
EXTENDS Integers, Sequences, FiniteSetsExt

CONSTANTS
    N,           \* threadcount
    Limits,      \* values of limit.ops, in operations per second
    Lines,       \* limit.file: the rate on each line
    ExtraRates,  \* what next_rate, uninitialised, may hold after a final newline;
                 \* {} if the file does not end in a newline
    P,           \* TOKEN_PRECISION (10000 in the code)
    Q,           \* clock ticks per second (10^9 in the code)
    H,           \* int64_t ranges over -H .. H - 1 (2^63 in the code)
    MaxNow,      \* bound: the clock
    MaxOps       \* bound: operations of a client

(* Rates whose tokens fit in int64_t: r * TOKEN_PRECISION is not wrapped below. *)
Rates == 0 .. ((H - 1) \div P)

ASSUME LimiterAssumption ==
    /\ {N, P, Q, H} \subseteq Nat \ {0}
    /\ {MaxNow, MaxOps} \subseteq Nat
    /\ Limits \subseteq Rates /\ Lines \in Seq(Rates) /\ ExtraRates \subseteq Rates

VARIABLES
    ops_limit,         \* limit.ops
    r, tokens, last,   \* r_, tokens_ and last_ of each client's limiter
    now,               \* steady_clock::now()
    pc, wake,          \* each client: where it is, and when its sleep ends,
    seen,              \* and tokens_ as it read it after the unlock
    ops,               \* operations each client was let through to
    line, setting,     \* the rate-file thread: its line, and the limiter to set next
    crashed,           \* the process died on a division by zero
    budget,            \* history: r_ added up over the clock's ticks
    changes,           \* history: rate changes of each limiter
    free               \* history: the limiter has been unlimited

vars == <<ops_limit, r, tokens, last, now, pc, wake, seen, ops, line, setting, crashed, budget,
          changes, free>>

Clients == 0 .. (N - 1)

(* Mutation: the share is rounded up. *)
PerThreadUp == (ops_limit + N - 1) \div N

PerThread == ops_limit \div N
b == PerThread * P      \* b_ is never changed

Init ==
    /\ ops_limit \in Limits
    /\ r = [c \in Clients |-> PerThread * P]
    /\ tokens = [c \in Clients |-> 0]
    /\ last = [c \in Clients |-> 0]
    /\ now = 0
    /\ pc = [c \in Clients |-> "consume"]
    /\ wake = [c \in Clients |-> 0] /\ seen = [c \in Clients |-> 0]
    /\ ops = [c \in Clients |-> 0]
    /\ line = 1
    /\ setting = 0
    /\ crashed = FALSE
    /\ budget = [c \in Clients |-> 0]
    /\ changes = [c \in Clients |-> 0]
    /\ free = [c \in Clients |-> PerThread = 0]

(* Signed overflow, which wraps in the builds; division truncates. *)
Int64(x) == ((x + H) % (2 * H)) - H
Quotient(x, y) == IF x >= 0 THEN x \div y ELSE -((-x) \div y)
Least(x, y) == IF x <= y THEN x ELSE y

-----------------------------------------------------------------------------
(* Mutation: the bucket has no brim. *)
RefilledUncapped(c, rate) == tokens[c] + Quotient(Int64((now - last[c]) * rate), Q)

Refilled(c, rate) ==
    Least(b, tokens[c] + Quotient(Int64((now - last[c]) * rate), Q))

MovedLast(c) == [last EXCEPT ![c] = now]

Consume(c) ==
    /\ ~crashed /\ pc[c] = "consume" /\ ops[c] < MaxOps
    /\ IF r[c] <= 0
       THEN /\ ops' = [ops EXCEPT ![c] = @ + 1]
            /\ UNCHANGED <<tokens, last, pc>>
       ELSE LET rest == Refilled(c, r[c]) - P
            IN  /\ tokens' = [tokens EXCEPT ![c] = rest]
                /\ last' = MovedLast(c)
                /\ IF rest < 0
                   THEN pc' = [pc EXCEPT ![c] = "unlocked"] /\ UNCHANGED ops
                   ELSE ops' = [ops EXCEPT ![c] = @ + 1] /\ UNCHANGED pc
    /\ UNCHANGED <<ops_limit, r, now, wake, seen, line, setting, crashed, budget, changes, free>>

(* Mutation: seconds are taken for nanoseconds. *)
WaitTimeSeconds(c) == Quotient(Int64(-seen[c]), r[c])

(* -tokens_ * 1000000000 / r_ *)
WaitTime(c) == Quotient(Int64(-seen[c] * Q), r[c])

(* wait_time is computed after lock.unlock(): tokens_ is read, then r_. *)
LoadTokens(c) ==
    /\ ~crashed /\ pc[c] = "unlocked"
    /\ seen' = [seen EXCEPT ![c] = tokens[c]]
    /\ pc' = [pc EXCEPT ![c] = "loaded"]
    /\ UNCHANGED <<ops_limit, r, tokens, last, now, wake, ops, line, setting, crashed, budget,
                   changes, free>>

ComputeWait(c) ==
    /\ ~crashed /\ pc[c] = "loaded"
    /\ IF r[c] = 0
       THEN crashed' = TRUE /\ UNCHANGED <<pc, wake, seen>>
       ELSE /\ wake' = [wake EXCEPT ![c] = now + WaitTime(c)]
            /\ seen' = [seen EXCEPT ![c] = 0]
            /\ pc' = [pc EXCEPT ![c] = "sleep"]
            /\ UNCHANGED crashed
    /\ UNCHANGED <<ops_limit, r, tokens, last, now, ops, line, setting, budget, changes, free>>

Wake(c) ==
    /\ ~crashed /\ pc[c] = "sleep" /\ now >= wake[c]
    /\ ops' = [ops EXCEPT ![c] = @ + 1]
    /\ pc' = [pc EXCEPT ![c] = "consume"]
    /\ wake' = [wake EXCEPT ![c] = 0]
    /\ UNCHANGED <<ops_limit, r, tokens, last, now, seen, line, setting, crashed, budget, changes,
                   free>>

-----------------------------------------------------------------------------
(* RateLimitThread: for every line, SetRate(next_rate / num_threads) on each *)
(* limiter in turn.  While it waits for the time of the line, clients run.   *)
NextRates ==
    IF line <= Len(Lines) THEN {Lines[line]}
    ELSE IF line = Len(Lines) + 1 THEN ExtraRates ELSE {}

SetRate ==
    /\ ~crashed
    /\ \E next_rate \in NextRates :
         LET rate == next_rate \div N
         IN  /\ tokens' = [tokens EXCEPT ![setting] = Refilled(setting, r[setting] * P)]
             /\ last' = MovedLast(setting)
             /\ r' = [r EXCEPT ![setting] = rate * P]
             /\ free' = [free EXCEPT ![setting] = @ \/ rate = 0]
    /\ changes' = [changes EXCEPT ![setting] = @ + 1]
    /\ IF setting + 1 < N
       THEN setting' = setting + 1 /\ UNCHANGED line
       ELSE setting' = 0 /\ line' = line + 1
    /\ UNCHANGED <<ops_limit, now, pc, wake, seen, ops, crashed, budget>>

Tick ==
    /\ ~crashed /\ now < MaxNow
    /\ now' = now + 1
    /\ budget' = [c \in Clients |-> budget[c] + r[c]]
    /\ UNCHANGED <<ops_limit, r, tokens, last, pc, wake, seen, ops, line, setting, crashed, changes,
                   free>>

Next ==
    \/ \E c \in Clients : Consume(c) \/ LoadTokens(c) \/ ComputeWait(c) \/ Wake(c)
    \/ SetRate
    \/ Tick

Spec == Init /\ [][Next]_vars

-----------------------------------------------------------------------------
TypeOK ==
    /\ ops_limit \in Limits
    /\ r \in [Clients -> Nat]
    /\ tokens \in [Clients -> Int] /\ \A c \in Clients : tokens[c] <= b
    /\ last \in [Clients -> 0 .. now]
    /\ now \in 0 .. MaxNow
    /\ pc \in [Clients -> {"consume", "unlocked", "loaded", "sleep"}]
    /\ wake \in [Clients -> Int] /\ seen \in [Clients -> Int]
    /\ ops \in [Clients -> 0 .. MaxOps]
    /\ line \in 1 .. (Len(Lines) + 2) /\ setting \in Clients
    /\ crashed \in BOOLEAN
    /\ budget \in [Clients -> Nat] /\ changes \in [Clients -> Nat]
    /\ free \in [Clients -> BOOLEAN]

Total(f) == MapThenSumSet(LAMBDA c : f[c], Clients)

(***************************************************************************)
(* limit.ops is "initial ops per second, unlimited if <= 0" (ycsbc.cc:147):*)
(* until the rate file changes a rate, the clients together are let        *)
(* through to at most limit.ops operations a second, up to the clock's     *)
(* resolution.  A limit below the number of clients is none at all: each   *)
(* client's share of it is 0.                                              *)
(***************************************************************************)
LimitRespected ==
    ops_limit >= N /\ (\A c \in Clients : changes[c] = 0)
        => Total(ops) * Q <= ops_limit * (now + 1)

(* What r_ may ever be, and the most of it. *)
RateSet == {PerThread * P} \cup {(Lines[i] \div N) * P : i \in 1 .. Len(Lines)}
               \cup {(x \div N) * P : x \in ExtraRates}
MaxRate == CHOOSE x \in RateSet : \A y \in RateSet : y <= x

(***************************************************************************)
(* A "token bucket rate limiter" (rate_limit.h:22) whose rate changes lets *)
(* a client through to what the rates add up to over time, plus at most    *)
(* one operation for each change that finds the client waiting - and, as   *)
(* SetRate refills with TOKEN_PRECISION counted twice, one full bucket for *)
(* each change, however long the time before it.                           *)
(***************************************************************************)
BurstBounded ==
    \A c \in Clients : ~free[c] =>
        ops[c] * P * Q <= budget[c] + MaxRate + changes[c] * (P + b) * Q

(***************************************************************************)
(* A client owes at most the one operation it is waiting for, and one more *)
(* for each change of rate during a sleep: rounding wait_time down does    *)
(* not add up from operation to operation.                                 *)
(***************************************************************************)
DebtBounded ==
    \A c \in Clients : tokens[c] * Q >= -((1 + changes[c]) * P * Q + MaxRate + Q)
=============================================================================
