-------------------------- MODULE RateLimiterProofs --------------------------
(***************************************************************************)
(* The token buckets, for every number of clients, every limit, every rate *)
(* file and every resolution of the clock.                                 *)
(*                                                                         *)
(*   1. what the int64_t arithmetic computes                               *)
(*   2. types, and the largest rate                                        *)
(*   3. what each step does to the amounts that the invariants compare     *)
(*   4. the invariants of one limiter, kept by every step                  *)
(*   5. the theorems                                                       *)
(***************************************************************************)
EXTENDS RateLimiter, SumLemmas

-----------------------------------------------------------------------------
(* 1. Arithmetic. *)

(* The constants that are numbers. *)
LEMMA Constants ==
    /\ N \in Nat /\ P \in Nat /\ Q \in Nat /\ H \in Nat /\ N > 0 /\ P > 0 /\ Q > 0 /\ H > 0
    /\ MaxNow \in Nat /\ MaxOps \in Nat
BY LimiterAssumption

(* Int64 is the identity on what int64_t holds, and never more than a natural. *)
LEMMA Int64Fits == ASSUME NEW x \in Int, -H <= x, x < H PROVE Int64(x) = x
<1>1. x + H \in 0 .. (2 * H - 1)
  BY Constants
<1>2. \A y \in Nat, z \in Nat : y < z => y % z = y
  OBVIOUS
<1>3. (x + H) % (2 * H) = x + H
  BY <1>1, <1>2, Constants
<1> QED BY <1>3, Constants DEF Int64

(* An overflow of a natural product wraps to less than the product, never to more. *)
LEMMA Int64Below == ASSUME NEW x \in Nat PROVE Int64(x) \in Int /\ Int64(x) <= x
<1>1. \A y \in Nat, z \in Nat : z > 0 => y % z \in Nat /\ y % z <= y
  OBVIOUS
<1>2. (x + H) % (2 * H) \in Nat /\ (x + H) % (2 * H) <= x + H
  BY <1>1, Constants
<1> QED BY <1>2, Constants DEF Int64

(* Wrapped or not, the result is an integer. *)
LEMMA Int64Type == ASSUME NEW x \in Int PROVE Int64(x) \in Int
<1>1. \A y \in Int, z \in Nat : z > 0 => y % z \in Int
  OBVIOUS
<1> QED BY <1>1, Constants DEF Int64

(* C++ division, which truncates. *)
LEMMA QuotientType ==
    ASSUME NEW x \in Int, NEW y \in Nat, y > 0
    PROVE  Quotient(x, y) \in Int /\ (x >= 0 => Quotient(x, y) = x \div y)
           /\ (x < 0 => Quotient(x, y) * y <= 0)
<1>1. CASE x >= 0
  BY <1>1 DEF Quotient
<1>2. CASE x < 0
  <2>1. PICK q \in Nat : q = (-x) \div y
    BY <1>2
  <2>2. Quotient(x, y) = -q
    BY <1>2, <2>1 DEF Quotient
  <2>3. (-q) * y <= 0
    OBVIOUS
  <2> QED BY <1>2, <2>2, <2>3
<1> QED BY <1>1, <1>2

(* Whether or not the product wraps, refilling never adds more than was earned. *)
LEMMA EarnedAtMost ==
    ASSUME NEW x \in Nat
    PROVE  Quotient(Int64(x), Q) \in Int /\ Quotient(Int64(x), Q) * Q <= x
<1>1. PICK z \in Int : z = Int64(x) /\ z <= x
  BY Int64Below
<1>2. Quotient(z, Q) \in Int /\ (z >= 0 => Quotient(z, Q) = z \div Q)
      /\ (z < 0 => Quotient(z, Q) * Q <= 0)
  BY QuotientType, Constants
<1>3. CASE z >= 0
  <2>1. (z \div Q) * Q <= z
    BY <1>3, DivisionRounds, Constants
  <2> QED BY <1>1, <1>2, <1>3, <2>1, Constants
<1>4. CASE z < 0
  <2>1. Quotient(z, Q) * Q \in Int
    BY <1>2, Constants, IntTimes
  <2> QED BY <1>1, <1>2, <1>4, <2>1
<1> QED BY <1>3, <1>4

(* If it fits, refilling adds what was earned, rounded down. *)
LEMMA EarnedExactly ==
    ASSUME NEW x \in Nat, x < H
    PROVE  Quotient(Int64(x), Q) = x \div Q
<1>1. Int64(x) = x
  BY Int64Fits, Constants
<1> QED BY <1>1, QuotientType, Constants

-----------------------------------------------------------------------------
(* 2. Types. *)

(* There are N clients, and main has their shares of the limit. *)
LEMMA ClientsFinite == IsFiniteSet(Clients) /\ Cardinality(Clients) = N
<1>1. 0 \in Int /\ N - 1 \in Int /\ ~(0 > N - 1) /\ N - 1 - 0 + 1 = N
  BY Constants
<1> QED BY <1>1, FS_Interval, Zenon DEF Clients

(* What a line of the rate file becomes for a client: a natural that int64_t holds. *)
LEMMA RateIsNat == \A x \in Rates : x \in Nat /\ x \div N \in Nat /\ (x \div N) * P \in Nat
                                    /\ (x \div N) * P < H
<1> SUFFICES ASSUME NEW x \in Rates
             PROVE  x \in Nat /\ x \div N \in Nat /\ (x \div N) * P \in Nat /\ (x \div N) * P < H
  OBVIOUS
<1>1. PICK k \in Nat : k = (H - 1) \div P /\ k * P <= H - 1
  BY Constants, DivisionRounds
<1>2. x \in Nat /\ x <= k
  BY <1>1 DEF Rates
<1>3. PICK q \in Nat : q = x \div N /\ q * N <= x
  BY <1>2, DivisionRounds, Constants
<1>4. q <= x
  <2>1. q <= q * N
    BY Constants
  <2> QED BY <1>2, <1>3, <2>1, Constants
<1>5. q * P <= k * P
  BY <1>2, <1>4, TimesMonotone, Constants
<1>6. q * P \in Nat /\ k * P \in Nat
  BY Constants, NatTimes
<1> QED BY <1>1, <1>2, <1>3, <1>5, <1>6, Constants

(* The least that TypeOK says of a client, with what keeps ops within its bound. *)
Types ==
    /\ TypeOK
    /\ \A c \in Clients : pc[c] # "consume" => ops[c] < MaxOps
    /\ \A c \in Clients : r[c] \in RateSet

(* What -p limit.ops becomes for a client, in whole and in parts of an operation. *)
LEMMA ShareIsNat == ASSUME ops_limit \in Limits PROVE PerThread \in Nat /\ b \in Nat /\ b < H
<1>1. ops_limit \in Rates
  BY LimiterAssumption
<1> QED BY <1>1, RateIsNat DEF PerThread, b

(* Every rate that a limiter may have is a natural that int64_t holds. *)
LEMMA RateSetIsNat == ASSUME ops_limit \in Limits PROVE \A x \in RateSet : x \in Nat /\ x < H
<1>1. PerThread * P \in Nat /\ PerThread * P < H
  BY ShareIsNat DEF b
<1>2. \A i \in 1 .. Len(Lines) : Lines[i] \in Rates
  BY LimiterAssumption
<1>3. \A x \in ExtraRates : x \in Rates
  BY LimiterAssumption
<1> QED BY <1>1, <1>2, <1>3, RateIsNat DEF RateSet

(* The rates are bounded, so one of them is the largest. *)
LEMMA MaxRateIsMax ==
    ASSUME ops_limit \in Limits
    PROVE  MaxRate \in Nat /\ \A x \in RateSet : x <= MaxRate
<1> DEFINE Gaps == {H - x : x \in RateSet}
<1>1. \A x \in RateSet : x \in Nat /\ x < H
  BY RateSetIsNat
<1>2. PerThread * P \in RateSet
  BY DEF RateSet
<1> HIDE DEF Gaps
<1>3. Gaps \subseteq Nat /\ Gaps # {}
  BY <1>1, <1>2, Constants DEF Gaps
<1>4. PICK g \in Gaps : \A k \in Gaps : k >= g
  BY <1>3, LeastNat
<1>5. PICK m \in RateSet : g = H - m
  BY <1>4 DEF Gaps
<1>6. \A x \in RateSet : x <= m
  <2> SUFFICES ASSUME NEW x \in RateSet PROVE x <= m
    OBVIOUS
  <2>1. H - x \in Gaps
    BY DEF Gaps
  <2>2. H - x >= H - m
    BY <2>1, <1>4, <1>5
  <2> QED BY <2>2, <1>1, Constants
<1>7. \E x \in RateSet : \A y \in RateSet : y <= x
  BY <1>6
<1>8. MaxRate \in RateSet /\ \A y \in RateSet : y <= MaxRate
  BY <1>7, Zenon DEF MaxRate
<1> QED BY <1>1, <1>8

(* What SetRate may set. *)
LEMMA NextRateInSet ==
    ASSUME line \in 1 .. (Len(Lines) + 2), NEW x \in NextRates
    PROVE  (x \div N) * P \in RateSet /\ line <= Len(Lines) + 1 /\ x \in Rates
<1>0. Len(Lines) \in Nat
  BY LimiterAssumption
<1>1. CASE line <= Len(Lines)
  BY <1>0, <1>1, LimiterAssumption DEF NextRates, RateSet
<1>2. CASE line > Len(Lines)
  <2>1. line = Len(Lines) + 1 /\ x \in ExtraRates
    BY <1>0, <1>2 DEF NextRates
  <2> QED BY <2>1, LimiterAssumption DEF RateSet
<1> QED BY <1>0, <1>1, <1>2

(* Amounts stored in the bucket never rise above its brim. *)
LEMMA RefilledType ==
    ASSUME TypeOK, NEW c \in Clients, NEW rate \in Nat
    PROVE  Refilled(c, rate) \in Int /\ Refilled(c, rate) <= b
<1>1. b \in Nat /\ tokens[c] \in Int
  BY ShareIsNat DEF TypeOK
<1>2. now - last[c] \in Nat
  BY Constants, SMTT(60) DEF TypeOK
<1>3. (now - last[c]) * rate \in Nat
  BY <1>2, NatTimes
<1>4. Quotient(Int64((now - last[c]) * rate), Q) \in Int
  BY <1>3, EarnedAtMost
<1> QED BY <1>1, <1>4 DEF Refilled, Least

(* What the constructor leaves is well typed. *)
LEMMA TypesInit == Init => Types
<1> SUFFICES ASSUME Init PROVE Types
  OBVIOUS
<1>1. PerThread \in Nat /\ b \in Nat
  BY ShareIsNat DEF Init
<1>2. 0 \in Clients
  BY Constants DEF Clients
<1>3. Len(Lines) \in Nat
  BY LimiterAssumption
<1>4. PerThread * P \in Nat /\ PerThread * P \in RateSet
  BY <1>1 DEF b, RateSet
<1> QED BY <1>1, <1>2, <1>3, <1>4, Constants DEF Init, Types, TypeOK

(* No step changes the limit, the brim or the set of rates. *)
LEMMA SettingsKept ==
    ASSUME [Next]_vars
    PROVE  /\ ops_limit' = ops_limit /\ PerThread' = PerThread /\ b' = b
           /\ RateSet' = RateSet /\ MaxRate' = MaxRate
<1>1. ops_limit' = ops_limit
  BY DEF Next, vars, Consume, LoadTokens, ComputeWait, Wake, SetRate, Tick
<1> QED BY <1>1 DEF PerThread, b, RateSet, MaxRate

(* An operation that a client is let through to keeps the count within its bound. *)
LEMMA OpsCounted ==
    ASSUME Types, NEW c \in Clients, ops[c] < MaxOps, ops' = [ops EXCEPT ![c] = @ + 1],
           pc' = [pc EXCEPT ![c] = "consume"]
    PROVE  /\ ops' \in [Clients -> 0 .. MaxOps]
           /\ pc' \in [Clients -> {"consume", "unlocked", "loaded", "sleep"}]
           /\ \A d \in Clients : pc'[d] # "consume" => ops'[d] < MaxOps
<1>1. ops \in [Clients -> 0 .. MaxOps] /\ pc \in [Clients -> {"consume", "unlocked", "loaded", "sleep"}]
      /\ \A d \in Clients : pc[d] # "consume" => ops[d] < MaxOps
  BY DEF Types, TypeOK
<1>2. PICK n \in 0 .. MaxOps : n = ops[c] + 1
  BY <1>1, Constants
<1>3. ops' = [ops EXCEPT ![c] = n]
  BY <1>2
<1> QED BY <1>1, <1>3

(* Consume keeps the types: the refill is capped by the bucket before a token is taken. *)
LEMMA TypesConsume ==
    ASSUME Types, NEW c \in Clients, Consume(c), ops_limit' = ops_limit, b' = b, RateSet' = RateSet
    PROVE  Types'
<1>1. b \in Nat /\ r[c] \in Nat
  BY ShareIsNat DEF Types, TypeOK
<1>2. ASSUME r[c] > 0 PROVE Refilled(c, r[c]) - P \in Int /\ Refilled(c, r[c]) - P <= b
  BY <1>1, RefilledType, Constants DEF Types
<1> DEFINE t == Refilled(c, r[c]) - P
<1> HIDE DEF t
<1>3. CASE r[c] <= 0
  <2>1. ops[c] < MaxOps /\ pc' = pc /\ pc[c] = "consume" /\ ops' = [ops EXCEPT ![c] = @ + 1]
    BY <1>3 DEF Consume
  <2>2. pc' = [pc EXCEPT ![c] = "consume"]
    BY <2>1 DEF Types, TypeOK
  <2>3. /\ ops' \in [Clients -> 0 .. MaxOps]
        /\ pc' \in [Clients -> {"consume", "unlocked", "loaded", "sleep"}]
        /\ \A d \in Clients : pc'[d] # "consume" => ops'[d] < MaxOps
    BY <2>1, <2>2, OpsCounted
  <2>4. UNCHANGED <<ops_limit, r, tokens, last, now, wake, seen, line, setting, crashed, budget,
                    changes, free>>
    BY <1>3 DEF Consume
  <2> QED BY <2>3, <2>4 DEF Types, TypeOK
<1>4. CASE r[c] > 0
  <2>1. t \in Int /\ t <= b
    BY <1>2, <1>4 DEF t
  <2>2. tokens' = [tokens EXCEPT ![c] = t] /\ last' = [last EXCEPT ![c] = now]
    BY <1>1, <1>4 DEF Consume, MovedLast, t
  <2>3. \/ pc' = [pc EXCEPT ![c] = "unlocked"] /\ ops' = ops
        \/ ops' = [ops EXCEPT ![c] = @ + 1] /\ pc' = pc
    BY <1>1, <1>4 DEF Consume
  <2>4. ops[c] < MaxOps /\ pc[c] = "consume"
    BY DEF Consume
  <2>5. UNCHANGED <<ops_limit, r, now, wake, seen, line, setting, crashed, budget, changes, free>>
    BY DEF Consume
  <2>6. tokens' \in [Clients -> Int] /\ \A d \in Clients : tokens'[d] <= b
    BY <2>1, <2>2 DEF Types, TypeOK
  <2>7. last' \in [Clients -> 0 .. now]
    BY <2>2, Constants DEF Types, TypeOK
  <2>8. /\ pc' \in [Clients -> {"consume", "unlocked", "loaded", "sleep"}]
        /\ ops' \in [Clients -> 0 .. MaxOps]
        /\ \A d \in Clients : pc'[d] # "consume" => ops'[d] < MaxOps
    <3>1. CASE pc' = [pc EXCEPT ![c] = "unlocked"] /\ ops' = ops
      BY <3>1, <2>4, Constants DEF Types, TypeOK
    <3>2. CASE ops' = [ops EXCEPT ![c] = @ + 1] /\ pc' = pc
      <4>1. pc' = [pc EXCEPT ![c] = "consume"]
        BY <3>2, <2>4 DEF Types, TypeOK
      <4> QED BY <4>1, <3>2, <2>4, OpsCounted
    <3> QED BY <2>3, <3>1, <3>2
  <2> QED BY <2>5, <2>6, <2>7, <2>8 DEF Types, TypeOK
<1> QED BY <1>1, <1>3, <1>4

(* The first read after the unlock keeps the types. *)
LEMMA TypesLoadTokens ==
    ASSUME Types, NEW c \in Clients, LoadTokens(c), ops_limit' = ops_limit, b' = b, RateSet' = RateSet
    PROVE  Types'
<1>1. seen' = [seen EXCEPT ![c] = tokens[c]] /\ pc' = [pc EXCEPT ![c] = "loaded"] /\ pc[c] = "unlocked"
      /\ UNCHANGED <<ops_limit, r, tokens, last, now, wake, ops, line, setting, crashed, budget,
                     changes, free>>
  BY DEF LoadTokens
<1>2. seen' \in [Clients -> Int]
  BY <1>1 DEF Types, TypeOK
<1>3. pc' \in [Clients -> {"consume", "unlocked", "loaded", "sleep"}]
      /\ \A d \in Clients : pc'[d] # "consume" => ops'[d] < MaxOps
  BY <1>1 DEF Types, TypeOK
<1> QED BY <1>1, <1>2, <1>3 DEF Types, TypeOK

(* The computation of the sleep keeps the types. *)
LEMMA TypesComputeWait ==
    ASSUME Types, NEW c \in Clients, ComputeWait(c), ops_limit' = ops_limit, b' = b, RateSet' = RateSet
    PROVE  Types'
<1>1. r[c] \in Nat /\ seen[c] \in Int /\ now \in Nat
  BY Constants DEF Types, TypeOK
<1>2. ASSUME r[c] # 0 PROVE now + WaitTime(c) \in Int
  <2>1. -seen[c] * Q \in Int
    BY <1>1, Constants, IntTimes
  <2>2. Int64(-seen[c] * Q) \in Int
    BY <2>1, Int64Type
  <2> QED BY <1>1, <1>2, <2>2, QuotientType DEF WaitTime
<1> DEFINE w == now + WaitTime(c)
<1>3. r[c] # 0 => w \in Int
  BY <1>2
<1>4. \/ crashed' = TRUE /\ UNCHANGED <<pc, wake, seen>>
      \/ /\ r[c] # 0 /\ wake' = [wake EXCEPT ![c] = w] /\ pc' = [pc EXCEPT ![c] = "sleep"]
         /\ crashed' = crashed /\ seen' = [seen EXCEPT ![c] = 0]
  BY DEF ComputeWait
<1> HIDE DEF w
<1>5. UNCHANGED <<ops_limit, r, tokens, last, now, ops, line, setting, budget, changes, free>>
      /\ pc[c] = "loaded"
  BY DEF ComputeWait
<1>6. wake' \in [Clients -> Int] /\ seen' \in [Clients -> Int] /\ crashed' \in BOOLEAN
  <2>1. CASE crashed' = TRUE /\ UNCHANGED <<pc, wake, seen>>
    BY <2>1, Zenon DEF Types, TypeOK
  <2>2. CASE /\ r[c] # 0 /\ wake' = [wake EXCEPT ![c] = w] /\ crashed' = crashed
             /\ seen' = [seen EXCEPT ![c] = 0]
    <3>1. wake \in [Clients -> Int] /\ seen \in [Clients -> Int] /\ crashed \in BOOLEAN /\ w \in Int
      BY <1>3, <2>2 DEF Types, TypeOK
    <3>2. wake' \in [Clients -> Int]
      BY <2>2, <3>1
    <3>3. seen' \in [Clients -> Int]
      BY <2>2, <3>1
    <3> QED BY <2>2, <3>1, <3>2, <3>3
  <2> QED BY <1>4, <2>1, <2>2
<1>7. pc' \in [Clients -> {"consume", "unlocked", "loaded", "sleep"}]
      /\ \A d \in Clients : pc'[d] # "consume" => ops'[d] < MaxOps
  BY <1>4, <1>5 DEF Types, TypeOK
<1> HIDE <1>4
<1> QED BY <1>5, <1>6, <1>7 DEF Types, TypeOK

(* The end of the sleep keeps the types. *)
LEMMA TypesWake ==
    ASSUME Types, NEW c \in Clients, Wake(c), ops_limit' = ops_limit, b' = b, RateSet' = RateSet
    PROVE  Types'
<1>1. ops[c] < MaxOps
  BY DEF Types, Wake
<1>2. ops' = [ops EXCEPT ![c] = @ + 1] /\ pc' = [pc EXCEPT ![c] = "consume"]
      /\ wake' = [wake EXCEPT ![c] = 0]
  BY DEF Wake
<1>3. /\ ops' \in [Clients -> 0 .. MaxOps]
      /\ pc' \in [Clients -> {"consume", "unlocked", "loaded", "sleep"}]
      /\ \A d \in Clients : pc'[d] # "consume" => ops'[d] < MaxOps
  BY <1>1, <1>2, OpsCounted
<1>4. wake' \in [Clients -> Int]
  BY <1>2 DEF Types, TypeOK
<1>5. UNCHANGED <<ops_limit, r, tokens, last, now, seen, line, setting, crashed, budget, changes,
                  free>>
  BY DEF Wake
<1> QED BY <1>3, <1>4, <1>5 DEF Types, TypeOK

(* SetRate keeps the types: the refill at the old rate is capped by the bucket. *)
LEMMA TypesSetRate ==
    ASSUME Types, SetRate, ops_limit' = ops_limit, b' = b, RateSet' = RateSet
    PROVE  Types'
<1>1. PICK x \in NextRates :
        /\ tokens' = [tokens EXCEPT ![setting] = Refilled(setting, r[setting] * P)]
        /\ last' = MovedLast(setting)
        /\ r' = [r EXCEPT ![setting] = (x \div N) * P]
        /\ free' = [free EXCEPT ![setting] = @ \/ x \div N = 0]
  BY DEF SetRate
<1>2. line \in 1 .. (Len(Lines) + 2) /\ setting \in Clients /\ r[setting] \in Nat
  BY DEF Types, TypeOK
<1>3. (x \div N) * P \in RateSet /\ line <= Len(Lines) + 1 /\ (x \div N) * P \in Nat
  BY <1>2, NextRateInSet, RateIsNat
<1>4. r[setting] * P \in Nat
  BY <1>2, Constants, NatTimes
<1> DEFINE t == Refilled(setting, r[setting] * P)
           y == (x \div N) * P
<1>5. t \in Int /\ t <= b
  BY <1>2, <1>4, RefilledType DEF Types
<1>6. y \in RateSet /\ y \in Nat
  BY <1>3
<1> HIDE DEF t, y
<1>7. tokens' \in [Clients -> Int] /\ \A d \in Clients : tokens'[d] <= b
  BY <1>1, <1>5 DEF Types, TypeOK, t
<1>8. last' \in [Clients -> 0 .. now]
  BY <1>1, Constants DEF Types, TypeOK, MovedLast
<1>9. r' \in [Clients -> Nat] /\ \A d \in Clients : r'[d] \in RateSet
  BY <1>1, <1>6 DEF Types, TypeOK, y
<1>10. free' \in [Clients -> BOOLEAN]
  BY <1>1, Zenon DEF Types, TypeOK
<1>11. changes' \in [Clients -> Nat]
  BY DEF Types, TypeOK, SetRate
<1>12. line' \in 1 .. (Len(Lines) + 2) /\ setting' \in Clients
  <2>1. Len(Lines) \in Nat
    BY LimiterAssumption
  <2> QED BY <1>2, <1>3, <2>1, Constants DEF SetRate, Clients
<1>13. UNCHANGED <<ops_limit, now, pc, wake, seen, ops, crashed, budget>>
  BY DEF SetRate
<1> HIDE <1>1
<1> QED BY <1>7, <1>8, <1>9, <1>10, <1>11, <1>12, <1>13 DEF Types, TypeOK

(* The clock keeps the types, and leaves last behind it. *)
LEMMA TypesTick ==
    ASSUME Types, Tick, ops_limit' = ops_limit, b' = b, RateSet' = RateSet
    PROVE  Types'
<1>1. now \in Nat /\ now' = now + 1 /\ now' <= MaxNow
  BY Constants DEF Types, TypeOK, Tick
<1>2. last' \in [Clients -> 0 .. now']
  BY <1>1 DEF Types, TypeOK, Tick
<1>3. budget' \in [Clients -> Nat]
  <2>1. \A d \in Clients : budget[d] \in Nat /\ r[d] \in Nat
    BY DEF Types, TypeOK
  <2>2. \A d \in Clients : budget[d] + r[d] \in Nat
    BY <2>1
  <2>3. budget' = [d \in Clients |-> budget[d] + r[d]]
    BY DEF Tick
  <2> QED BY <2>2, <2>3, Zenon
<1>4. UNCHANGED <<ops_limit, r, tokens, last, pc, wake, seen, ops, line, setting, crashed, changes,
                  free>>
  BY DEF Tick
<1> QED BY <1>1, <1>2, <1>3, <1>4, Constants, SMTT(60) DEF Types, TypeOK

(* Every step keeps the types. *)
LEMMA TypesStep == Types /\ [Next]_vars => Types'
<1> SUFFICES ASSUME Types, [Next]_vars PROVE Types'
  OBVIOUS
<1>1. ops_limit' = ops_limit /\ b' = b /\ RateSet' = RateSet
  BY SettingsKept
<1>2. ASSUME NEW c \in Clients, Consume(c) PROVE Types'
  BY <1>1, <1>2, TypesConsume
<1>3. ASSUME NEW c \in Clients, LoadTokens(c) \/ ComputeWait(c) PROVE Types'
  BY <1>1, <1>3, TypesLoadTokens, TypesComputeWait
<1>4. ASSUME NEW c \in Clients, Wake(c) PROVE Types'
  BY <1>1, <1>4, TypesWake
<1>5. CASE SetRate
  BY <1>1, <1>5, TypesSetRate
<1>6. CASE Tick
  BY <1>1, <1>6, TypesTick
<1>7. CASE UNCHANGED vars
  BY <1>1, <1>7 DEF vars, Types, TypeOK
<1> QED BY <1>2, <1>3, <1>4, <1>5, <1>6, <1>7 DEF Next

(***************************************************************************)
(* The buckets keep their types whatever the limit, the rate file and the  *)
(* interleaving: in particular no refill fills a bucket past its brim, and *)
(* the rate-file thread stops after the line past the last.                *)
(***************************************************************************)
THEOREM LimiterTypes == Spec => []TypeOK
<1>1. Types => TypeOK
  BY DEF Types
<1> QED BY <1>1, TypesInit, TypesStep, PTL DEF Spec

-----------------------------------------------------------------------------
(* 3. Amounts, in tokens times clock ticks per second. *)

(* What the bucket holds, what it has earned since last_, that amount       *)
(* rounded as a refill would round it, and what it earns up to the wake-up. *)
Held(c) == tokens[c] * Q
Accrued(c) == (now - last[c]) * r[c]
Whole(c) == (Accrued(c) \div Q) * Q
Slept(c) == (wake[c] - last[c]) * r[c]

(* The operations that a client was charged for: the one it waits for is one of them. *)
Charged(c) == ops[c] + (IF pc[c] = "consume" THEN 0 ELSE 1)

(* What is left of the rates' sum and of the allowance for the changes, and *)
(* what the changes add to the debt that a client may have.                 *)
Surplus(c) == budget[c] + changes[c] * ((P + b) * Q) - Charged(c) * (P * Q)
Forgiven(c) == changes[c] * (P * Q)

(* The locals of one client, as they are in this state. *)
Locals(c) == <<tokens[c], last[c], r[c], wake[c], seen[c], ops[c], pc[c], budget[c], changes[c],
               free[c]>>

(* The types of one client's limiter, as the leaves below need them. *)
LEMMA LocalTypes ==
    ASSUME Types, NEW c \in Clients
    PROVE  /\ tokens[c] \in Int /\ wake[c] \in Int /\ seen[c] \in Int /\ r[c] \in Nat /\ budget[c] \in Nat
           /\ changes[c] \in Nat /\ ops[c] \in Nat /\ last[c] \in Nat /\ now \in Nat
           /\ now - last[c] \in Nat /\ Charged(c) \in Nat /\ b \in Nat /\ PerThread \in Nat
           /\ tokens[c] <= b /\ MaxRate \in Nat /\ r[c] <= MaxRate
           /\ pc[c] \in {"consume", "unlocked", "loaded", "sleep"}
<1>1. b \in Nat /\ PerThread \in Nat
  BY ShareIsNat DEF Types, TypeOK
<1>2. MaxRate \in Nat /\ r[c] <= MaxRate
  BY MaxRateIsMax DEF Types, TypeOK
<1>3. /\ tokens[c] \in Int /\ wake[c] \in Int /\ seen[c] \in Int /\ r[c] \in Nat /\ budget[c] \in Nat
      /\ changes[c] \in Nat /\ tokens[c] <= b /\ pc[c] \in {"consume", "unlocked", "loaded", "sleep"}
  BY DEF Types, TypeOK
<1>4. ops[c] \in 0 .. MaxOps /\ last[c] \in 0 .. now /\ now \in 0 .. MaxNow
  BY DEF Types, TypeOK
<1>5. ops[c] \in Nat /\ last[c] \in Nat /\ now \in Nat /\ now - last[c] \in Nat
  BY <1>4, Constants
<1>6. Charged(c) \in Nat
  BY <1>5 DEF Charged
<1> QED BY <1>1, <1>2, <1>3, <1>5, <1>6

(* The products in Surplus are naturals. *)
LEMMA SurplusParts ==
    ASSUME Types, NEW c \in Clients
    PROVE  /\ P * Q \in Nat /\ P * Q > 0 /\ (P + b) * Q \in Nat
           /\ changes[c] * ((P + b) * Q) \in Nat /\ Charged(c) * (P * Q) \in Nat
<1>1. P * Q \in Nat /\ (P + b) * Q \in Nat
  BY LocalTypes, Constants, NatTimes
<1>2. P * Q > 0
  BY Constants
<1>3. changes[c] * ((P + b) * Q) \in Nat /\ Charged(c) * (P * Q) \in Nat
  BY <1>1, LocalTypes, NatTimes
<1> QED BY <1>1, <1>2, <1>3

(* The amounts that the invariants compare are integers, and Whole is Accrued rounded down to ticks. *)
LEMMA AmountTypes ==
    ASSUME Types, NEW c \in Clients
    PROVE  /\ Held(c) \in Int /\ Accrued(c) \in Nat /\ Whole(c) \in Nat /\ Slept(c) \in Int
           /\ Surplus(c) \in Int /\ Forgiven(c) \in Nat /\ P * Q \in Nat /\ P * Q > 0
           /\ Whole(c) <= Accrued(c) /\ Accrued(c) < Whole(c) + Q
<1>1. P * Q \in Nat /\ P * Q > 0 /\ (P + b) * Q \in Nat
  BY SurplusParts
<1>2. Held(c) \in Int /\ Slept(c) \in Int
  BY LocalTypes, Constants, IntTimes DEF Held, Slept
<1>3. Accrued(c) \in Nat
  BY LocalTypes, NatTimes DEF Accrued
<1>4. Whole(c) \in Nat /\ Whole(c) <= Accrued(c) /\ Accrued(c) < Whole(c) + Q
  BY <1>3, DivisionRounds, Constants, NatTimes DEF Whole
<1>5. Forgiven(c) \in Nat
  BY <1>1, LocalTypes, NatTimes DEF Forgiven
<1>6. Surplus(c) \in Int
  BY SurplusParts, LocalTypes DEF Surplus
<1> QED BY <1>1, <1>2, <1>3, <1>4, <1>5, <1>6

(* The same of the next state. *)
LEMMA AmountTypesNext ==
    ASSUME Types', NEW c \in Clients
    PROVE  Held(c)' \in Int /\ Whole(c)' \in Nat /\ Slept(c)' \in Int
<1>1. tokens'[c] \in Int /\ wake'[c] \in Int /\ r'[c] \in Nat
  BY DEF Types, TypeOK
<1>2. last'[c] \in 0 .. now' /\ now' \in 0 .. MaxNow
  BY DEF Types, TypeOK
<1>3. now' - last'[c] \in Nat /\ last'[c] \in Nat
  BY <1>2, Constants
<1>4. Held(c)' \in Int /\ Slept(c)' \in Int
  BY <1>1, <1>3, Constants, IntTimes DEF Held, Slept
<1>5. Accrued(c)' \in Nat
  BY <1>1, <1>3, NatTimes DEF Accrued
<1> QED BY <1>4, <1>5, DivisionRounds, Constants, NatTimes DEF Whole

(* A client whose locals a step leaves alone while the clock stands still. *)
LEMMA FrameEffect ==
    ASSUME NEW c \in Clients, Locals(c)' = Locals(c), now' = now, b' = b
    PROVE  /\ Held(c)' = Held(c) /\ Accrued(c)' = Accrued(c) /\ Whole(c)' = Whole(c)
           /\ Slept(c)' = Slept(c) /\ Surplus(c)' = Surplus(c) /\ Forgiven(c)' = Forgiven(c)
           /\ r'[c] = r[c] /\ pc'[c] = pc[c] /\ free'[c] = free[c] /\ changes'[c] = changes[c]
           /\ tokens'[c] = tokens[c] /\ seen'[c] = seen[c]
BY DEF Locals, Held, Accrued, Whole, Slept, Surplus, Forgiven, Charged

(* A tick of the clock earns r_. *)
LEMMA TickEffect ==
    ASSUME Types, Types', Tick, b' = b, NEW c \in Clients
    PROVE  /\ Held(c)' = Held(c) /\ Accrued(c)' = Accrued(c) + r[c] /\ Whole(c)' >= Whole(c)
           /\ Slept(c)' = Slept(c) /\ Surplus(c)' = Surplus(c) + r[c] /\ Forgiven(c)' = Forgiven(c)
           /\ r'[c] = r[c] /\ pc'[c] = pc[c] /\ free'[c] = free[c] /\ changes'[c] = changes[c]
           /\ tokens'[c] = tokens[c] /\ seen'[c] = seen[c]
<1>1. /\ UNCHANGED <<tokens, r, last, wake, seen, pc, ops, changes, free>>
      /\ now' = now + 1 /\ budget'[c] = budget[c] + r[c]
  BY DEF Tick
<1>2. Accrued(c)' = Accrued(c) + r[c]
  <2>1. PICK d \in Nat : d = now - last[c] /\ now' - last'[c] = d + 1
    BY <1>1, LocalTypes
  <2>2. (d + 1) * r[c] = d * r[c] + r[c]
    BY LocalTypes
  <2> QED BY <1>1, <2>1, <2>2 DEF Accrued
<1>3. Whole(c)' >= Whole(c)
  <2>1. PICK x \in Nat, y \in Nat : x = Accrued(c) /\ y = Accrued(c)' /\ x <= y
    BY <1>2, AmountTypes, LocalTypes
  <2>2. x \div Q <= y \div Q /\ x \div Q \in Int /\ y \div Q \in Int
    BY <2>1, Constants
  <2>3. (x \div Q) * Q <= (y \div Q) * Q
    BY <2>2, TimesMonotone, Constants
  <2> QED BY <2>1, <2>3, IntTimes, <2>2, Constants DEF Whole
<1>4. Surplus(c)' = Surplus(c) + r[c]
  <2>1. Charged(c)' = Charged(c)
    BY <1>1 DEF Charged
  <2>2. PICK u \in Nat, v \in Nat : u = changes[c] * ((P + b) * Q) /\ v = Charged(c) * (P * Q)
    BY SurplusParts
  <2>3. Surplus(c) = budget[c] + u - v /\ Surplus(c)' = budget'[c] + u - v
    BY <2>1, <2>2, <1>1 DEF Surplus
  <2> QED BY <1>1, <2>3, LocalTypes
<1> QED BY <1>1, <1>2, <1>3, <1>4 DEF Held, Slept, Forgiven

(* A Consume with a rate: the bucket is refilled, by no more than it has     *)
(* earned and by as much up to its brim if that fits, and P is taken out.    *)
LEMMA ConsumeEffect ==
    ASSUME Types, Types', NEW c \in Clients, Consume(c), r[c] > 0, b' = b
    PROVE  /\ Accrued(c)' = 0 /\ Whole(c)' = 0 /\ Forgiven(c)' = Forgiven(c)
           /\ Surplus(c)' = Surplus(c) - P * Q
           /\ Held(c)' + P * Q <= Held(c) + Accrued(c)
           /\ Accrued(c) < H => Held(c)' + P * Q >= Held(c) + Whole(c) \/ Held(c)' + P * Q >= 0
           /\ pc[c] = "consume" /\ pc'[c] \in {"consume", "unlocked"}
           /\ pc'[c] = "consume" => Held(c)' >= 0
           /\ r'[c] = r[c] /\ free'[c] = free[c] /\ changes'[c] = changes[c]
<1> DEFINE e == Quotient(Int64(Accrued(c)), Q)
           t == Refilled(c, r[c])
<1>1. /\ tokens'[c] = t - P /\ last'[c] = now /\ now' = now /\ r' = r /\ budget' = budget
      /\ changes' = changes /\ free' = free /\ pc[c] = "consume"
      /\ \/ t - P < 0 /\ pc'[c] = "unlocked" /\ ops' = ops
         \/ ~(t - P < 0) /\ pc' = pc /\ ops'[c] = ops[c] + 1
  <2>1. /\ tokens' = [tokens EXCEPT ![c] = t - P] /\ last' = [last EXCEPT ![c] = now]
        /\ UNCHANGED <<now, r, budget, changes, free>> /\ pc[c] = "consume"
        /\ \/ t - P < 0 /\ pc' = [pc EXCEPT ![c] = "unlocked"] /\ ops' = ops
           \/ ~(t - P < 0) /\ pc' = pc /\ ops' = [ops EXCEPT ![c] = @ + 1]
    BY LocalTypes DEF Consume, MovedLast
  <2> HIDE DEF t
  <2> QED BY <2>1 DEF Types, TypeOK
<1>2. t = Least(b, tokens[c] + e)
  BY DEF Refilled, Accrued
<1>3. e \in Int /\ e * Q <= Accrued(c) /\ (Accrued(c) < H => e = Accrued(c) \div Q)
  BY EarnedAtMost, EarnedExactly, AmountTypes
<1> HIDE DEF e, t
<1>4. t \in Int /\ t <= tokens[c] + e /\ (t = b \/ t = tokens[c] + e)
  BY <1>2, <1>3, LocalTypes DEF Least
<1>5. Held(c)' + P * Q = t * Q
  <2>1. (t - P) * Q = t * Q - P * Q
    BY <1>4, Constants, Distribute
  <2>2. t * Q \in Int /\ P * Q \in Int
    BY <1>4, Constants, IntTimes
  <2> QED BY <1>1, <2>1, <2>2 DEF Held
<1>6. (tokens[c] + e) * Q = Held(c) + e * Q /\ e * Q \in Int
  BY <1>3, LocalTypes, Constants, Distribute, IntTimes DEF Held
<1>7. Held(c)' + P * Q <= Held(c) + Accrued(c)
  <2>1. t * Q <= (tokens[c] + e) * Q
    BY <1>3, <1>4, LocalTypes, Constants, TimesMonotone
  <2>2. t * Q \in Int
    BY <1>4, Constants, IntTimes
  <2> QED BY <1>3, <1>5, <1>6, <2>1, <2>2, AmountTypes
<1>8. Accrued(c) < H => Held(c)' + P * Q >= Held(c) + Whole(c) \/ Held(c)' + P * Q >= 0
  <2>1. CASE t = b
    BY <1>5, <2>1, LocalTypes, Constants, NatTimes
  <2>2. CASE t = tokens[c] + e
    <3>1. ASSUME Accrued(c) < H PROVE e * Q = Whole(c)
      BY <3>1, <1>3 DEF Whole
    <3> QED BY <1>5, <1>6, <2>2, <3>1, AmountTypes
  <2> QED BY <1>4, <2>1, <2>2
<1>9. Charged(c)' = Charged(c) + 1
  BY <1>1, LocalTypes DEF Charged
<1>10. Surplus(c)' = Surplus(c) - P * Q
  <2>1. (Charged(c) + 1) * (P * Q) = Charged(c) * (P * Q) + P * Q
    BY LocalTypes, SurplusParts
  <2>2. PICK u \in Nat, v \in Nat, w \in Nat :
          u = changes[c] * ((P + b) * Q) /\ v = Charged(c) * (P * Q) /\ w = P * Q
    BY SurplusParts
  <2>3. Surplus(c) = budget[c] + u - v /\ Surplus(c)' = budget[c] + u - (v + w)
    BY <2>1, <2>2, <1>1, <1>9 DEF Surplus
  <2> QED BY <2>2, <2>3, LocalTypes
<1>11. Accrued(c)' = 0
  <2>1. now' - last'[c] = 0
    BY <1>1, LocalTypes
  <2> QED BY <1>1, <2>1, LocalTypes DEF Accrued
<1>12. Whole(c)' = 0
  <2>1. 0 \div Q = 0
    BY Constants
  <2> QED BY <1>11, <2>1, Constants DEF Whole
<1>13. pc'[c] = "consume" => Held(c)' >= 0
  <2>1. ASSUME ~(t - P < 0) PROVE Held(c)' >= 0
    <3>1. t - P \in Nat
      BY <2>1, <1>4, Constants
    <3> QED BY <1>1, <3>1, Constants, NatTimes DEF Held
  <2> QED BY <1>1, <2>1
<1>14. Forgiven(c)' = Forgiven(c)
  BY <1>1 DEF Forgiven
<1> QED BY <1>1, <1>7, <1>8, <1>10, <1>11, <1>12, <1>13, <1>14

(* The read of tokens_ after the unlock changes nothing but what the client has seen. *)
LEMMA LoadTokensEffect ==
    ASSUME Types, NEW c \in Clients, LoadTokens(c), b' = b
    PROVE  /\ Held(c)' = Held(c) /\ Accrued(c)' = Accrued(c) /\ Whole(c)' = Whole(c)
           /\ Surplus(c)' = Surplus(c) /\ Forgiven(c)' = Forgiven(c) /\ seen'[c] = tokens'[c]
           /\ pc[c] = "unlocked" /\ pc'[c] = "loaded"
           /\ r'[c] = r[c] /\ free'[c] = free[c] /\ changes'[c] = changes[c]
<1>1. /\ UNCHANGED <<tokens, last, now, r, budget, ops, changes, free>>
      /\ pc[c] = "unlocked" /\ pc'[c] = "loaded" /\ seen'[c] = tokens[c]
  BY DEF LoadTokens, Types, TypeOK
<1>2. Charged(c)' = Charged(c)
  BY <1>1 DEF Charged
<1> QED BY <1>1, <1>2 DEF Held, Accrued, Whole, Surplus, Forgiven

(* wait_time, if its product fits and tokens_ has not changed since it was seen, *)
(* leaves less than one tick's worth of the debt.                                *)
LEMMA ComputeWaitEffect ==
    ASSUME Types, Types', NEW c \in Clients, ComputeWait(c), r[c] # 0, b' = b
    PROVE  /\ Held(c)' = Held(c) /\ Accrued(c)' = Accrued(c) /\ Whole(c)' = Whole(c)
           /\ Surplus(c)' = Surplus(c) /\ Forgiven(c)' = Forgiven(c)
           /\ seen[c] = tokens[c] /\ Held(c) < 0 /\ -Held(c) < H => Held(c)' + Slept(c)' >= -r[c]
           /\ pc[c] = "loaded" /\ pc'[c] = "sleep"
           /\ r'[c] = r[c] /\ free'[c] = free[c] /\ changes'[c] = changes[c]
<1>1. /\ UNCHANGED <<tokens, last, now, r, budget, ops, changes, free>>
      /\ pc[c] = "loaded" /\ pc'[c] = "sleep" /\ wake'[c] = now + WaitTime(c)
  BY DEF ComputeWait, Types, TypeOK
<1>2. Charged(c)' = Charged(c)
  BY <1>1 DEF Charged
<1>3. ASSUME seen[c] = tokens[c], Held(c) < 0, -Held(c) < H PROVE Held(c)' + Slept(c)' >= -r[c]
  <2>1. PICK x \in Nat : x = -Held(c) /\ x < H /\ Held(c) = -x
    BY <1>3, AmountTypes
  <2>2. Int64(x) = x
    BY <2>1, Int64Fits, Constants
  <2>3. -seen[c] * Q = x
    BY <1>3, <2>1 DEF Held
  <2>4. PICK w \in Nat : w = WaitTime(c) /\ w = x \div r[c]
    <3>1. r[c] \in Nat /\ r[c] > 0
      BY LocalTypes
    <3>2. WaitTime(c) = Quotient(x, r[c])
      BY <2>2, <2>3 DEF WaitTime
    <3>3. Quotient(x, r[c]) = x \div r[c]
      BY <3>1, QuotientType
    <3>4. x \div r[c] \in Nat
      BY <3>1, DivisionRounds
    <3> QED BY <3>2, <3>3, <3>4
  <2>5. x < w * r[c] + r[c]
    BY <2>4, LocalTypes, DivisionRounds
  <2>6. PICK d \in Nat : d = now - last[c]
    BY LocalTypes
  <2>7. Slept(c)' = (d + w) * r[c]
    <3>1. wake'[c] - last'[c] = d + w
      BY <1>1, <2>4, <2>6, LocalTypes
    <3> QED BY <1>1, <3>1 DEF Slept
  <2>8. (d + w) * r[c] = d * r[c] + w * r[c] /\ d * r[c] \in Nat /\ w * r[c] \in Nat
    BY LocalTypes
  <2> QED BY <1>1, <2>1, <2>5, <2>7, <2>8, LocalTypes DEF Held
<1> QED BY <1>1, <1>2, <1>3 DEF Held, Accrued, Whole, Surplus, Forgiven

(* A client that wakes has earned what it slept for. *)
LEMMA WakeEffect ==
    ASSUME Types, Types', NEW c \in Clients, Wake(c), b' = b
    PROVE  /\ Held(c)' = Held(c) /\ Accrued(c)' = Accrued(c) /\ Whole(c)' = Whole(c)
           /\ Surplus(c)' = Surplus(c) /\ Forgiven(c)' = Forgiven(c) /\ Slept(c) <= Accrued(c)
           /\ pc[c] = "sleep" /\ pc'[c] = "consume"
           /\ r'[c] = r[c] /\ free'[c] = free[c] /\ changes'[c] = changes[c]
<1>1. /\ UNCHANGED <<tokens, last, now, r, budget, changes, free>>
      /\ pc[c] = "sleep" /\ pc'[c] = "consume" /\ now >= wake[c] /\ ops'[c] = ops[c] + 1
  BY DEF Wake, Types, TypeOK
<1>2. Charged(c)' = Charged(c)
  BY <1>1, LocalTypes DEF Charged
<1>3. Slept(c) <= Accrued(c)
  <2>1. wake[c] - last[c] \in Int /\ now - last[c] \in Int /\ wake[c] - last[c] <= now - last[c]
    BY <1>1, LocalTypes
  <2> QED BY <2>1, LocalTypes, TimesMonotone DEF Slept, Accrued
<1> QED BY <1>1, <1>2, <1>3 DEF Held, Accrued, Whole, Surplus, Forgiven

(* SetRate refills with TOKEN_PRECISION counted twice, up to the brim. *)
LEMMA SetRateEffect ==
    ASSUME Types, Types', SetRate, b' = b, NEW c, c = setting
    PROVE  /\ Accrued(c)' = 0 /\ Whole(c)' = 0 /\ Forgiven(c)' = Forgiven(c) + P * Q
           /\ b * Q \in Nat /\ Surplus(c)' = Surplus(c) + P * Q + b * Q
           /\ Held(c)' <= b * Q /\ Accrued(c) * P \in Nat /\ Held(c)' <= Held(c) + Accrued(c) * P
           /\ Accrued(c) * P < H => Held(c)' >= Held(c) \/ Held(c)' >= 0
           /\ pc'[c] = pc[c] /\ changes'[c] = changes[c] + 1
           /\ ~free'[c] => ~free[c] /\ r'[c] > 0
<1> DEFINE e == Quotient(Int64(Accrued(c) * P), Q)
           t == Refilled(c, r[c] * P)
<1>0. c \in Clients
  BY DEF Types, TypeOK
<1>1. PICK x \in NextRates :
        /\ tokens' = [tokens EXCEPT ![c] = t]
        /\ last' = [last EXCEPT ![c] = now]
        /\ r' = [r EXCEPT ![c] = (x \div N) * P]
        /\ free' = [free EXCEPT ![c] = @ \/ x \div N = 0]
  BY DEF SetRate, MovedLast
<1>2. /\ tokens'[c] = t /\ last'[c] = now /\ now' = now /\ r'[c] = (x \div N) * P
      /\ budget' = budget /\ pc' = pc /\ ops' = ops /\ changes'[c] = changes[c] + 1
  <2> HIDE DEF t
  <2> QED BY <1>0, <1>1 DEF SetRate, Types, TypeOK
<1>3. ~free'[c] => ~free[c] /\ r'[c] > 0
  <2>1. free'[c] = (free[c] \/ x \div N = 0)
    BY <1>0, <1>1, Zenon DEF Types, TypeOK
  <2>2. PICK q \in Nat : q = x \div N
    <3>1. x \in Rates
      BY NextRateInSet DEF Types, TypeOK
    <3> QED BY <3>1, RateIsNat
  <2>3. q # 0 => q * P > 0
    BY Constants
  <2> QED BY <1>2, <2>1, <2>2, <2>3
<1>4. t = Least(b, tokens[c] + e)
  <2>1. (now - last[c]) * (r[c] * P) = Accrued(c) * P
    BY <1>0, LocalTypes, Constants, TimesAssoc DEF Accrued
  <2> QED BY <2>1 DEF Refilled
<1>5. Accrued(c) \in Nat /\ Accrued(c) * P \in Nat
  BY <1>0, AmountTypes, Constants, NatTimes
<1>6. e \in Int /\ e * Q <= Accrued(c) * P /\ (Accrued(c) * P < H => e \in Nat)
  BY <1>5, EarnedAtMost, EarnedExactly, DivisionRounds, Constants
<1> HIDE DEF e, t
<1>7. tokens[c] \in Int /\ b \in Nat
  BY <1>0, LocalTypes
<1>8. t \in Int /\ t <= tokens[c] + e /\ t <= b /\ (t = b \/ t = tokens[c] + e)
  BY <1>4, <1>6, <1>7 DEF Least
<1>9. Held(c)' = t * Q /\ t * Q \in Int
  BY <1>2, <1>8, Constants, IntTimes DEF Held
<1>10. (tokens[c] + e) * Q = Held(c) + e * Q /\ e * Q \in Int /\ Held(c) \in Int
  BY <1>6, <1>7, Constants, Distribute, IntTimes DEF Held
<1>11. t * Q <= (tokens[c] + e) * Q /\ t * Q <= b * Q /\ b * Q \in Nat
  BY <1>6, <1>7, <1>8, Constants, TimesMonotone, NatTimes
<1>12. Accrued(c) * P < H => Held(c)' >= Held(c) \/ Held(c)' >= 0
  <2>1. CASE t = b
    BY <1>9, <1>11, <2>1
  <2>2. CASE t = tokens[c] + e
    <3>1. e \in Nat => e * Q \in Nat
      BY Constants, NatTimes
    <3> QED BY <1>6, <1>9, <1>10, <2>2, <3>1
  <2> QED BY <1>8, <2>1, <2>2
<1>13. Accrued(c)' = 0
  <2>1. now' - last'[c] = 0
    BY <1>0, <1>2, LocalTypes
  <2>2. r'[c] \in Nat
    BY <1>0 DEF Types, TypeOK
  <2> QED BY <2>1, <2>2 DEF Accrued
<1>14. Whole(c)' = 0
  <2>1. 0 \div Q = 0
    BY Constants
  <2> QED BY <1>13, <2>1, Constants DEF Whole
<1>15. Forgiven(c)' = Forgiven(c) + P * Q
  <2>1. (changes[c] + 1) * (P * Q) = changes[c] * (P * Q) + P * Q
    BY <1>0, LocalTypes, SurplusParts
  <2> QED BY <1>2, <2>1 DEF Forgiven
<1>16. Surplus(c)' = Surplus(c) + P * Q + b * Q
  <2>1. (changes[c] + 1) * ((P + b) * Q) = changes[c] * ((P + b) * Q) + (P + b) * Q
    BY <1>0, LocalTypes, SurplusParts
  <2>2. (P + b) * Q = P * Q + b * Q
    BY <1>7, Constants, Distribute
  <2>3. PICK u \in Nat, v \in Nat, w \in Nat, z \in Nat :
          /\ u = changes[c] * ((P + b) * Q) /\ v = Charged(c) * (P * Q)
          /\ w = P * Q /\ z = b * Q
    BY <1>0, <1>11, SurplusParts
  <2>4. Charged(c)' = Charged(c)
    BY <1>2 DEF Charged
  <2>5. Surplus(c) = budget[c] + u - v /\ Surplus(c)' = budget[c] + (u + (w + z)) - v
    BY <2>1, <2>2, <2>3, <2>4, <1>2 DEF Surplus
  <2> QED BY <1>0, <2>3, <2>5, LocalTypes
<1> QED BY <1>2, <1>3, <1>5, <1>6, <1>9, <1>10, <1>11, <1>12, <1>13, <1>14, <1>15, <1>16

-----------------------------------------------------------------------------
(* 4. The invariants. *)

(* What a step does to one client. *)
Framed(c) == Locals(c)' = Locals(c) /\ now' = now
LetThrough(c) == Consume(c) /\ r[c] = 0

(* A step is one of client c's limiter, of the clock, or leaves client c's limiter alone. *)
LEMMA StepOf ==
    ASSUME Types, [Next]_vars, NEW c \in Clients
    PROVE  \/ Framed(c) \/ Tick \/ LetThrough(c) \/ Wake(c)
           \/ Consume(c) /\ r[c] > 0
           \/ LoadTokens(c)
           \/ ComputeWait(c) /\ r[c] # 0
           \/ SetRate /\ c = setting
<1>1. \A d \in Clients : r[d] \in Nat
  BY LocalTypes
<1>2. ASSUME NEW d \in Clients, d # c, Consume(d) \/ LoadTokens(d) \/ ComputeWait(d) \/ Wake(d)
      PROVE  Framed(c)
  <2>1. CASE Consume(d)
    <3>1. CASE r[d] <= 0
      BY <1>2, <2>1, <3>1 DEF Consume, Framed, Locals, Types, TypeOK
    <3>2. CASE r[d] > 0
      <4>1. PICK t : tokens' = [tokens EXCEPT ![d] = t] /\ last' = [last EXCEPT ![d] = now]
        BY <1>1, <2>1, <3>2 DEF Consume, MovedLast
      <4>2. pc'[c] = pc[c] /\ ops'[c] = ops[c]
        BY <1>1, <1>2, <2>1, <3>2 DEF Consume, Types, TypeOK
      <4>3. UNCHANGED <<r, now, wake, seen, budget, changes, free>>
        BY <2>1 DEF Consume
      <4> QED BY <1>2, <4>1, <4>2, <4>3 DEF Framed, Locals, Types, TypeOK
    <3> QED BY <1>1, <3>1, <3>2
  <2>2. CASE ComputeWait(d)
    <3>1. wake'[c] = wake[c] /\ seen'[c] = seen[c] /\ pc'[c] = pc[c]
      BY <1>2, <2>2 DEF ComputeWait, Types, TypeOK
    <3> QED BY <2>2, <3>1 DEF ComputeWait, Framed, Locals
  <2>3. CASE Wake(d)
    BY <1>2, <2>3 DEF Wake, Framed, Locals, Types, TypeOK
  <2>4. CASE LoadTokens(d)
    BY <1>2, <2>4 DEF LoadTokens, Framed, Locals, Types, TypeOK
  <2> QED BY <1>2, <2>1, <2>2, <2>3, <2>4
<1>3. CASE Consume(c)
  BY <1>1, <1>3 DEF LetThrough
<1>4. CASE ComputeWait(c)
  <2>1. CASE r[c] = 0
    BY <1>4, <2>1 DEF ComputeWait, Framed, Locals
  <2> QED BY <1>4, <2>1
<1>5. ASSUME SetRate, c # setting PROVE Framed(c)
  <2>1. PICK t, x : /\ tokens' = [tokens EXCEPT ![setting] = t]
                    /\ last' = [last EXCEPT ![setting] = now]
                    /\ r' = [r EXCEPT ![setting] = (x \div N) * P]
                    /\ free' = [free EXCEPT ![setting] = @ \/ x \div N = 0]
    BY <1>5 DEF SetRate, MovedLast
  <2>2. tokens'[c] = tokens[c] /\ last'[c] = last[c] /\ r'[c] = r[c]
    BY <1>5, <2>1 DEF Types, TypeOK
  <2>3. free'[c] = free[c]
    BY <1>5, <2>1, Zenon DEF Types, TypeOK
  <2>4. changes'[c] = changes[c] /\ UNCHANGED <<now, pc, wake, seen, ops, budget>>
    BY <1>5 DEF SetRate, Types, TypeOK
  <2> QED BY <2>2, <2>3, <2>4 DEF Framed, Locals
<1>6. CASE UNCHANGED vars
  BY <1>6 DEF vars, Framed, Locals
<1> QED BY <1>2, <1>3, <1>4, <1>5, <1>6 DEF Next

(* A limiter without a rate lets its client through and keeps its tokens. *)
LEMMA LetThroughEffect ==
    ASSUME Types, NEW c \in Clients, LetThrough(c)
    PROVE  /\ Held(c)' = Held(c) /\ Accrued(c)' = Accrued(c) /\ Whole(c)' = Whole(c)
           /\ Forgiven(c)' = Forgiven(c) /\ pc'[c] = pc[c] /\ pc[c] = "consume"
           /\ r'[c] = r[c] /\ free'[c] = free[c] /\ changes'[c] = changes[c]
<1>1. UNCHANGED <<tokens, last, now, r, changes, pc, free>> /\ pc[c] = "consume"
  BY DEF LetThrough, Consume
<1> QED BY <1>1 DEF Held, Accrued, Whole, Forgiven

(***************************************************************************)
(* DebtOK: a client that may consume has paid its debts, but for what      *)
(* roundings and the changes of rate forgave; one that sleeps will have    *)
(* earned its debt at wake-up, and one about to sleep has seen how much it *)
(* owes, unless a change of rate has forgiven it; at any other time one    *)
(* more operation is owed.                                                 *)
(***************************************************************************)
DebtLimit(c) == Forgiven(c) + MaxRate + Q
Paid(c) == Held(c) + Whole(c) >= -DebtLimit(c)
Sleeps(c) == Held(c) + Slept(c) >= -r[c]

DebtOK(c) ==
    /\ Held(c) >= -(DebtLimit(c) + P * Q)
    /\ pc[c] = "consume" => Paid(c)
    /\ pc[c] = "loaded" => seen[c] = tokens[c] \/ Paid(c)
    /\ pc[c] = "sleep" => Sleeps(c) \/ Paid(c)

(* The products that Consume and SetRate compute fit in int64_t. *)
ConsumeFits(c) == Accrued(c) < H /\ DebtLimit(c) + P * Q < H
SetRateFits(c) == Accrued(c) * P < H

(* No step takes a limiter deeper into debt than DebtOK allows, if its own products fit. *)
LEMMA DebtStep ==
    ASSUME Types, Types', [Next]_vars, NEW c \in Clients, DebtOK(c), ConsumeFits(c),
           SetRateFits(c) \/ changes'[c] = changes[c]
    PROVE  DebtOK(c)'
<1>1. MaxRate' = MaxRate /\ b' = b
  BY SettingsKept
<1>2. /\ Held(c) \in Int /\ Accrued(c) \in Nat /\ Whole(c) \in Nat /\ Slept(c) \in Int
      /\ Forgiven(c) \in Nat /\ P * Q \in Nat /\ Accrued(c) < Whole(c) + Q
  BY AmountTypes
<1>3. Held(c)' \in Int /\ Whole(c)' \in Nat /\ Slept(c)' \in Int
  BY AmountTypesNext
<1>4. MaxRate \in Nat /\ r[c] \in Nat /\ r[c] <= MaxRate /\ Q \in Nat
  BY LocalTypes, Constants
<1>5. CASE Framed(c)
  BY <1>1, <1>5, FrameEffect DEF Framed, DebtOK, DebtLimit, Paid, Sleeps
<1>6. CASE LetThrough(c)
  BY <1>1, <1>6, LetThroughEffect DEF DebtOK, DebtLimit, Paid, Sleeps
<1>7. CASE Tick
  <2>1. /\ Held(c)' = Held(c) /\ Whole(c)' >= Whole(c) /\ Slept(c)' = Slept(c)
        /\ Forgiven(c)' = Forgiven(c) /\ r'[c] = r[c] /\ pc'[c] = pc[c]
        /\ tokens'[c] = tokens[c] /\ seen'[c] = seen[c]
    BY <1>1, <1>7, TickEffect
  <2> QED BY <1>1, <1>2, <1>3, <1>4, <2>1 DEF DebtOK, DebtLimit, Paid, Sleeps
<1>8. CASE Consume(c) /\ r[c] > 0
  <2>1. /\ Whole(c)' = 0 /\ Forgiven(c)' = Forgiven(c)
        /\ Accrued(c) < H => Held(c)' + P * Q >= Held(c) + Whole(c) \/ Held(c)' + P * Q >= 0
        /\ pc[c] = "consume" /\ pc'[c] \in {"consume", "unlocked"}
        /\ pc'[c] = "consume" => Held(c)' >= 0
    BY <1>1, <1>8, ConsumeEffect
  <2> QED BY <1>1, <1>2, <1>3, <1>4, <2>1 DEF DebtOK, DebtLimit, Paid, Sleeps, ConsumeFits
<1>9. CASE ComputeWait(c) /\ r[c] # 0
  <2>1. /\ Held(c)' = Held(c) /\ Whole(c)' = Whole(c) /\ Forgiven(c)' = Forgiven(c)
        /\ seen[c] = tokens[c] /\ Held(c) < 0 /\ -Held(c) < H => Held(c)' + Slept(c)' >= -r[c]
        /\ pc[c] = "loaded" /\ pc'[c] = "sleep" /\ r'[c] = r[c]
    BY <1>1, <1>9, ComputeWaitEffect
  <2> QED BY <1>1, <1>2, <1>3, <1>4, <2>1, Constants DEF DebtOK, DebtLimit, Paid, Sleeps, ConsumeFits
<1>10. CASE Wake(c)
  <2>1. /\ Held(c)' = Held(c) /\ Whole(c)' = Whole(c) /\ Forgiven(c)' = Forgiven(c)
        /\ Slept(c) <= Accrued(c) /\ pc[c] = "sleep" /\ pc'[c] = "consume"
    BY <1>1, <1>10, WakeEffect
  <2> QED BY <1>1, <1>2, <1>3, <1>4, <2>1 DEF DebtOK, DebtLimit, Paid, Sleeps
<1>11. CASE SetRate /\ c = setting
  <2>1. /\ Whole(c)' = 0 /\ Forgiven(c)' = Forgiven(c) + P * Q
        /\ Accrued(c) * P < H => Held(c)' >= Held(c) \/ Held(c)' >= 0
        /\ pc'[c] = pc[c] /\ changes'[c] = changes[c] + 1
    BY <1>1, <1>11, SetRateEffect
  <2>2. SetRateFits(c)
    BY <2>1, LocalTypes
  <2> QED BY <1>1, <1>2, <1>3, <1>4, <2>1, <2>2 DEF DebtOK, DebtLimit, Paid, Sleeps, SetRateFits
<1>12. CASE LoadTokens(c)
  <2>1. /\ Held(c)' = Held(c) /\ Whole(c)' = Whole(c) /\ Forgiven(c)' = Forgiven(c)
        /\ pc'[c] = "loaded" /\ seen'[c] = tokens'[c]
    BY <1>1, <1>12, LoadTokensEffect
  <2> QED BY <1>1, <2>1 DEF DebtOK, DebtLimit, Paid
<1> QED BY <1>5, <1>6, <1>7, <1>8, <1>9, <1>10, <1>11, <1>12, StepOf

(***************************************************************************)
(* BurstOK: what the bucket holds and has earned is covered by the         *)
(* surplus, which falls below nothing by at most a tick's worth when the   *)
(* client may consume, and by an operation more while it waits for one.    *)
(***************************************************************************)
BurstOK(c) ==
    /\ r[c] > 0 /\ PerThread > 0
    /\ Surplus(c) >= Held(c) + Accrued(c)
    /\ pc[c] = "consume" => Surplus(c) >= -r[c]
    /\ pc[c] # "consume" => Surplus(c) >= Accrued(c) - r[c] - P * Q
    /\ pc[c] = "loaded" => seen[c] = tokens[c] \/ Surplus(c) >= -r[c]
    /\ pc[c] = "sleep" => Sleeps(c) \/ Surplus(c) >= -r[c]

(* No rate is above one operation for each tick of the clock. *)
ModestRates == MaxRate <= P * Q

(* No step lets a client through to more than BurstOK allows, if its own products fit. *)
LEMMA BurstStep ==
    ASSUME Types, Types', [Next]_vars, NEW c \in Clients, ~free'[c], ~free[c] => BurstOK(c),
           DebtOK(c), ConsumeFits(c), ModestRates \/ changes'[c] = changes[c]
    PROVE  BurstOK(c)'
<1>1. b' = b /\ PerThread' = PerThread
  BY SettingsKept
<1>2. /\ Held(c) \in Int /\ Accrued(c) \in Nat /\ Slept(c) \in Int /\ Surplus(c) \in Int
      /\ Forgiven(c) \in Nat /\ P * Q \in Nat /\ P * Q > 0
  BY AmountTypes
<1>3. Held(c)' \in Int /\ Slept(c)' \in Int
  BY AmountTypesNext
<1>4. r[c] \in Nat /\ r[c] <= MaxRate /\ MaxRate \in Nat /\ PerThread \in Nat
      /\ pc[c] \in {"consume", "unlocked", "loaded", "sleep"} /\ H \in Nat /\ Q \in Nat
  BY LocalTypes, Constants
<1>5. CASE Framed(c)
  BY <1>1, <1>5, FrameEffect DEF Framed, BurstOK, Sleeps
<1>6. CASE LetThrough(c)
  BY <1>6, LetThroughEffect DEF BurstOK, LetThrough
<1>7. CASE Tick
  <2>1. /\ Held(c)' = Held(c) /\ Accrued(c)' = Accrued(c) + r[c] /\ Slept(c)' = Slept(c)
        /\ Surplus(c)' = Surplus(c) + r[c] /\ r'[c] = r[c] /\ pc'[c] = pc[c]
        /\ free'[c] = free[c] /\ tokens'[c] = tokens[c] /\ seen'[c] = seen[c]
    BY <1>1, <1>7, TickEffect
  <2> QED BY <1>1, <1>2, <1>4, <2>1 DEF BurstOK, Sleeps
<1>8. CASE Consume(c) /\ r[c] > 0
  <2>1. /\ Accrued(c)' = 0 /\ Surplus(c)' = Surplus(c) - P * Q
        /\ Held(c)' + P * Q <= Held(c) + Accrued(c)
        /\ pc[c] = "consume" /\ pc'[c] \in {"consume", "unlocked"}
        /\ pc'[c] = "consume" => Held(c)' >= 0
        /\ r'[c] = r[c] /\ free'[c] = free[c]
    BY <1>1, <1>8, ConsumeEffect
  <2> QED BY <1>1, <1>2, <1>3, <1>4, <2>1 DEF BurstOK
<1>9. CASE ComputeWait(c) /\ r[c] # 0
  <2>1. /\ Held(c)' = Held(c) /\ Accrued(c)' = Accrued(c) /\ Surplus(c)' = Surplus(c)
        /\ seen[c] = tokens[c] /\ Held(c) < 0 /\ -Held(c) < H => Held(c)' + Slept(c)' >= -r[c]
        /\ pc[c] = "loaded" /\ pc'[c] = "sleep" /\ r'[c] = r[c] /\ free'[c] = free[c]
    BY <1>1, <1>9, ComputeWaitEffect
  <2>2. Held(c) < 0 => -Held(c) < H
    BY <1>2, <1>4 DEF DebtOK, ConsumeFits, DebtLimit
  <2> QED BY <1>1, <1>2, <1>3, <1>4, <2>1, <2>2 DEF BurstOK, Sleeps
<1>10. CASE Wake(c)
  <2>1. /\ Held(c)' = Held(c) /\ Accrued(c)' = Accrued(c) /\ Surplus(c)' = Surplus(c)
        /\ Slept(c) <= Accrued(c) /\ pc[c] = "sleep" /\ pc'[c] = "consume"
        /\ r'[c] = r[c] /\ free'[c] = free[c]
    BY <1>1, <1>10, WakeEffect
  <2> QED BY <1>1, <1>2, <1>4, <2>1 DEF BurstOK, Sleeps
<1>11. CASE SetRate /\ c = setting
  <2>1. /\ Accrued(c)' = 0 /\ b * Q \in Nat /\ Surplus(c)' = Surplus(c) + P * Q + b * Q
        /\ Held(c)' <= b * Q /\ Held(c)' <= Held(c) + Accrued(c) * P
        /\ pc'[c] = pc[c] /\ changes'[c] = changes[c] + 1
        /\ ~free[c] /\ r'[c] > 0
    BY <1>1, <1>11, SetRateEffect
  <2>2. MaxRate <= P * Q
    BY <2>1, LocalTypes DEF ModestRates
  <2>3. P * Q <= b * Q
    <3>1. P <= PerThread * P
      BY <1>4, <2>1, Constants DEF BurstOK
    <3>2. P \in Int /\ b \in Int /\ P <= b
      BY <3>1, Constants, LocalTypes DEF b
    <3> QED BY <3>2, TimesMonotone, Constants
  <2>4. r'[c] \in Nat
    BY DEF Types, TypeOK
  <2>5. Accrued(c) = 0 \/ Accrued(c) >= r[c]
    <3>1. PICK d \in Nat : d = now - last[c]
      BY LocalTypes
    <3>2. d = 0 => d * r[c] = 0
      BY <1>4
    <3>3. d >= 1 => d * r[c] >= r[c]
      BY <1>4
    <3> QED BY <3>1, <3>2, <3>3 DEF Accrued
  <2>6. CASE Accrued(c) = 0
    <3>1. Accrued(c) * P = 0
      BY <2>6, Constants
    <3> QED BY <1>1, <1>2, <1>3, <1>4, <2>1, <2>2, <2>3, <2>4, <2>6, <3>1 DEF BurstOK
  <2>7. CASE Accrued(c) >= r[c]
    BY <1>1, <1>2, <1>3, <1>4, <2>1, <2>2, <2>3, <2>4, <2>7 DEF BurstOK
  <2> QED BY <2>5, <2>6, <2>7
<1>12. CASE LoadTokens(c)
  <2>1. /\ Held(c)' = Held(c) /\ Accrued(c)' = Accrued(c) /\ Surplus(c)' = Surplus(c)
        /\ pc[c] = "unlocked" /\ pc'[c] = "loaded" /\ seen'[c] = tokens'[c]
        /\ r'[c] = r[c] /\ free'[c] = free[c]
    BY <1>1, <1>12, LoadTokensEffect
  <2> QED BY <1>1, <2>1 DEF BurstOK
<1> QED BY <1>5, <1>6, <1>7, <1>8, <1>9, <1>10, <1>11, <1>12, StepOf

-----------------------------------------------------------------------------
(* 5. The theorems. *)

DebtInv == Types /\ \A c \in Clients : DebtOK(c)
BurstInv == DebtInv /\ \A c \in Clients : ~free[c] => BurstOK(c)

(* No int64_t product of a limiter overflows. *)
Fits == \A c \in Clients : ConsumeFits(c) /\ SetRateFits(c)

(* All amounts are zero when the limiters are constructed. *)
LEMMA AmountsInit ==
    ASSUME Init, NEW c \in Clients
    PROVE  /\ Held(c) = 0 /\ Accrued(c) = 0 /\ Whole(c) = 0 /\ Forgiven(c) = 0 /\ Surplus(c) = 0
           /\ r[c] = b /\ budget[c] = 0 /\ changes[c] = 0 /\ pc[c] = "consume"
           /\ free[c] = (PerThread = 0)
<1>1. /\ tokens[c] = 0 /\ last[c] = 0 /\ now = 0 /\ r[c] = b /\ budget[c] = 0 /\ changes[c] = 0
      /\ ops[c] = 0 /\ pc[c] = "consume" /\ free[c] = (PerThread = 0)
  BY DEF Init, b
<1>2. b \in Nat
  BY ShareIsNat DEF Init
<1>3. 0 * Q = 0 /\ 0 * b = 0 /\ 0 * (P * Q) = 0 /\ 0 * ((P + b) * Q) = 0 /\ 0 \div Q = 0
  <2>1. P * Q \in Nat /\ (P + b) * Q \in Nat
    BY <1>2, Constants, NatTimes
  <2> QED BY <1>2, <2>1, Constants
<1>4. Held(c) = 0 /\ Accrued(c) = 0 /\ Forgiven(c) = 0
  BY <1>1, <1>3 DEF Held, Accrued, Forgiven
<1>5. Whole(c) = 0
  BY <1>3, <1>4 DEF Whole
<1>6. Charged(c) = 0
  BY <1>1 DEF Charged
<1>7. Surplus(c) = 0
  BY <1>1, <1>3, <1>6 DEF Surplus
<1> QED BY <1>1, <1>4, <1>5, <1>7

(* The debts are bounded at the start. *)
LEMMA DebtInit == Init => DebtInv
<1> SUFFICES ASSUME Init PROVE DebtInv
  OBVIOUS
<1>1. Types
  BY TypesInit
<1>2. ASSUME NEW c \in Clients PROVE DebtOK(c)
  <2>1. Held(c) = 0 /\ Whole(c) = 0 /\ Forgiven(c) = 0 /\ pc[c] = "consume"
    BY AmountsInit
  <2>2. MaxRate \in Nat /\ P * Q \in Nat
    BY <1>1, LocalTypes, AmountTypes
  <2> QED BY <2>1, <2>2, Constants DEF DebtOK, DebtLimit, Paid
<1> QED BY <1>1, <1>2 DEF DebtInv

(* Every step whose products fit keeps the debts bounded. *)
LEMMA DebtInvStep == DebtInv /\ Fits /\ [Next]_vars => DebtInv'
<1> SUFFICES ASSUME DebtInv, Fits, [Next]_vars PROVE DebtInv'
  OBVIOUS
<1>1. Types /\ Types'
  BY TypesStep DEF DebtInv
<1>2. ASSUME NEW c \in Clients PROVE DebtOK(c)'
  BY <1>1, DebtStep DEF DebtInv, Fits
<1> QED BY <1>1, <1>2 DEF DebtInv

(* The bound on the debt that the run checks follows from the invariant. *)
LEMMA DebtOKBounds == DebtInv => DebtBounded
<1> SUFFICES ASSUME DebtInv, NEW c \in Clients
             PROVE  tokens[c] * Q >= -((1 + changes[c]) * P * Q + MaxRate + Q)
  BY DEF DebtBounded
<1>1. Types /\ DebtOK(c)
  BY DEF DebtInv
<1>2. (1 + changes[c]) * P * Q = Forgiven(c) + P * Q
  <2>1. PICK k \in Nat : k = changes[c]
    BY <1>1, LocalTypes
  <2>2. (1 + k) * P * Q = (1 + k) * (P * Q) /\ P * Q \in Nat
    BY Constants, TimesAssoc, NatTimes
  <2>3. (1 + k) * (P * Q) = k * (P * Q) + P * Q
    BY <2>2
  <2> QED BY <2>1, <2>2, <2>3 DEF Forgiven
<1>3. Forgiven(c) \in Nat /\ P * Q \in Nat /\ MaxRate \in Nat /\ Held(c) \in Int
  BY <1>1, AmountTypes, LocalTypes
<1> QED BY <1>1, <1>2, <1>3, Constants DEF DebtOK, DebtLimit, Held

(***************************************************************************)
(* What a client owes does not add up from operation to operation, for any *)
(* rate file and any timing of its changes, as long as no int64_t product  *)
(* overflows: sleep_for ends when the debt is earned up to a tick's worth, *)
(* and a change that shortens the sleep forgives at most an operation.     *)
(***************************************************************************)
THEOREM DebtIsBounded == Spec /\ []Fits => []DebtBounded
BY DebtInit, DebtInvStep, DebtOKBounds, PTL DEF Spec

(* The bursts are bounded at the start. *)
LEMMA BurstInit == Init => BurstInv
<1> SUFFICES ASSUME Init PROVE BurstInv
  OBVIOUS
<1>1. DebtInv
  BY DebtInit
<1>2. ASSUME NEW c \in Clients, ~free[c] PROVE BurstOK(c)
  <2>1. /\ Held(c) = 0 /\ Accrued(c) = 0 /\ Surplus(c) = 0 /\ pc[c] = "consume" /\ r[c] = b
        /\ PerThread # 0
    BY <1>2, AmountsInit
  <2>2. PerThread \in Nat /\ PerThread > 0
    BY <1>1, <2>1, LocalTypes DEF DebtInv
  <2>3. r[c] > 0 /\ r[c] \in Nat
    BY <1>1, <2>1, <2>2, Constants, LocalTypes DEF b, DebtInv
  <2> QED BY <2>1, <2>2, <2>3 DEF BurstOK
<1> QED BY <1>1, <1>2 DEF BurstInv

(* Every step whose products fit keeps the bursts bounded. *)
LEMMA BurstInvStep == BurstInv /\ Fits /\ ModestRates /\ [Next]_vars => BurstInv'
<1> SUFFICES ASSUME BurstInv, Fits, ModestRates, [Next]_vars PROVE BurstInv'
  OBVIOUS
<1>1. DebtInv /\ DebtInv'
  BY DebtInvStep DEF BurstInv
<1>2. ASSUME NEW c \in Clients, ~free'[c] PROVE BurstOK(c)'
  BY <1>1, <1>2, BurstStep DEF DebtInv, BurstInv, Fits
<1> QED BY <1>1, <1>2 DEF BurstInv

(* The surplus, spelt out. *)
LEMMA SurplusBound ==
    ASSUME Types, NEW c \in Clients, BurstOK(c)
    PROVE  ops[c] * (P * Q) <= budget[c] + r[c] + changes[c] * ((P + b) * Q)
<1>1. PICK u \in Nat, v \in Nat, w \in Nat :
        u = changes[c] * ((P + b) * Q) /\ v = ops[c] * (P * Q) /\ w = P * Q
  BY SurplusParts, LocalTypes, NatTimes
<1>2. budget[c] \in Nat /\ r[c] \in Nat /\ ops[c] \in Nat /\ Accrued(c) \in Nat
  BY LocalTypes, AmountTypes
<1>3. CASE pc[c] = "consume"
  <2>1. Charged(c) = ops[c]
    BY <1>2, <1>3 DEF Charged
  <2>2. Surplus(c) = budget[c] + u - v
    BY <1>1, <2>1 DEF Surplus
  <2> QED BY <1>1, <1>2, <1>3, <2>2 DEF BurstOK
<1>4. CASE pc[c] # "consume"
  <2>1. Charged(c) = ops[c] + 1
    BY <1>4 DEF Charged
  <2>2. (ops[c] + 1) * (P * Q) = v + w
    BY <1>1, <1>2
  <2>3. Surplus(c) = budget[c] + u - (v + w)
    BY <1>1, <2>1, <2>2 DEF Surplus
  <2> QED BY <1>1, <1>2, <1>4, <2>3 DEF BurstOK
<1> QED BY <1>3, <1>4

(* The bound on the burst that the run checks follows from the invariant. *)
LEMMA BurstOKBounds == BurstInv => BurstBounded
<1> SUFFICES ASSUME BurstInv, NEW c \in Clients, ~free[c]
             PROVE  ops[c] * P * Q <= budget[c] + MaxRate + changes[c] * (P + b) * Q
  BY DEF BurstBounded
<1>1. Types /\ BurstOK(c)
  BY DEF BurstInv, DebtInv
<1>2. ops[c] * (P * Q) <= budget[c] + r[c] + changes[c] * ((P + b) * Q)
  BY <1>1, SurplusBound
<1>3. ops[c] * P * Q = ops[c] * (P * Q) /\ changes[c] * (P + b) * Q = changes[c] * ((P + b) * Q)
  <2>1. ops[c] \in Int /\ changes[c] \in Int /\ P + b \in Int
    BY <1>1, LocalTypes, Constants
  <2> QED BY <2>1, Constants, TimesAssoc
<1>4. PICK u \in Nat, v \in Nat : u = changes[c] * ((P + b) * Q) /\ v = ops[c] * (P * Q)
  BY <1>1, SurplusParts, LocalTypes, NatTimes
<1>5. budget[c] \in Nat /\ r[c] \in Nat /\ r[c] <= MaxRate /\ MaxRate \in Nat
  BY <1>1, LocalTypes
<1> QED BY <1>2, <1>3, <1>4, <1>5

(***************************************************************************)
(* A client is let through to no more than the rates add up to over time,  *)
(* a tick's worth, and an operation and a full bucket for each change of   *)
(* rate, for any rate file of at most one operation per tick and any       *)
(* interleaving of Consume, sleep and SetRate, while products fit.         *)
(***************************************************************************)
THEOREM BurstIsBounded == Spec /\ [](Fits /\ ModestRates) => []BurstBounded
BY BurstInit, BurstInvStep, BurstOKBounds, PTL DEF Spec

(***************************************************************************)
(* Until its rate changes, a limiter has the rate it was created with, and *)
(* the rates add up to that rate times the clock.  SetRate's product need  *)
(* not fit: nothing is said of a limiter that it has changed.              *)
(***************************************************************************)
Unchanged(c) ==
    /\ r[c] = b /\ budget[c] = now * b /\ (PerThread > 0 => ~free[c])
    /\ DebtOK(c) /\ (~free[c] => BurstOK(c))
LimitInv == Types /\ \A c \in Clients : changes[c] = 0 => Unchanged(c)

(* The products of Consume fit while the rate is the first one. *)
SteadyFits == \A c \in Clients : changes[c] = 0 => ConsumeFits(c)

(* Every limiter starts with the rate it is constructed with. *)
LEMMA LimitInit == Init => LimitInv
<1> SUFFICES ASSUME Init PROVE LimitInv
  OBVIOUS
<1>1. BurstInv
  BY BurstInit
<1>2. ASSUME NEW c \in Clients PROVE Unchanged(c)
  <2>1. r[c] = b /\ budget[c] = 0 /\ (PerThread > 0 => ~free[c]) /\ now = 0
    <3>1. PerThread \in Nat
      BY <1>1, LocalTypes DEF BurstInv, DebtInv
    <3>2. PerThread > 0 => PerThread # 0
      BY <3>1
    <3>3. free[c] = (PerThread = 0) /\ r[c] = b /\ budget[c] = 0 /\ now = 0
      BY AmountsInit DEF Init
    <3> QED BY <3>2, <3>3, Zenon
  <2>2. 0 * b = 0
    BY <1>1, LocalTypes DEF BurstInv, DebtInv
  <2> QED BY <1>1, <2>1, <2>2 DEF Unchanged, BurstInv, DebtInv
<1> QED BY <1>1, <1>2 DEF LimitInv, BurstInv, DebtInv

(* A limiter that no SetRate has reached yet keeps to its first rate. *)
LEMMA UnchangedStep ==
    ASSUME Types, Types', [Next]_vars, NEW c \in Clients, changes[c] = 0 => Unchanged(c),
           changes[c] = 0 => ConsumeFits(c), changes'[c] = 0
    PROVE  Unchanged(c)'
<1>1. b' = b /\ PerThread' = PerThread
  BY SettingsKept
<1>2. b \in Nat /\ now \in Nat /\ changes[c] \in Nat
  BY LocalTypes
<1>3. /\ changes'[c] = changes[c] /\ r'[c] = r[c] /\ free'[c] = free[c]
      /\ \/ budget'[c] = budget[c] /\ now' = now
         \/ budget'[c] = budget[c] + r[c] /\ now' = now + 1
  <2>1. CASE Framed(c)
    <3>1. r'[c] = r[c] /\ free'[c] = free[c] /\ changes'[c] = changes[c]
      BY <1>1, <2>1, FrameEffect DEF Framed
    <3>2. budget'[c] = budget[c] /\ now' = now
      BY <2>1 DEF Framed, Locals
    <3> QED BY <3>1, <3>2, Zenon
  <2>2. CASE Tick
    BY <2>2 DEF Tick
  <2>3. CASE Consume(c) \/ LoadTokens(c) \/ ComputeWait(c) \/ Wake(c)
    <3>1. UNCHANGED <<r, free, changes, budget, now>>
      BY <2>3 DEF Consume, LoadTokens, ComputeWait, Wake
    <3> QED BY <3>1, Zenon
  <2>4. CASE SetRate /\ c = setting
    BY <1>1, <1>2, <2>4, SetRateEffect
  <2> QED BY <2>1, <2>2, <2>3, <2>4, StepOf DEF LetThrough
<1>4. changes[c] = 0 /\ Unchanged(c) /\ ConsumeFits(c)
  BY <1>3
<1>5. DebtOK(c)'
  BY <1>3, <1>4, DebtStep DEF Unchanged
<1>6. ~free'[c] => BurstOK(c)'
  BY <1>3, <1>4, BurstStep DEF Unchanged
<1>7. budget'[c] = now' * b
  <2>1. (now + 1) * b = now * b + b
    BY <1>2
  <2> QED BY <1>3, <1>4, <2>1 DEF Unchanged
<1> QED BY <1>1, <1>3, <1>4, <1>5, <1>6, <1>7 DEF Unchanged

(* Every step keeps the limiters that no SetRate has reached to their first rate. *)
LEMMA LimitInvStep == LimitInv /\ SteadyFits /\ [Next]_vars => LimitInv'
<1> SUFFICES ASSUME LimitInv, SteadyFits, [Next]_vars PROVE LimitInv'
  OBVIOUS
<1>1. Types /\ Types'
  BY TypesStep DEF LimitInv
<1>2. ASSUME NEW c \in Clients, changes'[c] = 0 PROVE Unchanged(c)'
  BY <1>1, <1>2, UnchangedStep DEF LimitInv, SteadyFits
<1> QED BY <1>1, <1>2 DEF LimitInv

(* One client's share of the limit, over the time so far. *)
LEMMA ShareRespected ==
    ASSUME Types, NEW c \in Clients, changes[c] = 0, Unchanged(c), PerThread > 0
    PROVE  ops[c] * Q <= PerThread * (now + 1)
<1>1. ops[c] * (P * Q) <= budget[c] + r[c] + changes[c] * ((P + b) * Q)
  BY SurplusBound DEF Unchanged
<1>2. ops[c] \in Nat /\ now \in Nat /\ PerThread \in Nat /\ b \in Nat
  BY LocalTypes
<1>3. changes[c] * ((P + b) * Q) = 0
  BY SurplusParts
<1>4. budget[c] + r[c] = (now + 1) * b
  BY <1>2 DEF Unchanged
<1>5. (now + 1) * b = (PerThread * (now + 1)) * P
  <2>1. PICK n \in Nat : n = now + 1
    BY <1>2
  <2>2. n * (PerThread * P) = (n * PerThread) * P /\ n * PerThread = PerThread * n
    BY <1>2, Constants, TimesAssoc
  <2> QED BY <2>1, <2>2 DEF b
<1>6. ops[c] * (P * Q) = (ops[c] * Q) * P
  <2>1. P * Q = Q * P
    BY Constants
  <2> QED BY <2>1, <1>2, Constants, TimesAssoc
<1>7. PICK x \in Nat, y \in Nat : x = ops[c] * Q /\ y = PerThread * (now + 1)
  BY <1>2, Constants, NatTimes
<1>8. x * P <= y * P
  <2>1. (now + 1) * b \in Nat
    BY <1>2, NatTimes
  <2> QED BY <1>1, <1>3, <1>4, <1>5, <1>6, <1>7, <2>1
<1>9. x <= y
  <2>1. ASSUME y + 1 <= x PROVE FALSE
    <3>1. (y + 1) * P <= x * P
      BY <2>1, TimesMonotone, Constants
    <3>2. (y + 1) * P = y * P + P /\ y * P \in Nat /\ x * P \in Nat
      BY Constants, Distribute, NatTimes
    <3> QED BY <3>1, <3>2, <1>8, Constants
  <2> QED BY <2>1
<1> QED BY <1>7, <1>9

(* The limit that the run checks follows from the invariant. *)
LEMMA LimitInvBounds == LimitInv => LimitRespected
<1> SUFFICES ASSUME LimitInv, ops_limit >= N, \A c \in Clients : changes[c] = 0
             PROVE  Total(ops) * Q <= ops_limit * (now + 1)
  BY DEF LimitRespected
<1>1. Types /\ \A c \in Clients : Unchanged(c)
  BY DEF LimitInv
<1>2. ops_limit \in Nat /\ now \in Nat
  <2>1. ops_limit \in Rates
    BY <1>1, LimiterAssumption DEF Types, TypeOK
  <2> QED BY <1>1, <2>1, RateIsNat, Constants DEF Types, TypeOK
<1>3. PICK q \in Nat : q = PerThread /\ q > 0 /\ q * N <= ops_limit
  <2>1. PICK q \in Nat : q = ops_limit \div N /\ q * N <= ops_limit /\ ops_limit < q * N + N
    BY <1>2, DivisionRounds, Constants
  <2>2. q = 0 => q * N = 0
    BY Constants
  <2> QED BY <2>1, <2>2, <1>2, Constants DEF PerThread
<1>4. PICK t \in Nat : t = now + 1
  BY <1>2
<1>5. PICK k \in Nat : k = (q * t) \div Q /\ k * Q <= q * t /\ q * t < k * Q + Q
  BY DivisionRounds, Constants, NatTimes
<1>6. \A c \in Clients : ops[c] \in 0 .. k
  <2> SUFFICES ASSUME NEW c \in Clients PROVE ops[c] \in 0 .. k
    OBVIOUS
  <2>1. ops[c] * Q <= q * t /\ ops[c] \in Nat
    BY <1>1, <1>3, <1>4, ShareRespected, LocalTypes
  <2>2. PICK n \in Nat : n = ops[c]
    BY <2>1
  <2>3. ASSUME k + 1 <= n PROVE FALSE
    <3>1. (k + 1) * Q <= n * Q
      BY <2>3, TimesMonotone, Constants
    <3>2. (k + 1) * Q = k * Q + Q /\ k * Q \in Nat /\ n * Q \in Nat /\ q * t \in Nat
      BY Constants, Distribute, NatTimes
    <3> QED BY <3>1, <3>2, <2>1, <2>2, <1>5, Constants
  <2> QED BY <2>2, <2>3
<1>7. Total(ops) = Sum(ops, Clients)
  BY DEF Total, Sum
<1>8. PICK s \in Nat : s = Total(ops) /\ s <= N * k
  <2>1. Sum(ops, Clients) <= Cardinality(Clients) * k
    BY <1>6, ClientsFinite, SumBound
  <2>2. Sum(ops, Clients) \in Nat
    BY <1>6, ClientsFinite, SumNat
  <2> QED BY <1>7, <2>1, <2>2, ClientsFinite
<1>9. s * Q <= (N * k) * Q
  BY <1>8, TimesMonotone, Constants, NatTimes
<1>10. (N * k) * Q = (k * Q) * N
  <2>1. N * k = k * N /\ N * Q = Q * N
    BY Constants
  <2>2. (k * N) * Q = k * (N * Q) /\ (k * Q) * N = k * (Q * N)
    BY Constants, TimesAssoc
  <2> QED BY <2>1, <2>2
<1>11. (k * Q) * N <= (q * t) * N
  <2>1. k * Q \in Int /\ q * t \in Int
    BY Constants, IntTimes
  <2> QED BY <2>1, <1>5, TimesMonotone, Constants
<1>12. (q * t) * N = (q * N) * t
  <2>1. t * N = N * t
    BY Constants
  <2>2. (q * t) * N = q * (t * N) /\ (q * N) * t = q * (N * t)
    BY Constants, TimesAssoc
  <2> QED BY <2>1, <2>2
<1>13. (q * N) * t <= ops_limit * t
  <2>1. q * N \in Int
    BY Constants, IntTimes
  <2> QED BY <2>1, <1>2, <1>3, TimesMonotone
<1>14. s * Q \in Int /\ (k * Q) * N \in Int /\ (q * N) * t \in Int /\ ops_limit * t \in Int
  <2>1. k * Q \in Int /\ q * N \in Int
    BY Constants, IntTimes
  <2> QED BY <2>1, <1>2, Constants, IntTimes
<1>15. s * Q <= ops_limit * t
  BY <1>9, <1>10, <1>11, <1>12, <1>13, <1>14
<1> QED BY <1>15, <1>8, <1>4

(***************************************************************************)
(* Until the rate file changes a rate, the clients together are let        *)
(* through to no more than limit.ops operations a second, for any limit of *)
(* at least one operation per client, any number of clients and any        *)
(* interleaving of their Consumes and sleeps, while Consume's products     *)
(* fit in int64_t.                                                         *)
(***************************************************************************)
THEOREM LimitIsRespected == Spec /\ []SteadyFits => []LimitRespected
BY LimitInit, LimitInvStep, LimitInvBounds, PTL DEF Spec
=============================================================================
