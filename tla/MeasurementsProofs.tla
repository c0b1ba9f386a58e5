------------------------- MODULE MeasurementsProofs -------------------------
(***************************************************************************)
(* The measurements' safety properties, for every number of clients, calls *)
(* and phases, every latency and every order in which the clients'         *)
(* unsynchronised updates interleave.                                      *)
(*                                                                         *)
(*   1. the inductive invariant: what is logged and not yet in a cell is   *)
(*      in the hands of a client that is between two of Report's updates   *)
(*   2. what each client action does to the client's locals                *)
(*   3. every step preserves every part of the invariant                   *)
(*   4. the theorems                                                       *)
(***************************************************************************)
EXTENDS Measurements, SumLemmas

Pcs == {"call", "store", "count", "sum", "min", "max"}

Locals == [pc : Pcs, n : Nat, op : Ops, lat : Nat, prev : Nat, on : BOOLEAN]

MType ==
    /\ cli \in [Clients -> Locals]
    /\ count \in [Ops -> Nat] /\ latency_sum \in [Ops -> Nat]
    /\ latency_min \in [Ops -> Nat] /\ latency_max \in [Ops -> Nat]
    /\ logged \in [Ops -> [Latencies -> Nat]]
    /\ report_on \in BOOLEAN
    /\ phase \in 1 .. Len(Reports) /\ mpc \in {"join", "emit"}
    /\ \A c \in Clients : cli[c].n <= Reports[phase]
    /\ mpc = "emit" => Finished

(* 1 for a client that has logged a call of op and not counted it yet. *)
Uncounted(op) == [c \in Clients |-> IF cli[c].pc = "count" /\ cli[c].op = op THEN 1 ELSE 0]

(* The latency a client has logged for op and not added yet. *)
Unadded(op) ==
    [c \in Clients |-> IF cli[c].pc \in {"count", "sum"} /\ cli[c].op = op THEN cli[c].lat ELSE 0]

Weighted(op) == [l \in Latencies |-> l * logged[op][l]]

CountInv ==
    \A op \in Ops :
      /\ Sum(Uncounted(op), Clients) <= Sum(logged[op], Latencies)
      /\ count[op] = (Sum(logged[op], Latencies) - Sum(Uncounted(op), Clients)) % U32

SumInv ==
    \A op \in Ops : latency_sum[op] + Sum(Unadded(op), Clients) = Sum(Weighted(op), Latencies)

(* A client still has to compare latency l with the minimum (the maximum) of op. *)
Owes(c, P, op, l) == cli[c].pc \in P /\ cli[c].op = op /\ cli[c].lat = l

BeforeMin == {"count", "sum", "min"}
BeforeMax == {"count", "sum", "min", "max"}

LogInv ==
    \A c \in Clients : cli[c].pc \in BeforeMax =>
        cli[c].lat \in Latencies /\ logged[cli[c].op][cli[c].lat] > 0

MinInv ==
    /\ \A op \in Ops :
         /\ \/ latency_min[op] = Infinity
            \/ latency_min[op] \in Latencies /\ logged[op][latency_min[op]] > 0
         /\ \A l \in Latencies : logged[op][l] > 0 =>
              \/ latency_min[op] <= l
              \/ \E c \in Clients : Owes(c, BeforeMin, op, l)
    /\ \A c \in Clients : cli[c].pc = "min" => latency_min[cli[c].op] <= cli[c].prev

MaxInv ==
    /\ \A op \in Ops :
         /\ \/ latency_max[op] = 0
            \/ latency_max[op] \in Latencies /\ logged[op][latency_max[op]] > 0
         /\ \A l \in Latencies : logged[op][l] > 0 =>
              \/ latency_max[op] >= l
              \/ \E c \in Clients : Owes(c, BeforeMax, op, l)
    /\ \A c \in Clients : cli[c].pc = "max" => latency_max[cli[c].op] >= cli[c].prev

StatsInv == MType /\ LogInv /\ CountInv /\ SumInv /\ MinInv /\ MaxInv

(* start_ is this phase's, or left from the phase before until Start() is called. *)
SkipInv ==
    /\ now \in Nat /\ {start, phase_start} \subseteq {Epoch} \cup Nat
    /\ carried \in BOOLEAN
    /\ spc = "start" => phase_start = Epoch
    /\ \A c \in Clients : cli[c].on => cli[c].pc = "store"
    /\ phase = 1 \/ phase_start # Epoch => phase_start = start
    /\ report_on /\ SecSkip > 0 => SkippedInPhase \/ carried
    /\ \A c \in Clients : cli[c].on /\ SecSkip > 0 => SkippedInPhase \/ carried
    /\ carried => phase = 2

Calls == [c \in Clients |-> cli[c].n]

PeriodInv ==
    /\ {count, seen, last_count} \subseteq [Ops -> 0 .. (U32 - 1)]
    /\ period \in [Ops -> Int] /\ delta \in [Ops -> Int]
    /\ \A op \in Ops :
         /\ Sum(logged[op], Latencies) <= Sum(Calls, Clients)
         /\ seen[op] <= count[op]
         /\ phase = 1 \/ seen[op] # 0 => last_count[op] = seen[op]
         /\ period[op] # delta[op] => phase = 2 /\ delta[op] = seen[op]
-----------------------------------------------------------------------------
(* 2. The client actions. *)

(* The latencies are finitely many naturals below the first minimum. *)
LEMMA LatenciesFinite == IsFiniteSet(Latencies) /\ \A l \in Latencies : l \in Nat /\ l < Infinity
<1>1. 0 \in Int /\ Infinity - 1 \in Int
  BY MeasurementsAssumption
<1>2. IsFiniteSet(0 .. (Infinity - 1))
  BY <1>1, FS_Interval
<1>3. Latencies \subseteq 0 .. (Infinity - 1)
  BY MeasurementsAssumption
<1>4. IsFiniteSet(Latencies)
  BY <1>2, <1>3, FS_Subset
<1>5. \A l \in Latencies : l \in Nat /\ l < Infinity
  BY <1>3, MeasurementsAssumption
<1> QED BY <1>4, <1>5

(* The calls of a phase are a natural number. *)
LEMMA ReportsNat == \A p \in 1 .. Len(Reports) : Reports[p] \in Nat
BY MeasurementsAssumption

(* Every other client keeps its locals. *)
Others(c) == \A d \in Clients \ {c} : cli'[d] = cli[d]

(* Report begins: it logs what it will record, or is on its way to store report_on_. *)
LEMMA CallEffect ==
    ASSUME MType, NEW c \in Clients, Call(c)
    PROVE  /\ cli' \in [Clients -> Locals] /\ Others(c)
           /\ cli[c].pc = "call" /\ cli[c].n < Reports[phase] /\ cli'[c].n = cli[c].n + 1
           /\ \/ /\ report_on /\ cli'[c].pc = "count" /\ cli'[c].on = cli[c].on
                 /\ cli'[c].op \in Ops /\ cli'[c].lat \in Latencies
                 /\ logged' = [logged EXCEPT ![cli'[c].op][cli'[c].lat] = @ + 1]
              \/ /\ ~report_on /\ cli'[c].pc = "store" /\ cli'[c].on = InWindow
                 /\ logged' = logged
<1>1. cli \in [Clients -> Locals] /\ cli[c] \in Locals /\ InWindow \in BOOLEAN
  BY DEF MType, InWindow
<1>2. CASE report_on
  <2>1. PICK op \in Ops, l \in Latencies :
          /\ cli' = [cli EXCEPT ![c].pc = "count", ![c].n = @ + 1, ![c].op = op, ![c].lat = l]
          /\ logged' = [logged EXCEPT ![op][l] = @ + 1]
    BY <1>2 DEF Call
  <2>2. l \in Nat
    BY LatenciesFinite
  <2>3. cli' \in [Clients -> Locals] /\ Others(c)
    BY <1>1, <2>1, <2>2 DEF Locals, Pcs, Others
  <2>4. /\ cli'[c].n = cli[c].n + 1 /\ cli'[c].pc = "count" /\ cli'[c].on = cli[c].on
        /\ cli'[c].op = op /\ cli'[c].lat = l
    BY <1>1, <2>1 DEF Locals
  <2> QED BY <1>2, <2>1, <2>3, <2>4 DEF Call
<1>3. CASE ~report_on
  <2>1. /\ cli' = [cli EXCEPT ![c].pc = "store", ![c].n = @ + 1, ![c].on = InWindow]
        /\ logged' = logged
    BY <1>3 DEF Call
  <2>2. PICK w \in BOOLEAN : w = InWindow
    BY <1>1
  <2>3. cli' = [cli EXCEPT ![c].pc = "store", ![c].n = @ + 1, ![c].on = w]
    BY <2>1, <2>2, Zenon
  <2>4. cli' \in [Clients -> Locals] /\ Others(c)
    BY <1>1, <2>3 DEF Locals, Pcs, Others
  <2>5. cli'[c].n = cli[c].n + 1 /\ cli'[c].pc = "store" /\ cli'[c].on = w
    BY <1>1, <2>3 DEF Locals
  <2> QED BY <1>3, <2>1, <2>2, <2>4, <2>5 DEF Call
<1> QED BY <1>2, <1>3

(* report_on_ is stored, and Report is over. *)
LEMMA StoreEffect ==
    ASSUME MType, NEW c \in Clients, Store(c)
    PROVE  /\ cli' \in [Clients -> Locals] /\ Others(c)
           /\ cli[c].pc = "store" /\ cli'[c].pc = "call" /\ cli'[c].on = FALSE
           /\ cli'[c].n = cli[c].n
BY ZenonT(30) DEF MType, Store, Locals, Pcs, Others

(* The client adds to the count. *)
LEMMA CountEffect ==
    ASSUME MType, NEW c \in Clients, Count(c)
    PROVE  /\ cli' \in [Clients -> Locals] /\ Others(c)
           /\ cli[c].pc = "count" /\ cli'[c].pc = "sum"
           /\ cli'[c].op = cli[c].op /\ cli'[c].lat = cli[c].lat
           /\ cli'[c].n = cli[c].n /\ cli'[c].on = cli[c].on
BY DEF MType, Count, Locals, Pcs, Others

(* The client adds to the sum and reads the minimum. *)
LEMMA AddEffect ==
    ASSUME MType, NEW c \in Clients, AddLatency(c)
    PROVE  /\ cli' \in [Clients -> Locals] /\ Others(c)
           /\ cli[c].pc = "sum" /\ cli'[c].pc = "min"
           /\ cli'[c].op = cli[c].op /\ cli'[c].lat = cli[c].lat
           /\ cli'[c].n = cli[c].n /\ cli'[c].on = cli[c].on
           /\ cli'[c].prev = latency_min[cli[c].op]
BY DEF MType, AddLatency, Locals, Pcs, Others

(* One turn of the loop that lowers the minimum. *)
LEMMA MinEffect ==
    ASSUME MType, NEW c \in Clients, UpdateMin(c)
    PROVE  /\ cli' \in [Clients -> Locals] /\ Others(c)
           /\ cli[c].pc = "min" /\ cli'[c].op = cli[c].op /\ cli'[c].lat = cli[c].lat
           /\ cli'[c].n = cli[c].n /\ cli'[c].on = cli[c].on
           /\ \/ /\ cli[c].prev > cli[c].lat /\ latency_min[cli[c].op] = cli[c].prev
                 /\ latency_min' = [latency_min EXCEPT ![cli[c].op] = cli[c].lat]
                 /\ cli'[c].pc = "max" /\ cli'[c].prev = latency_max[cli[c].op]
              \/ /\ latency_min' = latency_min
                 /\ cli'[c].pc = "min" /\ cli'[c].prev = latency_min[cli[c].op]
              \/ /\ cli[c].prev <= cli[c].lat /\ latency_min' = latency_min
                 /\ cli'[c].pc = "max" /\ cli'[c].prev = latency_max[cli[c].op]
<1>1. cli \in [Clients -> Locals] /\ cli[c] \in Locals /\ cli[c].op \in Ops
  BY DEF MType, Locals
<1>2. latency_min[cli[c].op] \in Nat /\ latency_max[cli[c].op] \in Nat
  BY <1>1 DEF MType
<1>3. cli[c].pc = "min"
  BY DEF UpdateMin
<1>4. CASE /\ cli[c].prev > cli[c].lat /\ latency_min[cli[c].op] = cli[c].prev
           /\ latency_min' = [latency_min EXCEPT ![cli[c].op] = cli[c].lat]
           /\ cli' = [cli EXCEPT ![c].pc = "max", ![c].prev = latency_max[cli[c].op]]
  BY <1>1, <1>2, <1>3, <1>4 DEF Locals, Pcs, Others
<1>5. CASE /\ latency_min' = latency_min
           /\ cli' = [cli EXCEPT ![c].prev = latency_min[cli[c].op]]
  BY <1>1, <1>2, <1>3, <1>5 DEF Locals, Pcs, Others
<1>6. CASE /\ cli[c].prev <= cli[c].lat /\ latency_min' = latency_min
           /\ cli' = [cli EXCEPT ![c].pc = "max", ![c].prev = latency_max[cli[c].op]]
  BY <1>1, <1>2, <1>3, <1>6 DEF Locals, Pcs, Others
<1> QED BY <1>4, <1>5, <1>6, Zenon DEF UpdateMin, Swaps

(* One turn of the loop that raises the maximum. *)
LEMMA MaxEffect ==
    ASSUME MType, NEW c \in Clients, UpdateMax(c)
    PROVE  /\ cli' \in [Clients -> Locals] /\ Others(c)
           /\ cli[c].pc = "max" /\ cli'[c].op = cli[c].op /\ cli'[c].lat = cli[c].lat
           /\ cli'[c].n = cli[c].n /\ cli'[c].on = cli[c].on
           /\ \/ /\ cli[c].prev < cli[c].lat /\ latency_max[cli[c].op] = cli[c].prev
                 /\ latency_max' = [latency_max EXCEPT ![cli[c].op] = cli[c].lat]
                 /\ cli'[c].pc = "call"
              \/ /\ latency_max' = latency_max
                 /\ cli'[c].pc = "max" /\ cli'[c].prev = latency_max[cli[c].op]
              \/ /\ cli[c].prev >= cli[c].lat /\ latency_max' = latency_max
                 /\ cli'[c].pc = "call"
<1>1. cli \in [Clients -> Locals] /\ cli[c] \in Locals /\ cli[c].op \in Ops
  BY DEF MType, Locals
<1>2. latency_max[cli[c].op] \in Nat
  BY <1>1 DEF MType
<1>3. cli[c].pc = "max"
  BY DEF UpdateMax
<1>4. CASE /\ cli[c].prev < cli[c].lat /\ latency_max[cli[c].op] = cli[c].prev
           /\ latency_max' = [latency_max EXCEPT ![cli[c].op] = cli[c].lat]
           /\ cli' = [cli EXCEPT ![c].pc = "call", ![c].prev = 0]
  BY <1>1, <1>2, <1>3, <1>4 DEF Locals, Pcs, Others
<1>5. CASE /\ latency_max' = latency_max
           /\ cli' = [cli EXCEPT ![c].prev = latency_max[cli[c].op]]
  BY <1>1, <1>2, <1>3, <1>5 DEF Locals, Pcs, Others
<1>6. CASE /\ cli[c].prev >= cli[c].lat /\ latency_max' = latency_max
           /\ cli' = [cli EXCEPT ![c].pc = "call", ![c].prev = 0]
  BY <1>1, <1>2, <1>3, <1>6 DEF Locals, Pcs, Others
<1> QED BY <1>4, <1>5, <1>6, Zenon DEF UpdateMax, Swaps

(* The next phase starts with every client's locals as they were but n. *)
LEMMA ResetEffect ==
    ASSUME MType, Reset
    PROVE  /\ cli' \in [Clients -> Locals]
           /\ \A c \in Clients : /\ cli'[c].pc = "call" /\ cli'[c].n = 0
                                 /\ cli'[c].on = cli[c].on
<1>1. \A c \in Clients : cli[c] \in Locals /\ cli[c].pc = "call"
  BY DEF MType, Reset, Finished
<1>2. cli' = [c \in Clients |-> [cli[c] EXCEPT !.n = 0]]
  BY DEF Reset
<1> QED BY <1>1, <1>2 DEF Locals, Pcs

(* What the other steps leave alone. *)
LEMMA OtherSteps ==
    ASSUME Start \/ PrintOp \/ Await \/ Tick \/ UNCHANGED vars
    PROVE  UNCHANGED <<stats, report_on, cli, mpc, phase, logged>>
BY DEF Start, PrintOp, Await, Tick, vars, status

-----------------------------------------------------------------------------
(* 3. The invariant. *)

(* What is logged and what is not in a cell yet add up to naturals. *)
LEMMA SumsNat ==
    ASSUME MType, NEW op \in Ops
    PROVE  /\ Sum(Uncounted(op), Clients) \in Nat /\ Sum(Unadded(op), Clients) \in Nat
           /\ Sum(logged[op], Latencies) \in Nat /\ Sum(Weighted(op), Latencies) \in Nat
<1>1. \A c \in Clients : Uncounted(op)[c] \in Nat
  BY DEF Uncounted
<1>2. \A c \in Clients : Unadded(op)[c] \in Nat
  BY DEF Unadded, MType, Locals
<1>3. \A l \in Latencies : logged[op][l] \in Nat
  BY DEF MType
<1>4. \A l \in Latencies : Weighted(op)[l] \in Nat
  BY <1>3, LatenciesFinite DEF Weighted
<1>5. IsFiniteSet(Clients)
  BY MeasurementsAssumption
<1>6. Sum(Uncounted(op), Clients) \in Nat
  BY <1>1, <1>5, SumNat
<1>7. Sum(Unadded(op), Clients) \in Nat
  BY <1>2, <1>5, SumNat
<1>8. Sum(logged[op], Latencies) \in Nat
  BY <1>3, LatenciesFinite, SumNat
<1>9. Sum(Weighted(op), Latencies) \in Nat
  BY <1>4, LatenciesFinite, SumNat
<1> QED BY <1>6, <1>7, <1>8, <1>9

(* The same in the next state. *)
LEMMA SumsNatNext ==
    ASSUME MType', NEW op \in Ops
    PROVE  /\ Sum(Uncounted(op)', Clients) \in Nat /\ Sum(Unadded(op)', Clients) \in Nat
           /\ Sum(logged'[op], Latencies) \in Nat /\ Sum(Weighted(op)', Latencies) \in Nat
<1>1. \A c \in Clients : Uncounted(op)'[c] \in Nat
  BY DEF Uncounted
<1>2. \A c \in Clients : Unadded(op)'[c] \in Nat
  BY DEF Unadded, MType, Locals
<1>3. \A l \in Latencies : logged'[op][l] \in Nat
  BY DEF MType
<1>4. \A l \in Latencies : Weighted(op)'[l] \in Nat
  BY <1>3, LatenciesFinite DEF Weighted
<1>5. IsFiniteSet(Clients)
  BY MeasurementsAssumption
<1>6. Sum(Uncounted(op)', Clients) \in Nat
  BY <1>1, <1>5, SumNat
<1>7. Sum(Unadded(op)', Clients) \in Nat
  BY <1>2, <1>5, SumNat
<1>8. Sum(logged'[op], Latencies) \in Nat
  BY <1>3, LatenciesFinite, SumNat
<1>9. Sum(Weighted(op)', Latencies) \in Nat
  BY <1>4, LatenciesFinite, SumNat
<1> QED BY <1>6, <1>7, <1>8, <1>9

(* A step of one client changes what is in flight by that client's part. *)
LEMMA InFlight ==
    ASSUME MType, MType', NEW c \in Clients, Others(c), NEW op \in Ops
    PROVE  /\ Sum(Uncounted(op), Clients) + Uncounted(op)'[c]
                = Sum(Uncounted(op)', Clients) + Uncounted(op)[c]
           /\ Sum(Unadded(op), Clients) + Unadded(op)'[c]
                = Sum(Unadded(op)', Clients) + Unadded(op)[c]
<1>1. IsFiniteSet(Clients)
  BY MeasurementsAssumption
<1> DEFINE u == Uncounted(op)  v == Uncounted(op)'  s == Unadded(op)  t == Unadded(op)'
<1>2. /\ \A x \in Clients : u[x] \in Nat /\ v[x] \in Nat
      /\ \A x \in Clients \ {c} : u[x] = v[x]
  BY DEF Uncounted, Others
<1>3. /\ \A x \in Clients : s[x] \in Nat
      /\ \A x \in Clients : t[x] \in Nat
      /\ \A x \in Clients \ {c} : s[x] = t[x]
  <2>1. \A x \in Clients : s[x] \in Nat
    BY DEF Unadded, MType, Locals
  <2>2. \A x \in Clients : t[x] \in Nat
    BY DEF Unadded, MType, Locals
  <2>3. \A x \in Clients \ {c} : s[x] = t[x]
    BY DEF Unadded, Others
  <2> QED BY <2>1, <2>2, <2>3
<1> HIDE DEF u, v, s, t
<1>4. Sum(u, Clients) + v[c] = Sum(v, Clients) + u[c]
  BY <1>1, <1>2, SumUpdate
<1>5. Sum(s, Clients) + t[c] = Sum(t, Clients) + s[c]
  BY <1>1, <1>3, SumUpdate
<1> QED BY <1>4, <1>5 DEF u, v, s, t

(* Logging a call of op that took l. *)
LEMMA Logging ==
    ASSUME MType, MType', NEW op \in Ops, NEW l \in Latencies,
           logged' = [logged EXCEPT ![op][l] = @ + 1], NEW o \in Ops
    PROVE  /\ Sum(logged'[o], Latencies) = Sum(logged[o], Latencies) + (IF o = op THEN 1 ELSE 0)
           /\ Sum(Weighted(o)', Latencies)
                = Sum(Weighted(o), Latencies) + (IF o = op THEN l ELSE 0)
<1> DEFINE g == logged[o]  h == logged'[o]  u == Weighted(o)  v == Weighted(o)'
<1>0. /\ \A x \in Latencies : g[x] \in Nat
      /\ \A x \in Latencies : h[x] \in Nat
  <2>1. g \in [Latencies -> Nat]
    BY DEF MType
  <2>2. h \in [Latencies -> Nat]
    BY DEF MType
  <2> QED BY <2>1, <2>2
<1>1. /\ \A x \in Latencies \ {l} : g[x] = h[x]
      /\ h[l] = g[l] + (IF o = op THEN 1 ELSE 0)
  <2>1. logged \in [Ops -> [Latencies -> Nat]]
    BY DEF MType
  <2>2. g \in [Latencies -> Nat]
    BY DEF MType
  <2>3. CASE o = op
    <3>1. h = [g EXCEPT ![l] = @ + 1]
      BY <2>1, <2>3
    <3> HIDE DEF g, h
    <3> QED BY <2>2, <2>3, <3>1
  <2>4. CASE o # op
    <3>1. h = g
      BY <2>1, <2>4
    <3> HIDE DEF g, h
    <3> QED BY <2>2, <2>4, <3>1
  <2> QED BY <2>3, <2>4
<1>2. \A x \in Latencies : u[x] = x * g[x] /\ v[x] = x * h[x]
  BY DEF Weighted
<1> HIDE DEF g, h, u, v
<1>3. Sum(g, Latencies) + h[l] = Sum(h, Latencies) + g[l]
  BY <1>0, <1>1, LatenciesFinite, SumUpdate
<1>4. /\ \A x \in Latencies : u[x] \in Nat
      /\ \A x \in Latencies : v[x] \in Nat
      /\ \A x \in Latencies \ {l} : u[x] = v[x]
  BY <1>0, <1>1, <1>2, LatenciesFinite
<1>5. Sum(u, Latencies) + v[l] = Sum(v, Latencies) + u[l]
  BY <1>4, LatenciesFinite, SumUpdate
<1>6. v[l] = u[l] + (IF o = op THEN l ELSE 0)
  <2>1. l \in Nat /\ g[l] \in Nat
    BY <1>0, LatenciesFinite
  <2>2. l * (g[l] + 1) = l * g[l] + l
    BY <2>1
  <2> QED BY <1>1, <1>2, <2>1, <2>2
<1>7. /\ Sum(g, Latencies) \in Nat /\ Sum(h, Latencies) \in Nat
      /\ Sum(u, Latencies) \in Nat /\ Sum(v, Latencies) \in Nat
  BY SumsNat, SumsNatNext DEF g, h, u, v
<1>8. l \in Nat /\ g[l] \in Nat /\ u[l] \in Nat
  BY <1>0, <1>4, LatenciesFinite
<1>9. Sum(h, Latencies) = Sum(g, Latencies) + (IF o = op THEN 1 ELSE 0)
  BY <1>1, <1>3, <1>7, <1>8
<1>10. Sum(v, Latencies) = Sum(u, Latencies) + (IF o = op THEN l ELSE 0)
  BY <1>5, <1>6, <1>7, <1>8
<1> QED BY <1>9, <1>10 DEF g, h, u, v

(* Counting modulo m: unsigned overflow loses nothing but the multiples of m. *)
LEMMA ModSucc ==
    ASSUME NEW x \in Nat, NEW m \in Nat \ {0}
    PROVE  ((x % m) + 1) % m = (x + 1) % m
<1>1. PICK q \in Nat, r \in Nat : x = m * q + r /\ r < m /\ r = x % m
  <2>1. x = m * (x \div m) + (x % m) /\ x % m \in Nat /\ x % m < m /\ x \div m \in Nat
    OBVIOUS
  <2> QED BY <2>1
<1>2. CASE r + 1 < m
  <2>1. (r + 1) % m = r + 1
    BY <1>2
  <2>2. (m * q + (r + 1)) % m = r + 1
    BY <1>2
  <2>3. x + 1 = m * q + (r + 1)
    BY <1>1
  <2> QED BY <1>1, <2>1, <2>2, <2>3
<1>3. CASE r + 1 = m
  <2>1. (r + 1) % m = 0
    BY <1>3
  <2>2. m * (q + 1) = m * q + m
    OBVIOUS
  <2>3. x + 1 = m * (q + 1)
    <3>1. PICK p \in Nat : p = m * q
      OBVIOUS
    <3>2. x = p + r /\ m * (q + 1) = p + m
      BY <1>1, <2>2, <3>1, Zenon
    <3> QED BY <1>3, <3>2
  <2>4. (m * (q + 1)) % m = 0
    OBVIOUS
  <2> QED BY <1>1, <2>1, <2>3, <2>4
<1> QED BY <1>1, <1>2, <1>3

(* Between the phases nothing is in flight and nothing logged. *)
LEMMA EmptySums ==
    ASSUME \A c \in Clients : cli[c].pc = "call", NEW op \in Ops,
           logged[op] = [l \in Latencies |-> 0]
    PROVE  /\ Sum(Uncounted(op), Clients) = 0 /\ Sum(Unadded(op), Clients) = 0
           /\ Sum(logged[op], Latencies) = 0 /\ Sum(Weighted(op), Latencies) = 0
<1>1. \A c \in Clients : Uncounted(op)[c] = 0
  BY DEF Uncounted
<1>2. \A c \in Clients : Unadded(op)[c] = 0
  BY DEF Unadded
<1>3. \A l \in Latencies : logged[op][l] = 0
  OBVIOUS
<1>4. \A l \in Latencies : Weighted(op)[l] = 0
  BY <1>3, LatenciesFinite DEF Weighted
<1>5. IsFiniteSet(Clients) /\ IsFiniteSet(Latencies)
  BY MeasurementsAssumption, LatenciesFinite
<1>6. Sum(Uncounted(op), Clients) = 0
  BY <1>1, <1>5, SumZero
<1>7. Sum(Unadded(op), Clients) = 0
  BY <1>2, <1>5, SumZero
<1>8. Sum(logged[op], Latencies) = 0
  BY <1>3, <1>5, SumZero
<1>9. Sum(Weighted(op), Latencies) = 0
  BY <1>4, <1>5, SumZero
<1> QED BY <1>6, <1>7, <1>8, <1>9

(* After Reset nothing is logged and nothing is on its way. *)
LEMMA EmptySumsNext ==
    ASSUME \A c \in Clients : cli'[c].pc = "call", NEW op \in Ops,
           logged'[op] = [l \in Latencies |-> 0]
    PROVE  /\ Sum(Uncounted(op)', Clients) = 0 /\ Sum(Unadded(op)', Clients) = 0
           /\ Sum(logged'[op], Latencies) = 0 /\ Sum(Weighted(op)', Latencies) = 0
<1>1. \A c \in Clients : Uncounted(op)'[c] = 0
  BY DEF Uncounted
<1>2. \A c \in Clients : Unadded(op)'[c] = 0
  BY DEF Unadded
<1>3. \A l \in Latencies : logged'[op][l] = 0
  OBVIOUS
<1>4. \A l \in Latencies : Weighted(op)'[l] = 0
  BY <1>3, LatenciesFinite DEF Weighted
<1>5. IsFiniteSet(Clients) /\ IsFiniteSet(Latencies)
  BY MeasurementsAssumption, LatenciesFinite
<1>6. Sum(Uncounted(op)', Clients) = 0
  BY <1>1, <1>5, SumZero
<1>7. Sum(Unadded(op)', Clients) = 0
  BY <1>2, <1>5, SumZero
<1>8. Sum(logged'[op], Latencies) = 0
  BY <1>3, <1>5, SumZero
<1>9. Sum(Weighted(op)', Latencies) = 0
  BY <1>4, <1>5, SumZero
<1> QED BY <1>6, <1>7, <1>8, <1>9

ClientStep(c) ==
    Call(c) \/ Store(c) \/ Count(c) \/ AddLatency(c) \/ UpdateMin(c) \/ UpdateMax(c)

(* The steps, by what they do to the measurements. *)
LEMMA NextCases ==
    ASSUME [Next]_vars
    PROVE  \/ \E c \in Clients : ClientStep(c)
           \/ Start \/ PrintOp \/ Await \/ Tick \/ UNCHANGED vars
           \/ Emit
           \/ Reset
BY DEF Next, ClientStep

(* A client moves only while main waits for the clients. *)
LEMMA ClientMoves ==
    ASSUME MType, NEW c \in Clients, ClientStep(c)
    PROVE  /\ cli' \in [Clients -> Locals] /\ Others(c)
           /\ mpc = "join" /\ mpc' = "join" /\ phase' = phase
           /\ \A d \in Clients : cli'[d].n <= Reports[phase]
<1>1. /\ cli' \in [Clients -> Locals] /\ Others(c)
      /\ cli[c].pc # "call" \/ cli[c].n < Reports[phase]
      /\ \/ cli'[c].n = cli[c].n
         \/ cli[c].n < Reports[phase] /\ cli'[c].n = cli[c].n + 1
  BY CallEffect, StoreEffect, CountEffect, AddEffect, MinEffect, MaxEffect DEF ClientStep
<1>2. cli[c].n \in Nat /\ Reports[phase] \in Nat
  BY ReportsNat DEF MType, Locals
<1>3. mpc # "emit"
  BY <1>1, <1>2 DEF MType, Finished
<1>4. mpc' = mpc /\ phase' = phase
  BY DEF ClientStep, Call, Store, Count, AddLatency, UpdateMin, UpdateMax
<1>5. \A d \in Clients : cli[d].n <= Reports[phase]
  BY DEF MType
<1>6. \A d \in Clients : cli'[d].n <= Reports[phase]
  BY <1>1, <1>2, <1>5 DEF Others
<1> QED BY <1>1, <1>3, <1>4, <1>6 DEF MType

(* The invariant holds for empty measurements. *)
LEMMA InitStats == Init => StatsInv
<1> SUFFICES ASSUME Init PROVE StatsInv
  OBVIOUS
<1>1. Reports[1] \in Nat /\ 1 \in 1 .. Len(Reports) /\ Infinity \in Nat
  BY ReportsNat, MeasurementsAssumption
<1>2. \A c \in Clients : /\ cli[c] \in Locals /\ cli[c].n = 0 /\ cli[c].pc = "call"
  BY DEF Init, Locals, Pcs, Ops
<1>3. cli \in [Clients -> Locals]
  BY <1>2 DEF Init
<1>4. \A op \in Ops : logged[op] = [l \in Latencies |-> 0]
  BY DEF Init
<1>5. report_on \in BOOLEAN
  BY DEF Init
<1>6. MType
  <2>1. logged \in [Ops -> [Latencies -> Nat]]
    BY DEF Init
  <2>2. /\ count \in [Ops -> Nat] /\ latency_sum \in [Ops -> Nat]
        /\ latency_min \in [Ops -> Nat] /\ latency_max \in [Ops -> Nat]
    BY <1>1 DEF Init, Zero
  <2>3. phase = 1 /\ mpc = "join"
    BY DEF Init
  <2> QED BY <1>1, <1>2, <1>3, <1>5, <2>1, <2>2, <2>3 DEF MType
<1>7. IsFiniteSet(Clients) /\ IsFiniteSet(Latencies)
  BY MeasurementsAssumption, LatenciesFinite
<1>8. ASSUME NEW op \in Ops
      PROVE  /\ Sum(Uncounted(op), Clients) = 0 /\ Sum(Unadded(op), Clients) = 0
             /\ Sum(logged[op], Latencies) = 0 /\ Sum(Weighted(op), Latencies) = 0
  BY <1>2, <1>4, <1>7, EmptySums
<1>9. LogInv
  BY <1>2 DEF LogInv, BeforeMax
<1>10. CountInv
  <2>1. 0 % U32 = 0
    BY MeasurementsAssumption
  <2> QED BY <1>8, <2>1 DEF CountInv, Init, Zero
<1>11. SumInv
  BY <1>8 DEF SumInv, Init, Zero
<1>12. MinInv
  BY <1>2, <1>4 DEF MinInv, Init
<1>13. MaxInv
  BY <1>2, <1>4 DEF MaxInv, Init, Zero
<1> QED BY <1>6, <1>9, <1>10, <1>11, <1>12, <1>13 DEF StatsInv

(* Every step keeps the types. *)
LEMMA NextMType == ASSUME MType, [Next]_vars PROVE MType'
<1>1. ASSUME NEW c \in Clients, ClientStep(c) PROVE MType'
  <2>1. /\ cli' \in [Clients -> Locals]
        /\ mpc' = "join" /\ phase' = phase
        /\ \A d \in Clients : cli'[d].n <= Reports[phase]
    BY <1>1, ClientMoves
  <2>2. cli[c] \in Locals /\ cli[c].op \in Ops /\ cli[c].lat \in Nat
    BY DEF MType, Locals
  <2>3. \A op \in Ops, l \in Latencies :
          [logged EXCEPT ![op][l] = @ + 1] \in [Ops -> [Latencies -> Nat]]
    <3> SUFFICES ASSUME NEW op \in Ops, NEW l \in Latencies
                 PROVE [logged EXCEPT ![op][l] = @ + 1] \in [Ops -> [Latencies -> Nat]]
      OBVIOUS
    <3>1. logged \in [Ops -> [Latencies -> Nat]] /\ logged[op] \in [Latencies -> Nat]
      BY DEF MType
    <3>2. [logged[op] EXCEPT ![l] = @ + 1] \in [Latencies -> Nat]
      BY <3>1
    <3> QED BY <3>1, <3>2
  <2>4. logged' \in [Ops -> [Latencies -> Nat]]
    <3>1. logged \in [Ops -> [Latencies -> Nat]]
      BY DEF MType
    <3>2. logged' = logged \/ \E op \in Ops, l \in Latencies :
                                 logged' = [logged EXCEPT ![op][l] = @ + 1]
      BY <1>1, Zenon DEF ClientStep, Call, Store, Count, AddLatency, UpdateMin, UpdateMax
    <3> QED BY <2>3, <3>1, <3>2
  <2>5. count' \in [Ops -> Nat]
    <3>1. count \in [Ops -> Nat] /\ U32 \in Nat \ {0}
      BY MeasurementsAssumption DEF MType
    <3>2. count' = count \/ count' = [count EXCEPT ![cli[c].op] = (@ + 1) % U32]
      BY <1>1 DEF ClientStep, Call, Store, Count, AddLatency, UpdateMin, UpdateMax, stats
    <3>3. \A k \in Nat : (k + 1) % U32 \in Nat
      BY <3>1
    <3> QED BY <2>2, <3>1, <3>2, <3>3
  <2>6. latency_sum' \in [Ops -> Nat]
    <3>1. latency_sum \in [Ops -> Nat]
      BY DEF MType
    <3>2. \/ latency_sum' = latency_sum
          \/ latency_sum' = [latency_sum EXCEPT ![cli[c].op] = @ + cli[c].lat]
      BY <1>1 DEF ClientStep, Call, Store, Count, AddLatency, UpdateMin, UpdateMax, stats
    <3> QED BY <2>2, <3>1, <3>2
  <2>7. latency_min' \in [Ops -> Nat]
    <3>1. latency_min \in [Ops -> Nat]
      BY SMTT(30) DEF MType
    <3>2. \/ latency_min' = latency_min
          \/ latency_min' = [latency_min EXCEPT ![cli[c].op] = cli[c].lat]
      BY <1>1, MinEffect DEF ClientStep, Call, Store, Count, AddLatency, UpdateMax, stats
    <3> QED BY <2>2, <3>1, <3>2
  <2>8. latency_max' \in [Ops -> Nat]
    <3>1. latency_max \in [Ops -> Nat]
      BY SMTT(30) DEF MType
    <3>2. \/ latency_max' = latency_max
          \/ latency_max' = [latency_max EXCEPT ![cli[c].op] = cli[c].lat]
      BY <1>1, MaxEffect DEF ClientStep, Call, Store, Count, AddLatency, UpdateMin, stats
    <3> QED BY <2>2, <3>1, <3>2
  <2>9. report_on' \in BOOLEAN
    <3>1. report_on' = report_on \/ report_on' = cli[c].on
      BY <1>1, Zenon DEF ClientStep, Call, Store, Count, AddLatency, UpdateMin, UpdateMax
    <3>2. report_on \in BOOLEAN /\ cli[c].on \in BOOLEAN
      BY <2>2 DEF MType, Locals
    <3> QED BY <3>1, <3>2, Zenon
  <2>10. phase' \in 1 .. Len(Reports)
    BY <2>1 DEF MType
  <2> QED BY <2>1, <2>4, <2>5, <2>6, <2>7, <2>8, <2>9, <2>10 DEF MType
<1>2. CASE Start \/ PrintOp \/ Await \/ Tick \/ UNCHANGED vars
  BY <1>2, OtherSteps DEF MType, Finished, stats
<1>3. CASE Emit
  BY <1>3 DEF Emit, MType, Finished, stats
<1>4. CASE Reset
  <2>1. phase' \in 1 .. Len(Reports) /\ mpc' = "join" /\ report_on' = report_on
    BY <1>4 DEF Reset, MType
  <2>2. \A c \in Clients : cli'[c].n <= Reports[phase']
    BY <1>4, <2>1, ResetEffect, ReportsNat
  <2>3. /\ count' \in [Ops -> Nat] /\ latency_sum' \in [Ops -> Nat]
        /\ latency_min' \in [Ops -> Nat] /\ latency_max' \in [Ops -> Nat]
        /\ logged' \in [Ops -> [Latencies -> Nat]]
    BY <1>4, MeasurementsAssumption DEF Reset, ResetStats, Zero
  <2>4. cli' \in [Clients -> Locals]
    BY <1>4, ResetEffect
  <2> QED BY <2>1, <2>2, <2>3, <2>4 DEF MType
<1> QED BY <1>1, <1>2, <1>3, <1>4, NextCases

(* Within a phase a client only adds to the log. *)
LEMMA LoggedGrows ==
    ASSUME MType, NEW c \in Clients, ClientStep(c)
    PROVE  \A op \in Ops, l \in Latencies : logged'[op][l] >= logged[op][l]
<1> SUFFICES ASSUME NEW op \in Ops, NEW l \in Latencies PROVE logged'[op][l] >= logged[op][l]
  OBVIOUS
<1>1. logged \in [Ops -> [Latencies -> Nat]] /\ logged[op] \in [Latencies -> Nat]
  BY DEF MType
<1>2. logged' = logged \/ \E o \in Ops, k \in Latencies :
                                 logged' = [logged EXCEPT ![o][k] = @ + 1]
  BY Zenon DEF ClientStep, Call, Store, Count, AddLatency, UpdateMin, UpdateMax
<1>3. ASSUME NEW o \in Ops, NEW k \in Latencies, logged' = [logged EXCEPT ![o][k] = @ + 1]
      PROVE  logged'[op][l] >= logged[op][l]
  <2>1. CASE o = op
    <3>1. logged'[op] = [logged[op] EXCEPT ![k] = @ + 1]
      BY <1>1, <1>3, <2>1
    <3> QED BY <1>1, <3>1
  <2>2. CASE o # op
    BY <1>1, <1>3, <2>2
  <2> QED BY <2>1, <2>2
<1> QED BY <1>1, <1>2, <1>3

(* Every step keeps each client's report among those logged. *)
LEMMA NextLog == ASSUME StatsInv, [Next]_vars PROVE LogInv'
<1>0. MType /\ LogInv
  BY DEF StatsInv
<1>1. ASSUME NEW c \in Clients, ClientStep(c) PROVE LogInv'
  <2> SUFFICES ASSUME NEW d \in Clients, cli'[d].pc \in BeforeMax
               PROVE  cli'[d].lat \in Latencies /\ logged'[cli'[d].op][cli'[d].lat] > 0
    BY DEF LogInv
  <2>1. \A op \in Ops, l \in Latencies :
          /\ logged[op][l] \in Nat /\ logged'[op][l] \in Nat
          /\ logged'[op][l] >= logged[op][l]
    <3>1. \A op \in Ops : logged[op] \in [Latencies -> Nat]
      BY <1>0 DEF MType
    <3>2. \A op \in Ops : logged'[op] \in [Latencies -> Nat]
      BY <1>0, NextMType DEF MType
    <3> QED BY <1>0, <1>1, LoggedGrows, <3>1, <3>2
  <2>2. CASE d # c
    <3>1. cli'[d] = cli[d]
      BY <1>0, <1>1, <2>2, ClientMoves DEF Others
    <3>2. cli[d].op \in Ops /\ cli[d].lat \in Latencies /\ logged[cli[d].op][cli[d].lat] > 0
      BY <1>0, <3>1 DEF LogInv, MType, Locals
    <3> QED BY <2>1, <3>1, <3>2
  <2>3. CASE d = c /\ Call(c)
    <3>1. /\ cli'[c].op \in Ops /\ cli'[c].lat \in Latencies
          /\ logged' = [logged EXCEPT ![cli'[c].op][cli'[c].lat] = @ + 1]
      BY <1>0, <2>3, CallEffect DEF BeforeMax
    <3>2. PICK op \in Ops, l \in Latencies : op = cli'[c].op /\ l = cli'[c].lat
      BY <3>1
    <3>3. logged' = [logged EXCEPT ![op][l] = @ + 1]
      BY <3>1, <3>2
    <3>4. logged \in [Ops -> [Latencies -> Nat]] /\ logged[op] \in [Latencies -> Nat]
      BY <1>0 DEF MType
    <3>5. logged'[op] = [logged[op] EXCEPT ![l] = @ + 1]
      BY <3>3, <3>4
    <3>6. logged'[op][l] > 0
      BY <3>4, <3>5
    <3> QED BY <2>3, <3>1, <3>2, <3>6
  <2>4. CASE d = c /\ ~Call(c)
    <3>1. cli[c].pc \in BeforeMax /\ cli'[c].op = cli[c].op /\ cli'[c].lat = cli[c].lat
      BY <1>0, <1>1, <2>4, StoreEffect, CountEffect, AddEffect, MinEffect, MaxEffect
         DEF ClientStep, BeforeMax
    <3>2. cli[c].op \in Ops /\ cli[c].lat \in Latencies /\ logged[cli[c].op][cli[c].lat] > 0
      BY <1>0, <3>1 DEF LogInv, MType, Locals
    <3> QED BY <2>1, <2>4, <3>1, <3>2
  <2> QED BY <2>2, <2>3, <2>4
<1>2. CASE Start \/ PrintOp \/ Await \/ Tick \/ UNCHANGED vars
  BY <1>0, <1>2, OtherSteps DEF LogInv
<1>3. CASE Emit
  BY <1>0, <1>3 DEF Emit, LogInv
<1>4. CASE Reset
  BY <1>0, <1>4, ResetEffect DEF LogInv, BeforeMax
<1> QED BY <1>1, <1>2, <1>3, <1>4, NextCases

(* Every step keeps the count: logged, less those not counted yet, modulo 2^32. *)
LEMMA NextCount == ASSUME StatsInv, [Next]_vars PROVE CountInv'
<1>0. MType /\ MType' /\ CountInv
  BY NextMType DEF StatsInv
<1>1. ASSUME NEW c \in Clients, ClientStep(c) PROVE CountInv'
  <2> SUFFICES ASSUME NEW op \in Ops
               PROVE  /\ Sum(Uncounted(op)', Clients) <= Sum(logged'[op], Latencies)
                      /\ count'[op] = (Sum(logged'[op], Latencies)
                                         - Sum(Uncounted(op)', Clients)) % U32
    BY DEF CountInv
  <2>1. Others(c)
    BY <1>0, <1>1, ClientMoves
  <2>2. PICK a \in Nat, b \in Nat, x \in Nat, y \in Nat :
          /\ a = Sum(Uncounted(op), Clients) /\ b = Sum(Uncounted(op)', Clients)
          /\ x = Sum(logged[op], Latencies) /\ y = Sum(logged'[op], Latencies)
    BY <1>0, SumsNat, SumsNatNext, Zenon
  <2>3. a + Uncounted(op)'[c] = b + Uncounted(op)[c]
    BY <1>0, <2>1, <2>2, InFlight, Zenon
  <2>4. a <= x /\ count[op] = (x - a) % U32
    BY <1>0, <2>2 DEF CountInv
  <2>5. /\ Uncounted(op)[c] = IF cli[c].pc = "count" /\ cli[c].op = op THEN 1 ELSE 0
        /\ Uncounted(op)'[c] = IF cli'[c].pc = "count" /\ cli'[c].op = op THEN 1 ELSE 0
    BY DEF Uncounted
  <2>6. CASE Call(c)
    <3>1. cli[c].pc = "call" /\ count' = count
      BY <2>6, CallEffect DEF Call, stats
    <3>2. CASE report_on
      <4>1. /\ cli'[c].pc = "count" /\ cli'[c].op \in Ops /\ cli'[c].lat \in Latencies
            /\ logged' = [logged EXCEPT ![cli'[c].op][cli'[c].lat] = @ + 1]
        BY <1>0, <2>6, <3>2, CallEffect
      <4>2. y = x + (IF op = cli'[c].op THEN 1 ELSE 0)
        BY <1>0, <2>2, <4>1, Logging, ZenonT(30)
      <4>3. b = a + (IF op = cli'[c].op THEN 1 ELSE 0)
        BY <2>3, <2>5, <3>1, <4>1
      <4>4. y - b = x - a /\ b <= y
        BY <2>4, <4>2, <4>3
      <4> QED BY <2>2, <2>4, <3>1, <4>4
    <3>3. CASE ~report_on
      <4>1. cli'[c].pc = "store" /\ logged' = logged
        BY <1>0, <2>6, <3>3, CallEffect
      <4>2. b = a
        BY <2>3, <2>5, <3>1, <4>1
      <4> QED BY <2>2, <2>4, <3>1, <4>1, <4>2
    <3> QED BY <3>2, <3>3, SMTT(30)
  <2>7. CASE Count(c)
    <3>1. /\ cli[c].pc = "count" /\ cli'[c].pc = "sum" /\ cli[c].op \in Ops
          /\ logged' = logged /\ count' = [count EXCEPT ![cli[c].op] = (@ + 1) % U32]
      BY <1>0, <2>7, CountEffect DEF Count, MType, Locals
    <3>2. CASE cli[c].op = op
      <4>1. a = b + 1
        BY <2>3, <2>5, <3>1, <3>2
      <4>2. PICK k \in Nat : k = x - a /\ x - b = k + 1 /\ b <= x
        BY <2>4, <4>1
      <4>3. count'[op] = ((k % U32) + 1) % U32
        BY <1>0, <2>4, <3>1, <3>2, <4>2 DEF MType
      <4>4. count'[op] = (k + 1) % U32
        BY <4>3, ModSucc, MeasurementsAssumption
      <4> QED BY <2>2, <3>1, <4>2, <4>4
    <3>3. CASE cli[c].op # op
      <4>1. a = b
        BY <2>3, <2>5, <3>1, <3>3
      <4>2. count'[op] = count[op]
        BY <1>0, <3>1, <3>3 DEF MType
      <4> QED BY <2>2, <2>4, <3>1, <4>1, <4>2
    <3> QED BY <3>2, <3>3
  <2>8. CASE Store(c) \/ AddLatency(c) \/ UpdateMin(c) \/ UpdateMax(c)
    <3>1. cli[c].pc # "count" /\ cli'[c].pc # "count"
      BY <1>0, <2>8, StoreEffect, AddEffect, MinEffect, MaxEffect
    <3>2. count' = count /\ logged' = logged
      BY <2>8 DEF Store, AddLatency, UpdateMin, UpdateMax, stats
    <3>3. a = b
      BY <2>3, <2>5, <3>1
    <3> QED BY <2>2, <2>4, <3>2, <3>3
  <2> QED BY <1>1, <2>6, <2>7, <2>8 DEF ClientStep
<1>2. CASE Start \/ PrintOp \/ Await \/ Tick \/ UNCHANGED vars
  BY <1>0, <1>2, OtherSteps DEF CountInv, stats, Uncounted
<1>3. CASE Emit
  BY <1>0, <1>3 DEF Emit, CountInv, stats, Uncounted
<1>4. CASE Reset
  <2>1. \A c \in Clients : cli'[c].pc = "call"
    BY <1>0, <1>4, ResetEffect
  <2>2. \A op \in Ops : logged'[op] = [l \in Latencies |-> 0] /\ count'[op] = 0
    BY <1>4 DEF Reset, ResetStats, Zero
  <2>3. 0 % U32 = 0
    BY MeasurementsAssumption
  <2> QED BY <2>1, <2>2, <2>3, EmptySumsNext DEF CountInv
<1> QED BY <1>1, <1>2, <1>3, <1>4, NextCases

(* Every step keeps the sum: logged, less those not added yet. *)
LEMMA NextSum == ASSUME StatsInv, [Next]_vars PROVE SumInv'
<1>0. MType /\ MType' /\ SumInv
  BY NextMType DEF StatsInv
<1>1. ASSUME NEW c \in Clients, ClientStep(c) PROVE SumInv'
  <2> SUFFICES ASSUME NEW op \in Ops
               PROVE  latency_sum'[op] + Sum(Unadded(op)', Clients) = Sum(Weighted(op)', Latencies)
    BY DEF SumInv
  <2>1. Others(c)
    BY <1>0, <1>1, ClientMoves
  <2>2. PICK a \in Nat, b \in Nat, x \in Nat, y \in Nat :
          /\ a = Sum(Unadded(op), Clients) /\ b = Sum(Unadded(op)', Clients)
          /\ x = Sum(Weighted(op), Latencies) /\ y = Sum(Weighted(op)', Latencies)
    BY <1>0, SumsNat, SumsNatNext, Zenon
  <2>3. a + Unadded(op)'[c] = b + Unadded(op)[c]
    BY <1>0, <2>1, <2>2, InFlight, Zenon
  <2>4. latency_sum[op] + a = x /\ latency_sum[op] \in Nat
    BY <1>0, <2>2 DEF SumInv, MType
  <2>5. /\ Unadded(op)[c] = IF cli[c].pc \in {"count", "sum"} /\ cli[c].op = op
                            THEN cli[c].lat ELSE 0
        /\ Unadded(op)'[c] = IF cli'[c].pc \in {"count", "sum"} /\ cli'[c].op = op
                             THEN cli'[c].lat ELSE 0
        /\ cli[c].lat \in Nat /\ cli'[c].lat \in Nat
    BY <1>0 DEF Unadded, MType, Locals
  <2>6. CASE Call(c)
    <3>1. cli[c].pc = "call" /\ latency_sum' = latency_sum
      BY <2>6, CallEffect DEF Call, stats
    <3>2. CASE report_on
      <4>1. /\ cli'[c].pc = "count" /\ cli'[c].op \in Ops /\ cli'[c].lat \in Latencies
            /\ logged' = [logged EXCEPT ![cli'[c].op][cli'[c].lat] = @ + 1]
        BY <1>0, <2>6, <3>2, CallEffect
      <4>2. y = x + (IF op = cli'[c].op THEN cli'[c].lat ELSE 0)
        BY <1>0, <2>2, <4>1, Logging
      <4>3. b = a + (IF op = cli'[c].op THEN cli'[c].lat ELSE 0)
        BY <2>3, <2>5, <3>1, <4>1
      <4> QED BY <2>2, <2>4, <2>5, <3>1, <4>2, <4>3
    <3>3. CASE ~report_on
      <4>1. cli'[c].pc = "store" /\ logged' = logged
        BY <1>0, <2>6, <3>3, CallEffect
      <4>2. b = a
        BY <2>3, <2>5, <3>1, <4>1
      <4>3. x = y
        BY <2>2, <4>1 DEF Weighted
      <4> QED BY <2>2, <2>4, <3>1, <4>2, <4>3
    <3> QED BY <3>2, <3>3
  <2>7. CASE AddLatency(c)
    <3>1. /\ cli[c].pc = "sum" /\ cli'[c].pc = "min" /\ cli[c].op \in Ops
          /\ logged' = logged
          /\ latency_sum' = [latency_sum EXCEPT ![cli[c].op] = @ + cli[c].lat]
      BY <1>0, <2>7, AddEffect DEF AddLatency, MType, Locals
    <3>2. x = y
      BY <2>2, <3>1 DEF Weighted
    <3>3. CASE cli[c].op = op
      <4>1. a = b + cli[c].lat
        BY <2>3, <2>5, <3>1, <3>3
      <4>2. latency_sum'[op] = latency_sum[op] + cli[c].lat
        BY <1>0, <3>1, <3>3 DEF MType
      <4> QED BY <2>2, <2>4, <2>5, <3>2, <4>1, <4>2
    <3>4. CASE cli[c].op # op
      <4>1. a = b
        BY <2>3, <2>5, <3>1, <3>4
      <4>2. latency_sum'[op] = latency_sum[op]
        BY <1>0, <3>1, <3>4 DEF MType
      <4> QED BY <2>2, <2>4, <3>2, <4>1, <4>2
    <3> QED BY <3>3, <3>4
  <2>8. CASE Store(c) \/ Count(c) \/ UpdateMin(c) \/ UpdateMax(c)
    <3>1. Unadded(op)[c] = Unadded(op)'[c]
      BY <1>0, <2>5, <2>8, StoreEffect, CountEffect, MinEffect, MaxEffect, ZenonT(30)
    <3>2. latency_sum' = latency_sum /\ logged' = logged
      BY <2>8 DEF Store, Count, UpdateMin, UpdateMax, stats
    <3>3. a = b
      BY <2>3, <2>5, <3>1
    <3>4. x = y
      BY <2>2, <3>2 DEF Weighted
    <3> QED BY <2>2, <2>4, <3>2, <3>3, <3>4
  <2> QED BY <1>1, <2>6, <2>7, <2>8 DEF ClientStep
<1>2. CASE Start \/ PrintOp \/ Await \/ Tick \/ UNCHANGED vars
  BY <1>0, <1>2, OtherSteps DEF SumInv, stats, Unadded, Weighted
<1>3. CASE Emit
  BY <1>0, <1>3 DEF Emit, SumInv, stats, Unadded, Weighted
<1>4. CASE Reset
  <2>1. \A c \in Clients : cli'[c].pc = "call"
    BY <1>0, <1>4, ResetEffect
  <2>2. \A op \in Ops : logged'[op] = [l \in Latencies |-> 0] /\ latency_sum'[op] = 0
    BY <1>4 DEF Reset, ResetStats, Zero
  <2> QED BY <2>1, <2>2, EmptySumsNext DEF SumInv
<1> QED BY <1>1, <1>2, <1>3, <1>4, NextCases

(* A call in somebody's hands stays in somebody's hands. *)
LEMMA StillOwed ==
    ASSUME NEW c \in Clients, Others(c), NEW P, NEW op, NEW l,
           Owes(c, P, op, l) => Owes(c, P, op, l)',
           \E d \in Clients : Owes(d, P, op, l)
    PROVE  \E d \in Clients : Owes(d, P, op, l)'
<1>1. PICK d \in Clients : Owes(d, P, op, l)
  OBVIOUS
<1>2. CASE d = c
  BY <1>1, <1>2
<1>3. CASE d # c
  <2>1. cli'[d] = cli[d]
    BY <1>3 DEF Others
  <2> QED BY <1>1, <2>1 DEF Owes
<1> QED BY <1>2, <1>3

(* Logging leaves the other entries alone. *)
LEMMA LoggedElsewhere ==
    ASSUME MType, NEW o \in Ops, NEW k \in Latencies, logged' = [logged EXCEPT ![o][k] = @ + 1],
           NEW op \in Ops, NEW l \in Latencies, op # o \/ l # k
    PROVE  logged'[op][l] = logged[op][l]
<1>1. logged \in [Ops -> [Latencies -> Nat]] /\ logged[op] \in [Latencies -> Nat]
  BY DEF MType
<1>2. CASE op = o
  <2>1. logged'[op] = [logged[op] EXCEPT ![k] = @ + 1]
    BY <1>1, <1>2
  <2> QED BY <1>1, <1>2, <2>1
<1>3. CASE op # o
  BY <1>1, <1>3
<1> QED BY <1>2, <1>3

(* Every step keeps the minimum: nothing below it but what is on its way. *)
LEMMA NextMin == ASSUME StatsInv, [Next]_vars PROVE MinInv'
<1>0. MType /\ MType' /\ MinInv /\ LogInv
  BY NextMType DEF StatsInv
<1>1. ASSUME NEW c \in Clients, ClientStep(c) PROVE MinInv'
  <2>0. Others(c)
    BY <1>0, <1>1, ClientMoves
  <2>1. \A op \in Ops, l \in Latencies :
          /\ logged[op][l] \in Nat /\ logged'[op][l] \in Nat
          /\ logged'[op][l] >= logged[op][l]
    <3>1. \A op \in Ops : logged[op] \in [Latencies -> Nat]
      BY <1>0 DEF MType
    <3>2. \A op \in Ops : logged'[op] \in [Latencies -> Nat]
      BY <1>0 DEF MType
    <3> QED BY <1>0, <1>1, LoggedGrows, <3>1, <3>2
  <2>2. /\ cli[c] \in Locals /\ cli[c].op \in Ops /\ cli[c].lat \in Nat /\ cli[c].prev \in Nat
        /\ \A op \in Ops : latency_min[op] \in Nat /\ latency_min'[op] \in Nat
        /\ \A d \in Clients : cli[d].op \in Ops /\ cli[d].prev \in Nat
        /\ \A l \in Latencies : l \in Nat
    <3>1. \A d \in Clients : cli[d] \in Locals
      BY <1>0 DEF MType
    <3>2. \A op \in Ops : latency_min[op] \in Nat /\ latency_min'[op] \in Nat
      BY <1>0 DEF MType
    <3> QED BY <3>1, <3>2, LatenciesFinite DEF Locals
  <2>3. \A op \in Ops : /\ latency_min'[op] <= latency_min[op]
                        /\ \/ latency_min'[op] = latency_min[op]
                           \/ /\ op = cli[c].op /\ latency_min'[op] = cli[c].lat
                              /\ cli[c].pc = "min"
    <3>1. \/ latency_min' = latency_min
          \/ /\ latency_min' = [latency_min EXCEPT ![cli[c].op] = cli[c].lat]
             /\ cli[c].pc = "min"
             /\ cli[c].prev > cli[c].lat /\ latency_min[cli[c].op] = cli[c].prev
      BY <1>0, <1>1, MinEffect DEF ClientStep, Call, Store, Count, AddLatency, UpdateMax, stats
    <3>2. latency_min \in [Ops -> Nat]
      BY <1>0 DEF MType
    <3> QED BY <2>2, <3>1, <3>2, SMTT(30)
  <2>4. ASSUME NEW op \in Ops
        PROVE  \/ latency_min'[op] = Infinity
               \/ latency_min'[op] \in Latencies /\ logged'[op][latency_min'[op]] > 0
    <3>1. CASE latency_min'[op] = latency_min[op]
      <4>1. \/ latency_min[op] = Infinity
            \/ latency_min[op] \in Latencies /\ logged[op][latency_min[op]] > 0
        BY <1>0 DEF MinInv
      <4> QED BY <2>1, <3>1, <4>1
    <3>2. CASE op = cli[c].op /\ latency_min'[op] = cli[c].lat /\ cli[c].pc = "min"
      <4>1. cli[c].lat \in Latencies /\ logged[op][cli[c].lat] > 0
        BY <1>0, <3>2 DEF LogInv, BeforeMax
      <4> QED BY <2>1, <3>2, <4>1
    <3> QED BY <2>3, <3>1, <3>2
  <2>5. ASSUME NEW op \in Ops, NEW l \in Latencies, logged'[op][l] > 0
        PROVE  \/ latency_min'[op] <= l
               \/ \E d \in Clients : Owes(d, BeforeMin, op, l)'
    <3>1. CASE logged[op][l] > 0
      <4>1. CASE latency_min[op] <= l
        BY <2>2, <2>3, <4>1
      <4>2. CASE \E d \in Clients : Owes(d, BeforeMin, op, l)
        <5>1. CASE ~UpdateMin(c)
          <6>1. Owes(c, BeforeMin, op, l) => Owes(c, BeforeMin, op, l)'
            BY <1>0, <1>1, <5>1, CallEffect, StoreEffect, CountEffect, AddEffect, MaxEffect
               DEF ClientStep, Owes, BeforeMin
          <6> QED BY <2>0, <4>2, <6>1, StillOwed
        <5>2. CASE UpdateMin(c) /\ cli'[c].pc = "min"
          <6>1. Owes(c, BeforeMin, op, l) => Owes(c, BeforeMin, op, l)'
            BY <1>0, <5>2, MinEffect DEF Owes, BeforeMin
          <6> QED BY <2>0, <4>2, <6>1, StillOwed
        <5>3. CASE UpdateMin(c) /\ cli'[c].pc # "min"
          <6>1. latency_min'[cli[c].op] <= cli[c].lat
            <7>1. latency_min[cli[c].op] <= cli[c].prev
              BY <1>0, <5>3, MinEffect DEF MinInv
            <7>2. latency_min \in [Ops -> Nat]
              BY <1>0 DEF MType
            <7>3. \/ latency_min' = [latency_min EXCEPT ![cli[c].op] = cli[c].lat]
                  \/ cli[c].prev <= cli[c].lat /\ latency_min' = latency_min
              BY <1>0, <5>3, MinEffect
            <7> QED BY <2>2, <7>1, <7>2, <7>3
          <6>2. CASE Owes(c, BeforeMin, op, l)
            BY <6>1, <6>2 DEF Owes
          <6>3. CASE ~Owes(c, BeforeMin, op, l)
            BY <2>0, <4>2, <6>3, StillOwed
          <6> QED BY <6>2, <6>3
        <5> QED BY <5>1, <5>2, <5>3
      <4> QED BY <1>0, <3>1, <4>1, <4>2 DEF MinInv
    <3>2. CASE ~(logged[op][l] > 0)
      <4>1. Call(c) /\ report_on
        <5>1. logged' # logged
          BY <2>5, <3>2
        <5>2. Call(c)
          BY <1>1, <5>1, Zenon
             DEF ClientStep, Store, Count, AddLatency, UpdateMin, UpdateMax
        <5> QED BY <1>0, <5>1, <5>2, CallEffect
      <4>2. /\ cli'[c].pc = "count" /\ cli'[c].op \in Ops /\ cli'[c].lat \in Latencies
            /\ logged' = [logged EXCEPT ![cli'[c].op][cli'[c].lat] = @ + 1]
        BY <1>0, <4>1, CallEffect
      <4>3. op = cli'[c].op /\ l = cli'[c].lat
        BY <1>0, <2>5, <3>2, <4>2, LoggedElsewhere
      <4>4. Owes(c, BeforeMin, op, l)'
        BY <4>2, <4>3 DEF Owes, BeforeMin
      <4> QED BY <4>4
    <3> QED BY <3>1, <3>2
  <2>6. ASSUME NEW d \in Clients, cli'[d].pc = "min"
        PROVE  latency_min'[cli'[d].op] <= cli'[d].prev
    <3>1. CASE d # c
      <4>1. cli'[d] = cli[d]
        BY <2>0, <3>1 DEF Others
      <4>2. latency_min[cli[d].op] <= cli[d].prev
        BY <1>0, <2>6, <4>1 DEF MinInv
      <4> QED BY <2>2, <2>3, <4>1, <4>2
    <3>2. CASE d = c
      <4>1. cli'[c].op = cli[c].op /\ cli'[c].prev = latency_min[cli[c].op]
        BY <1>0, <1>1, <2>6, <3>2, CallEffect, StoreEffect, CountEffect, AddEffect, MinEffect,
           MaxEffect DEF ClientStep
      <4> QED BY <2>2, <2>3, <3>2, <4>1
    <3> QED BY <3>1, <3>2
  <2> QED BY <2>4, <2>5, <2>6 DEF MinInv
<1>2. CASE Start \/ PrintOp \/ Await \/ Tick \/ UNCHANGED vars
  BY <1>0, <1>2, OtherSteps DEF MinInv, stats, Owes
<1>3. CASE Emit
  BY <1>0, <1>3 DEF Emit, MinInv, stats, Owes
<1>4. CASE Reset
  <2>1. \A c \in Clients : cli'[c].pc = "call"
    BY <1>0, <1>4, ResetEffect
  <2>2. \A op \in Ops : /\ latency_min'[op] = Infinity
                        /\ \A l \in Latencies : logged'[op][l] = 0
    BY <1>4 DEF Reset, ResetStats
  <2> QED BY <2>1, <2>2 DEF MinInv
<1> QED BY <1>1, <1>2, <1>3, <1>4, NextCases

(* Every step keeps the maximum: nothing above it but what is on its way. *)
LEMMA NextMax == ASSUME StatsInv, [Next]_vars PROVE MaxInv'
<1>0. MType /\ MType' /\ MaxInv /\ LogInv
  BY NextMType DEF StatsInv
<1>1. ASSUME NEW c \in Clients, ClientStep(c) PROVE MaxInv'
  <2>0. Others(c)
    BY <1>0, <1>1, ClientMoves
  <2>1. \A op \in Ops, l \in Latencies :
          /\ logged[op][l] \in Nat /\ logged'[op][l] \in Nat
          /\ logged'[op][l] >= logged[op][l]
    <3>1. \A op \in Ops : logged[op] \in [Latencies -> Nat]
      BY <1>0 DEF MType
    <3>2. \A op \in Ops : logged'[op] \in [Latencies -> Nat]
      BY <1>0 DEF MType
    <3> QED BY <1>0, <1>1, LoggedGrows, <3>1, <3>2
  <2>2. /\ cli[c] \in Locals /\ cli[c].op \in Ops /\ cli[c].lat \in Nat /\ cli[c].prev \in Nat
        /\ \A op \in Ops : latency_max[op] \in Nat /\ latency_max'[op] \in Nat
        /\ \A d \in Clients : cli[d].op \in Ops /\ cli[d].prev \in Nat
        /\ \A l \in Latencies : l \in Nat
    <3>1. \A d \in Clients : cli[d] \in Locals
      BY <1>0 DEF MType
    <3>2. \A op \in Ops : latency_max[op] \in Nat /\ latency_max'[op] \in Nat
      BY <1>0 DEF MType
    <3> QED BY <3>1, <3>2, LatenciesFinite DEF Locals
  <2>3. \A op \in Ops : /\ latency_max'[op] >= latency_max[op]
                        /\ \/ latency_max'[op] = latency_max[op]
                           \/ /\ op = cli[c].op /\ latency_max'[op] = cli[c].lat
                              /\ cli[c].pc = "max"
    <3>1. \/ latency_max' = latency_max
          \/ /\ latency_max' = [latency_max EXCEPT ![cli[c].op] = cli[c].lat]
             /\ cli[c].pc = "max"
             /\ cli[c].prev < cli[c].lat /\ latency_max[cli[c].op] = cli[c].prev
      BY <1>0, <1>1, MaxEffect DEF ClientStep, Call, Store, Count, AddLatency, UpdateMin, stats
    <3>2. latency_max \in [Ops -> Nat]
      BY <1>0 DEF MType
    <3> QED BY <2>2, <3>1, <3>2, SMTT(30)
  <2>4. ASSUME NEW op \in Ops
        PROVE  \/ latency_max'[op] = 0
               \/ latency_max'[op] \in Latencies /\ logged'[op][latency_max'[op]] > 0
    <3>1. CASE latency_max'[op] = latency_max[op]
      <4>1. \/ latency_max[op] = 0
            \/ latency_max[op] \in Latencies /\ logged[op][latency_max[op]] > 0
        BY <1>0 DEF MaxInv
      <4> QED BY <2>1, <3>1, <4>1
    <3>2. CASE op = cli[c].op /\ latency_max'[op] = cli[c].lat /\ cli[c].pc = "max"
      <4>1. cli[c].lat \in Latencies /\ logged[op][cli[c].lat] > 0
        BY <1>0, <3>2 DEF LogInv, BeforeMax
      <4> QED BY <2>1, <3>2, <4>1
    <3> QED BY <2>3, <3>1, <3>2
  <2>5. ASSUME NEW op \in Ops, NEW l \in Latencies, logged'[op][l] > 0
        PROVE  \/ latency_max'[op] >= l
               \/ \E d \in Clients : Owes(d, BeforeMax, op, l)'
    <3>1. CASE logged[op][l] > 0
      <4>1. CASE latency_max[op] >= l
        BY <2>2, <2>3, <4>1
      <4>2. CASE \E d \in Clients : Owes(d, BeforeMax, op, l)
        <5>1. CASE ~UpdateMax(c)
          <6>1. Owes(c, BeforeMax, op, l) => Owes(c, BeforeMax, op, l)'
            BY <1>0, <1>1, <5>1, CallEffect, StoreEffect, CountEffect, AddEffect, MinEffect
               DEF ClientStep, Owes, BeforeMax
          <6> QED BY <2>0, <4>2, <6>1, StillOwed
        <5>2. CASE UpdateMax(c) /\ cli'[c].pc = "max"
          <6>1. Owes(c, BeforeMax, op, l) => Owes(c, BeforeMax, op, l)'
            BY <1>0, <5>2, MaxEffect DEF Owes, BeforeMax
          <6> QED BY <2>0, <4>2, <6>1, StillOwed
        <5>3. CASE UpdateMax(c) /\ cli'[c].pc # "max"
          <6>1. latency_max'[cli[c].op] >= cli[c].lat
            <7>1. latency_max[cli[c].op] >= cli[c].prev
              BY <1>0, <5>3, MaxEffect DEF MaxInv
            <7>2. latency_max \in [Ops -> Nat]
              BY <1>0 DEF MType
            <7>3. \/ latency_max' = [latency_max EXCEPT ![cli[c].op] = cli[c].lat]
                  \/ cli[c].prev >= cli[c].lat /\ latency_max' = latency_max
              BY <1>0, <5>3, MaxEffect
            <7> QED BY <2>2, <7>1, <7>2, <7>3
          <6>2. CASE Owes(c, BeforeMax, op, l)
            BY <6>1, <6>2 DEF Owes
          <6>3. CASE ~Owes(c, BeforeMax, op, l)
            BY <2>0, <4>2, <6>3, StillOwed
          <6> QED BY <6>2, <6>3
        <5> QED BY <5>1, <5>2, <5>3
      <4> QED BY <1>0, <3>1, <4>1, <4>2 DEF MaxInv
    <3>2. CASE ~(logged[op][l] > 0)
      <4>1. Call(c) /\ report_on
        <5>1. logged' # logged
          BY <2>5, <3>2
        <5>2. Call(c)
          BY <1>1, <5>1, Zenon
             DEF ClientStep, Store, Count, AddLatency, UpdateMax, UpdateMin
        <5> QED BY <1>0, <5>1, <5>2, CallEffect
      <4>2. /\ cli'[c].pc = "count" /\ cli'[c].op \in Ops /\ cli'[c].lat \in Latencies
            /\ logged' = [logged EXCEPT ![cli'[c].op][cli'[c].lat] = @ + 1]
        BY <1>0, <4>1, CallEffect
      <4>3. op = cli'[c].op /\ l = cli'[c].lat
        BY <1>0, <2>5, <3>2, <4>2, LoggedElsewhere
      <4>4. Owes(c, BeforeMax, op, l)'
        BY <4>2, <4>3 DEF Owes, BeforeMax
      <4> QED BY <4>4
    <3> QED BY <3>1, <3>2
  <2>6. ASSUME NEW d \in Clients, cli'[d].pc = "max"
        PROVE  latency_max'[cli'[d].op] >= cli'[d].prev
    <3>1. CASE d # c
      <4>1. cli'[d] = cli[d]
        BY <2>0, <3>1 DEF Others
      <4>2. latency_max[cli[d].op] >= cli[d].prev
        BY <1>0, <2>6, <4>1 DEF MaxInv
      <4> QED BY <2>2, <2>3, <4>1, <4>2
    <3>2. CASE d = c
      <4>1. cli'[c].op = cli[c].op /\ cli'[c].prev = latency_max[cli[c].op]
        BY <1>0, <1>1, <2>6, <3>2, CallEffect, StoreEffect, CountEffect, AddEffect, MaxEffect,
           MinEffect DEF ClientStep
      <4> QED BY <2>2, <2>3, <3>2, <4>1
    <3> QED BY <3>1, <3>2
  <2> QED BY <2>4, <2>5, <2>6 DEF MaxInv
<1>2. CASE Start \/ PrintOp \/ Await \/ Tick \/ UNCHANGED vars
  BY <1>0, <1>2, OtherSteps DEF MaxInv, stats, Owes
<1>3. CASE Emit
  BY <1>0, <1>3 DEF Emit, MaxInv, stats, Owes
<1>4. CASE Reset
  <2>1. \A c \in Clients : cli'[c].pc = "call"
    BY <1>0, <1>4, ResetEffect
  <2>2. \A op \in Ops : /\ latency_max'[op] = 0
                        /\ \A l \in Latencies : logged'[op][l] = 0
    BY <1>4 DEF Reset, ResetStats, Zero
  <2> QED BY <2>1, <2>2 DEF MaxInv
<1> QED BY <1>1, <1>2, <1>3, <1>4, NextCases

(* All of the invariant is kept. *)
LEMMA NextStats == ASSUME StatsInv, [Next]_vars PROVE StatsInv'
<1>1. MType'
  BY NextMType DEF StatsInv
<1> QED BY <1>1, NextLog, NextCount, NextSum, NextMin, NextMax DEF StatsInv

(* Nothing is recorded at first. *)
LEMMA InitSkip == Init => SkipInv
<1> SUFFICES ASSUME Init PROVE SkipInv
  OBVIOUS
<1>1. /\ now = 0 /\ start = Epoch /\ phase_start = Epoch /\ carried = FALSE
      /\ report_on = (SecSkip = 0)
      /\ \A c \in Clients : cli[c].on = FALSE
  BY DEF Init
<1>2. report_on => ~(SecSkip > 0)
  <2>1. report_on => SecSkip = 0
    BY <1>1, Zenon
  <2> QED BY <2>1
<1>3. phase = 1
  BY DEF Init
<1> QED BY <1>1, <1>2, <1>3 DEF SkipInv

(* There are at most two phases. *)
LEMMA PhaseOneOrTwo == ASSUME MType PROVE phase \in {1, 2} /\ Len(Reports) \in {1, 2}
<1>1. phase \in 1 .. Len(Reports)
  BY DEF MType
<1>2. Len(Reports) \in 1 .. 2
  BY MeasurementsAssumption
<1>3. PICK n \in 1 .. 2 : n = Len(Reports)
  BY <1>2
<1> QED BY <1>1, <1>3

(* In a phase, time only adds to what was skipped, and what is taken over stays so. *)
LEMMA NextSkip == ASSUME MType, SkipInv, [Next]_vars PROVE SkipInv'
<1>0. SecSkip \in Nat /\ Epoch = -1 /\ Grace \in Nat
  BY MeasurementsAssumption DEF Epoch
<1>1. ASSUME NEW c \in Clients, ClientStep(c) PROVE SkipInv'
  <2>1. UNCHANGED <<now, start, phase, phase_start, spc>>
    BY <1>1 DEF ClientStep, Call, Store, Count, AddLatency, UpdateMin, UpdateMax, skiphist, status
  <2>2. InWindow => SkippedInPhase \/ (phase = 2 /\ phase_start = Epoch)
    <3>1. phase \in {1, 2}
      BY PhaseOneOrTwo
    <3>2. CASE phase_start = start
      BY <1>0, <3>2 DEF InWindow, SkippedInPhase, SkipInv
    <3>3. CASE phase_start # start
      BY <3>1, <3>3 DEF SkipInv
    <3> QED BY <3>2, <3>3
  <2>3. SkippedInPhase' <=> SkippedInPhase
    BY <2>1 DEF SkippedInPhase
  <2>4. Others(c)
    BY <1>1, ClientMoves
  <2>5. \/ UNCHANGED carried /\ (cli'[c].on => cli[c].on)
        \/ cli'[c].on = InWindow /\ carried' = (carried \/ (InWindow /\ phase_start = Epoch))
    <3>1. CASE Call(c)
      <4>1. CASE report_on
        <5>1. UNCHANGED carried
          BY <3>1, <4>1, Zenon DEF Call
        <5>2. cli'[c].on = cli[c].on
          BY <3>1, <4>1, CallEffect
        <5> QED BY <5>1, <5>2
      <4>2. CASE ~report_on
        <5>1. carried' = (carried \/ (InWindow /\ phase_start = Epoch))
          BY <3>1, <4>2, Zenon DEF Call
        <5>2. cli'[c].on = InWindow
          BY <3>1, <4>2, CallEffect
        <5> QED BY <5>1, <5>2
      <4> QED BY <4>1, <4>2
    <3>2. CASE ~Call(c)
      <4>1. UNCHANGED carried
        BY <1>1, <3>2 DEF ClientStep, Store, Count, AddLatency, UpdateMin, UpdateMax, skiphist
      <4>2. cli'[c].on => cli[c].on
        BY <1>1, <3>2, StoreEffect, CountEffect, AddEffect, MinEffect, MaxEffect DEF ClientStep
      <4> QED BY <4>1, <4>2
    <3> QED BY <3>1, <3>2
  <2>6. report_on' = report_on \/ report_on' = cli[c].on
    BY <1>1, Zenon DEF ClientStep, Call, Store, Count, AddLatency, UpdateMin, UpdateMax
  <2>7. /\ carried' \in BOOLEAN /\ (carried => carried')
        /\ carried' => phase = 2
    <3>1. phase_start = Epoch => ~SkippedInPhase
      BY DEF SkippedInPhase
    <3>2. carried \in BOOLEAN /\ (carried => phase = 2)
      BY DEF SkipInv
    <3>3. CASE UNCHANGED carried
      BY <3>2, <3>3
    <3>4. CASE carried' = (carried \/ (InWindow /\ phase_start = Epoch))
      <4>1. carried' <=> carried \/ (InWindow /\ phase_start = Epoch)
        BY <3>4
      <4>2. carried' \in BOOLEAN
        BY <3>4
      <4> QED BY <2>2, <3>1, <3>2, <4>1, <4>2, Zenon
    <3> QED BY <2>5, <3>3, <3>4, Zenon
  <2>8. report_on' /\ SecSkip > 0 => SkippedInPhase' \/ carried'
    BY <2>3, <2>6, <2>7, Zenon DEF SkipInv
  <2>9. cli'[c].on /\ SecSkip > 0 => SkippedInPhase' \/ carried'
    BY <2>2, <2>3, <2>5, <2>7, Zenon DEF SkipInv
  <2>10. \A d \in Clients : cli'[d].on /\ SecSkip > 0 => SkippedInPhase' \/ carried'
    BY <2>3, <2>4, <2>7, <2>9, Zenon DEF SkipInv, Others
  <2>11. \A d \in Clients : cli'[d].on => cli'[d].pc = "store"
    <3>1. cli'[c].on => cli'[c].pc = "store"
      BY <1>1, CallEffect, StoreEffect, CountEffect, AddEffect, MinEffect, MaxEffect
      DEF ClientStep, SkipInv
    <3> QED BY <2>4, <3>1 DEF SkipInv, Others
  <2> QED BY <2>1, <2>7, <2>8, <2>10, <2>11 DEF SkipInv
<1>2. CASE Start
  <2>1. /\ start' = now /\ phase_start' = now
        /\ UNCHANGED <<now, report_on, cli, phase, carried>>
        /\ spc = "start" /\ spc' = "print"
    BY <1>2 DEF Start
  <2>2. ~SkippedInPhase
    BY <2>1 DEF SkipInv, SkippedInPhase
  <2> QED BY <1>0, <2>1, <2>2 DEF SkipInv
<1>3. CASE Tick
  <2>1. now' = now + 1 /\ UNCHANGED <<start, report_on, cli, phase, phase_start, carried, spc>>
    BY <1>3 DEF Tick, skiphist, status
  <2>2. SkippedInPhase => SkippedInPhase'
    BY <1>0, <2>1 DEF SkipInv, SkippedInPhase
  <2> QED BY <2>1, <2>2 DEF SkipInv
<1>4. CASE PrintOp \/ Await \/ Emit \/ UNCHANGED vars
  <2>1. UNCHANGED <<now, start, report_on, cli, phase, phase_start, carried>>
    BY <1>4 DEF PrintOp, Await, Emit, vars, skiphist
  <2>2. spc' = "start" => spc = "start"
    BY <1>4 DEF PrintOp, Await, Emit, vars, status
  <2> QED BY <2>1, <2>2 DEF SkipInv, SkippedInPhase
<1>5. CASE Reset
  <2>1. /\ UNCHANGED <<now, start, report_on>> /\ phase' = 2
        /\ phase_start' = Epoch /\ carried' = (carried \/ report_on)
    <3>1. phase < Len(Reports) /\ phase' = phase + 1
      BY <1>5 DEF Reset
    <3>2. PICK p \in {1, 2}, n \in {1, 2} : p = phase /\ n = Len(Reports)
      BY PhaseOneOrTwo
    <3>3. phase' = 2
      <4>1. p < n
        BY <3>1, <3>2
      <4>2. p = 1
        BY <4>1
      <4> QED BY <3>1, <3>2, <4>2
    <3> QED BY <1>5, <3>3 DEF Reset
  <2>2. \A c \in Clients : cli'[c].on = FALSE
    <3>1. \A c \in Clients : cli'[c].on = cli[c].on /\ cli[c].pc = "call"
      BY <1>5, ResetEffect DEF Reset, MType, Finished
    <3>2. \A c \in Clients : cli[c].on \in BOOLEAN
      BY DEF MType, Locals
    <3> QED BY <3>1, <3>2 DEF SkipInv
  <2> QED BY <1>0, <2>1, <2>2 DEF SkipInv, MType
<1> QED BY <1>1, <1>2, <1>3, <1>4, <1>5, NextCases

-----------------------------------------------------------------------------
(* No phase has 2^32 calls, and uint64_t is at least as wide as uint. *)
NoWrap ==
    /\ U32 <= U64
    /\ \A p \in 1 .. Len(Reports) : Cardinality(Clients) * Reports[p] < U32

(* If no phase has 2^32 calls, the clients have made fewer. *)
LEMMA CallsSum ==
    ASSUME MType, NoWrap
    PROVE  Sum(Calls, Clients) \in Nat /\ Sum(Calls, Clients) < U32
<1>1. IsFiniteSet(Clients) /\ Cardinality(Clients) \in Nat
  BY MeasurementsAssumption, FS_CardinalityType
<1>2. phase \in 1 .. Len(Reports) /\ Reports[phase] \in Nat
  BY ReportsNat DEF MType
<1>3. \A c \in Clients : Calls[c] \in 0 .. Reports[phase]
  BY <1>2 DEF Calls, MType, Locals
<1>4. Sum(Calls, Clients) <= Cardinality(Clients) * Reports[phase]
  BY <1>1, <1>2, <1>3, SumBound
<1>5. Sum(Calls, Clients) \in Nat
  <2>1. \A c \in Clients : Calls[c] \in Nat
    BY <1>2, <1>3
  <2> QED BY <1>1, <2>1, SumNat
<1>6. Cardinality(Clients) * Reports[phase] < U32
  BY <1>2 DEF NoWrap
<1>7. Cardinality(Clients) * Reports[phase] \in Nat /\ U32 \in Nat
  BY <1>1, <1>2, MeasurementsAssumption
<1> QED BY <1>4, <1>5, <1>6, <1>7

(* Every call is logged at most once. *)
LEMMA CallsStep ==
    ASSUME MType, MType', NEW c \in Clients, ClientStep(c), NEW op \in Ops,
           Sum(logged[op], Latencies) <= Sum(Calls, Clients)
    PROVE  Sum(logged'[op], Latencies) <= Sum(Calls', Clients)
<1>1. IsFiniteSet(Clients)
  BY MeasurementsAssumption
<1>2. /\ \A d \in Clients : Calls[d] \in Nat
      /\ \A d \in Clients : Calls'[d] \in Nat
  <2>1. \A d \in Clients : Calls[d] \in Nat
    BY DEF Calls, MType, Locals
  <2>2. \A d \in Clients : Calls'[d] \in Nat
    BY DEF Calls, MType, Locals
  <2> QED BY <2>1, <2>2
<1>3. PICK x \in Nat, y \in Nat, s \in Nat, t \in Nat :
        /\ x = Sum(logged[op], Latencies) /\ y = Sum(logged'[op], Latencies)
        /\ s = Sum(Calls, Clients) /\ t = Sum(Calls', Clients)
  <2>1. Sum(Calls, Clients) \in Nat
    BY <1>1, <1>2, SumNat
  <2>2. Sum(Calls', Clients) \in Nat
    BY <1>1, <1>2, SumNat
  <2> QED BY <2>1, <2>2, SumsNat, SumsNatNext, Zenon
<1>4. s + Calls'[c] = t + Calls[c]
  <2>1. Others(c)
    BY ClientMoves
  <2>2. \A d \in Clients \ {c} : Calls[d] = Calls'[d]
    BY <2>1 DEF Others, Calls
  <2>3. Sum(Calls, Clients) + Calls'[c] = Sum(Calls', Clients) + Calls[c]
    BY <1>1, <1>2, <2>2, SumUpdate
  <2> QED BY <1>3, <2>3
<1>5. Calls[c] = cli[c].n /\ Calls'[c] = cli'[c].n
  BY DEF Calls
<1>6. CASE Call(c)
  <2>1. Calls'[c] = Calls[c] + 1
    BY <1>5, <1>6, CallEffect
  <2>2. t = s + 1
    BY <1>2, <1>3, <1>4, <2>1
  <2>3. y = x \/ y = x + 1
    <3>1. CASE report_on
      <4>1. /\ cli'[c].op \in Ops /\ cli'[c].lat \in Latencies
            /\ logged' = [logged EXCEPT ![cli'[c].op][cli'[c].lat] = @ + 1]
        BY <1>6, <3>1, CallEffect
      <4>2. y = x + (IF op = cli'[c].op THEN 1 ELSE 0)
        BY <1>3, <4>1, Logging
      <4> QED BY <4>2
    <3>2. CASE ~report_on
      BY <1>3, <1>6, <3>2, CallEffect
    <3> QED BY <3>1, <3>2
  <2> QED BY <1>3, <2>2, <2>3
<1>7. CASE ~Call(c)
  <2>1. Calls'[c] = Calls[c]
    BY <1>5, <1>7, StoreEffect, CountEffect, AddEffect, MinEffect, MaxEffect, ZenonT(30) DEF ClientStep
  <2>2. t = s
    BY <1>2, <1>3, <1>4, <2>1
  <2>3. logged' = logged
    BY <1>7, Zenon DEF ClientStep, Store, Count, AddLatency, UpdateMin, UpdateMax
  <2> QED BY <1>3, <2>2, <2>3
<1> QED BY <1>6, <1>7

(* While counts do not wrap, they only grow. *)
LEMMA CountGrows ==
    ASSUME StatsInv, PeriodInv, NoWrap, NEW c \in Clients, ClientStep(c), [Next]_vars,
           NEW op \in Ops
    PROVE  count'[op] >= count[op] /\ count'[op] \in 0 .. (U32 - 1)
<1>0. MType /\ MType' /\ CountInv /\ U32 \in Nat \ {0}
  BY NextMType, MeasurementsAssumption DEF StatsInv
<1>1. count[op] \in 0 .. (U32 - 1)
  BY DEF PeriodInv
<1>2. CASE Count(c) /\ cli[c].op = op
  <2>1. cli[c].pc = "count" /\ cli'[c].pc = "sum"
    BY <1>0, <1>2, CountEffect
  <2>2. PICK a \in Nat, b \in Nat, x \in Nat, s \in Nat :
          /\ a = Sum(Uncounted(op), Clients) /\ b = Sum(Uncounted(op)', Clients)
          /\ x = Sum(logged[op], Latencies) /\ s = Sum(Calls, Clients)
    BY <1>0, SumsNat, SumsNatNext, CallsSum, Zenon
  <2>3. Uncounted(op)[c] = 1 /\ Uncounted(op)'[c] = 0
    BY <1>2, <2>1 DEF Uncounted
  <2>4. a = b + 1
    <3>1. Others(c)
      BY <1>0, ClientMoves
    <3>2. a + Uncounted(op)'[c] = b + Uncounted(op)[c]
      BY <1>0, <2>2, <3>1, InFlight, Zenon
    <3> QED BY <2>2, <2>3, <3>2
  <2>5. a <= x /\ count[op] = (x - a) % U32 /\ x <= s /\ s < U32
    BY <1>0, <2>2, CallsSum DEF CountInv, PeriodInv
  <2>6. count[op] = x - a
    BY <1>0, <2>2, <2>5
  <2>7. count'[op] = (count[op] + 1) % U32
    BY <1>0, <1>2 DEF Count, MType, Locals
  <2>8. count[op] + 1 < U32
    BY <1>0, <2>2, <2>4, <2>5, <2>6
  <2>9. (count[op] + 1) % U32 = count[op] + 1
    BY <1>0, <1>1, <2>8
  <2> QED BY <1>0, <1>1, <2>7, <2>8, <2>9
<1>3. CASE ~(Count(c) /\ cli[c].op = op)
  <2>1. \/ count' = count
        \/ Count(c) /\ count' = [count EXCEPT ![cli[c].op] = (@ + 1) % U32]
    BY DEF ClientStep, Call, Store, Count, AddLatency, UpdateMin, UpdateMax, stats
  <2>2. count'[op] = count[op]
    BY <1>0, <1>3, <2>1 DEF MType
  <2> QED BY <1>0, <1>1, <2>2
<1> QED BY <1>2, <1>3

(* The status thread has read no count at first. *)
LEMMA InitPeriod == Init => PeriodInv
<1> SUFFICES ASSUME Init PROVE PeriodInv
  OBVIOUS
<1>1. U32 \in Nat \ {0}
  BY MeasurementsAssumption
<1>2. /\ {count, seen, last_count} \subseteq [Ops -> 0 .. (U32 - 1)]
      /\ period \in [Ops -> Int] /\ delta \in [Ops -> Int]
  BY <1>1 DEF Init, Zero
<1>3. \A op \in Ops : /\ count[op] = 0 /\ seen[op] = 0 /\ last_count[op] = 0
                      /\ period[op] = 0 /\ delta[op] = 0
  BY DEF Init, Zero
<1>4. ASSUME NEW op \in Ops PROVE Sum(logged[op], Latencies) <= Sum(Calls, Clients)
  <2>1. \A c \in Clients : cli[c].pc = "call" /\ cli[c].n = 0
    BY DEF Init
  <2>2. Sum(logged[op], Latencies) = 0
    BY <2>1, EmptySums DEF Init
  <2>3. Sum(Calls, Clients) = 0
    <3>1. \A c \in Clients : Calls[c] = 0
      BY <2>1 DEF Calls
    <3> QED BY <3>1, SumZero, MeasurementsAssumption
  <2> QED BY <2>2, <2>3
<1> QED BY <1>2, <1>3, <1>4 DEF PeriodInv

(* Every step keeps what was last shown within the counts of the cells. *)
LEMMA NextPeriod == ASSUME NoWrap, StatsInv, PeriodInv, [Next]_vars PROVE PeriodInv'
<1>0. MType /\ MType'
  BY NextMType DEF StatsInv
<1>01. U32 \in Nat \ {0} /\ U64 \in Nat \ {0} /\ U32 <= U64
  BY MeasurementsAssumption DEF NoWrap
<1>02. phase \in {1, 2} /\ Len(Reports) \in {1, 2}
  BY <1>0, PhaseOneOrTwo
<1>1. ASSUME NEW c \in Clients, ClientStep(c) PROVE PeriodInv'
  <2>1. UNCHANGED <<status, phase>>
    BY <1>1 DEF ClientStep, Call, Store, Count, AddLatency, UpdateMin, UpdateMax
  <2>2. count' \in [Ops -> 0 .. (U32 - 1)]
    <3>1. \A op \in Ops : count'[op] \in 0 .. (U32 - 1)
      BY <1>1, CountGrows
    <3> QED BY <1>0, <3>1 DEF MType
  <2>3. \A op \in Ops : Sum(logged'[op], Latencies) <= Sum(Calls', Clients)
    BY <1>0, <1>1, CallsStep DEF PeriodInv
  <2>4. \A op \in Ops : seen[op] <= count'[op]
    <3> SUFFICES ASSUME NEW op \in Ops PROVE seen[op] <= count'[op]
      OBVIOUS
    <3>1. seen[op] \in Nat /\ count[op] \in Nat /\ seen[op] <= count[op]
      BY <1>01 DEF PeriodInv
    <3>2. count'[op] \in Nat /\ count'[op] >= count[op]
      BY <1>1, <1>01, CountGrows
    <3> QED BY <3>1, <3>2
  <2> QED BY <2>1, <2>2, <2>3, <2>4 DEF PeriodInv, status
<1>2. CASE PrintOp
  <2>1. UNCHANGED <<count, cli, logged, phase>>
    BY <1>2 DEF PrintOp, stats
  <2>2. \A op \in Ops : Sum(logged'[op], Latencies) <= Sum(Calls', Clients)
    BY <2>1 DEF PeriodInv, Calls
  <2>3. PICK o \in Ops, n \in 0 .. (U32 - 1) : o = NextOp /\ n = count[o]
    BY DEF NextOp, Ops, PeriodInv
  <2>4. CASE n = 0
    <3>1. UNCHANGED <<period, delta, seen, last_count>>
      BY <1>2, <2>3, <2>4 DEF PrintOp, LastCount
    <3> QED BY <2>1, <2>2, <3>1 DEF PeriodInv
  <2>5. CASE n # 0
    <3>1. /\ period' = [period EXCEPT ![o] = (n - last_count[o]) % U64]
          /\ delta' = [delta EXCEPT ![o] = n - seen[o]]
          /\ seen' = [seen EXCEPT ![o] = n]
          /\ last_count' = [last_count EXCEPT ![o] = n]
      BY <1>2, <2>3, <2>5 DEF PrintOp, LastCount
    <3>2. /\ count \in [Ops -> 0 .. (U32 - 1)] /\ seen \in [Ops -> 0 .. (U32 - 1)]
          /\ last_count \in [Ops -> 0 .. (U32 - 1)]
          /\ period \in [Ops -> Int] /\ delta \in [Ops -> Int]
      BY DEF PeriodInv
    <3>3. (n - last_count[o]) % U64 \in Int /\ n - seen[o] \in Int
      BY <1>01, <3>2
    <3>4. /\ {count', seen', last_count'} \subseteq [Ops -> 0 .. (U32 - 1)]
          /\ period' \in [Ops -> Int] /\ delta' \in [Ops -> Int]
      BY <2>1, <3>1, <3>2, <3>3
    <3>5. ASSUME NEW op \in Ops
          PROVE  /\ seen'[op] <= count'[op]
                 /\ phase' = 1 \/ seen'[op] # 0 => last_count'[op] = seen'[op]
                 /\ period'[op] # delta'[op] => phase' = 2 /\ delta'[op] = seen'[op]
      <4>1. CASE op # o
        <5>1. /\ seen'[op] = seen[op] /\ last_count'[op] = last_count[op]
              /\ period'[op] = period[op] /\ delta'[op] = delta[op]
          BY <3>1, <3>2, <4>1
        <5> QED BY <2>1, <5>1 DEF PeriodInv
      <4>2. CASE op = o
        <5>1. /\ seen'[op] = n /\ last_count'[op] = n /\ delta'[op] = n - seen[op]
              /\ period'[op] = (n - last_count[op]) % U64
          BY <3>1, <3>2, <4>2
        <5>2. seen[op] \in Nat /\ seen[op] <= n /\ n < U32 /\ count'[op] = n
          BY <1>01, <2>1, <2>3, <3>2, <4>2 DEF PeriodInv
        <5>3. CASE phase = 1 \/ seen[op] # 0
          <6>1. last_count[op] = seen[op]
            BY <5>3 DEF PeriodInv
          <6>2. (n - seen[op]) % U64 = n - seen[op]
            BY <1>01, <5>2
          <6> QED BY <5>1, <5>2, <6>1, <6>2
        <5>4. CASE phase # 1 /\ seen[op] = 0
          <6>1. phase' = 2
            BY <1>02, <2>1, <5>4
          <6> QED BY <5>1, <5>2, <5>4, <6>1
        <5> QED BY <5>3, <5>4
      <4> QED BY <4>1, <4>2
    <3> QED BY <2>2, <3>4, <3>5 DEF PeriodInv
  <2> QED BY <2>4, <2>5
<1>3. CASE Start \/ Await \/ Tick \/ Emit \/ UNCHANGED vars
  <2>1. UNCHANGED <<count, cli, logged, phase, period, delta, seen, last_count>>
    BY <1>3 DEF Start, Await, Tick, Emit, vars, stats, status
  <2> QED BY <2>1 DEF PeriodInv, Calls
<1>4. CASE Reset
  <2>1. /\ count' = Zero /\ seen' = Zero /\ UNCHANGED <<period, delta, last_count>>
        /\ phase' = phase + 1 /\ phase = 1
    <3>1. phase < Len(Reports) /\ phase' = phase + 1
      BY <1>4 DEF Reset
    <3>2. phase = 1
      <4>1. PICK n \in {1, 2}, p \in {1, 2} : n = Len(Reports) /\ p = phase
        BY <1>02
      <4>2. p < n
        BY <3>1, <4>1
      <4> QED BY <4>1, <4>2
    <3> QED BY <1>4, <3>1, <3>2 DEF Reset, ResetStats
  <2>2. count' \in [Ops -> 0 .. (U32 - 1)] /\ seen' \in [Ops -> 0 .. (U32 - 1)]
    BY <1>01, <2>1 DEF Zero
  <2>3. ASSUME NEW op \in Ops PROVE Sum(logged'[op], Latencies) <= Sum(Calls', Clients)
    <3>1. \A c \in Clients : cli'[c].pc = "call" /\ cli'[c].n = 0
      BY <1>0, <1>4, ResetEffect
    <3>2. Sum(logged'[op], Latencies) = 0
      <4>1. logged'[op] = [l \in Latencies |-> 0]
        BY <1>4 DEF Reset
      <4> QED BY <3>1, <4>1, EmptySumsNext
    <3>3. Sum(Calls', Clients) = 0
      <4>1. \A c \in Clients : Calls'[c] = 0
        BY <3>1 DEF Calls
      <4> QED BY <4>1, SumZero, MeasurementsAssumption
    <3> QED BY <3>2, <3>3
  <2>4. \A op \in Ops : /\ seen'[op] = 0 /\ count'[op] = 0 /\ period[op] = delta[op]
    BY <2>1 DEF Zero, PeriodInv
  <2> QED BY <2>1, <2>2, <2>3, <2>4 DEF PeriodInv
<1> QED BY <1>1, <1>2, <1>3, <1>4, NextCases

-----------------------------------------------------------------------------
(* 4. The theorems. *)

(* The library's sum of an expression is Sum of the function it denotes. *)
LEMMA WeightedIsSum ==
    ASSUME NEW op \in Ops
    PROVE  MapThenSumSet(LAMBDA l : l * logged[op][l], Latencies) = Sum(Weighted(op), Latencies)
<1> DEFINE W == Weighted(op)
           T(f, s) == IF s = {} THEN 0
                      ELSE LET x == CHOOSE x \in s : TRUE IN x * logged[op][x] + f[s \ {x}]
           P(f) == f = [s \in SUBSET Latencies |-> T(f, s)]
           h == CHOOSE f : P(f)
<1>1. MapThenSumSet(LAMBDA l : l * logged[op][l], Latencies) = h[Latencies]
  BY Zenon DEF MapThenSumSet, MapThenFoldSet
<1>2. ASSUME NEW f PROVE P(f) <=> Adds(W, f, Latencies)
  <2>1. ASSUME NEW s \in SUBSET Latencies PROVE T(f, s) = Term(W, f, s)
    <3>1. CASE s = {}
      BY <3>1 DEF Term
    <3>2. CASE s # {}
      <4> DEFINE x == CHOOSE x \in s : TRUE
      <4>1. x \in Latencies
        BY <3>2, PickOne
      <4> HIDE DEF x
      <4>2. W[x] = x * logged[op][x]
        BY <4>1 DEF Weighted
      <4> HIDE DEF W
      <4> QED BY <3>2, <4>2, Zenon DEF Term, x
    <3> QED BY <3>1, <3>2
  <2> HIDE DEF T, W
  <2> QED BY <2>1 DEF Adds
<1>3. \E f : P(f)
  <2> HIDE DEF P, W
  <2> QED BY <1>2, AddsExists, LatenciesFinite
<1>4. P(h)
  <2> HIDE DEF P
  <2> QED BY <1>3, Zenon DEF h
<1> HIDE DEF W
<1>5. Adds(W, h, Latencies)
  <2> HIDE DEF P, h
  <2> QED BY <1>2, <1>4
<1>6. PICK f : Adds(W, f, Latencies) /\ Sum(W, Latencies) = f[Latencies]
  BY SumEq, LatenciesFinite
<1> HIDE DEF h
<1>7. h[Latencies] = f[Latencies]
  BY <1>5, <1>6, AddsUnique, LatenciesFinite
<1> QED BY <1>1, <1>6, <1>7 DEF W

(* When no client is inside Report, what the cells hold is what was logged. *)
LEMMA ExactWhenFinished == ASSUME StatsInv PROVE EmitExact
<1> SUFFICES ASSUME mpc = "emit", NEW op \in Ops
             PROVE  LET seenLat == {l \in Latencies : logged[op][l] > 0}
                    IN  /\ count[op] = MapThenSumSet(LAMBDA l : logged[op][l], Latencies) % U32
                        /\ latency_sum[op] = MapThenSumSet(LAMBDA l : l * logged[op][l], Latencies)
                        /\ latency_min[op] = IF seenLat = {} THEN Infinity ELSE Min(seenLat)
                        /\ latency_max[op] = IF seenLat = {} THEN 0 ELSE Max(seenLat)
  BY Zenon DEF EmitExact
<1> DEFINE seenLat == {l \in Latencies : logged[op][l] > 0}
<1>1. \A c \in Clients : cli[c].pc = "call"
  BY DEF StatsInv, MType, Finished
<1>2. Sum(Uncounted(op), Clients) = 0 /\ Sum(Unadded(op), Clients) = 0
  <2>1. \A c \in Clients : Uncounted(op)[c] = 0
    BY <1>1 DEF Uncounted
  <2>2. \A c \in Clients : Unadded(op)[c] = 0
    BY <1>1 DEF Unadded
  <2>3. Sum(Uncounted(op), Clients) = 0
    BY <2>1, SumZero, MeasurementsAssumption
  <2>4. Sum(Unadded(op), Clients) = 0
    BY <2>2, SumZero, MeasurementsAssumption
  <2> QED BY <2>3, <2>4
<1>3. count[op] = MapThenSumSet(LAMBDA l : logged[op][l], Latencies) % U32
  <2>1. MapThenSumSet(LAMBDA l : logged[op][l], Latencies) = Sum(logged[op], Latencies)
    BY Zenon DEF Sum
  <2>2. Sum(logged[op], Latencies) \in Nat
    BY SumsNat DEF StatsInv
  <2>3. count[op] = (Sum(logged[op], Latencies) - 0) % U32
    BY <1>2 DEF StatsInv, CountInv
  <2>4. count[op] = Sum(logged[op], Latencies) % U32
    BY <2>2, <2>3
  <2> QED BY <2>1, <2>4, Zenon
<1>4. latency_sum[op] = MapThenSumSet(LAMBDA l : l * logged[op][l], Latencies)
  <2>1. latency_sum[op] + 0 = Sum(Weighted(op), Latencies) /\ latency_sum[op] \in Nat
    BY <1>2 DEF StatsInv, SumInv, MType
  <2>2. latency_sum[op] = Sum(Weighted(op), Latencies)
    BY <2>1
  <2> QED BY <2>2, WeightedIsSum, Zenon
<1>5. /\ \A l \in seenLat : l \in Nat /\ l < Infinity
      /\ latency_min[op] \in Nat /\ latency_max[op] \in Nat /\ Infinity \in Nat
  BY LatenciesFinite, MeasurementsAssumption DEF StatsInv, MType
<1>6. /\ latency_min[op] = Infinity \/ latency_min[op] \in seenLat
      /\ \A l \in seenLat : latency_min[op] <= l
  BY <1>1 DEF StatsInv, MinInv, Owes, BeforeMin
<1>7. /\ latency_max[op] = 0 \/ latency_max[op] \in seenLat
      /\ \A l \in seenLat : latency_max[op] >= l
  BY <1>1 DEF StatsInv, MaxInv, Owes, BeforeMax
<1> HIDE DEF seenLat
<1>8. latency_min[op] = IF seenLat = {} THEN Infinity ELSE Min(seenLat)
  <2>1. CASE seenLat = {}
    BY <1>6, <2>1
  <2>2. CASE seenLat # {}
    <3>1. latency_min[op] \in seenLat /\ \A l \in seenLat : latency_min[op] <= l
      BY <1>5, <1>6, <2>2
    <3>2. \A m \in seenLat : (\A l \in seenLat : m <= l) => m = latency_min[op]
      BY <1>5, <3>1
    <3>3. Min(seenLat) = latency_min[op]
      BY <3>1, <3>2 DEF Min
    <3> QED BY <2>2, <3>3
  <2> QED BY <2>1, <2>2
<1>9. latency_max[op] = IF seenLat = {} THEN 0 ELSE Max(seenLat)
  <2>1. CASE seenLat = {}
    BY <1>7, <2>1
  <2>2. CASE seenLat # {}
    <3>1. latency_max[op] \in seenLat /\ \A l \in seenLat : latency_max[op] >= l
      BY <1>5, <1>7, <2>2
    <3>2. \A m \in seenLat : (\A l \in seenLat : m >= l) => m = latency_max[op]
      BY <1>5, <3>1
    <3>3. Max(seenLat) = latency_max[op]
      BY <3>1, <3>2 DEF Max
    <3> QED BY <2>2, <3>3
  <2> QED BY <2>1, <2>2
<1> QED BY <1>3, <1>4, <1>8, <1>9 DEF seenLat

(***************************************************************************)
(* Whatever main emits is exactly what the clients reported in the phase:  *)
(* no fetch_add is lost, the compare-and-swap loops leave the extremes,    *)
(* and Reset leaves nothing behind.                                        *)
(***************************************************************************)
THEOREM EmittedExactly == Spec => []EmitExact
<1>1. StatsInv /\ [Next]_vars => StatsInv'
  BY NextStats
<1> QED BY InitStats, <1>1, ExactWhenFinished, PTL DEF Spec

(***************************************************************************)
(* In the first phase, or the only one, a client that reports before       *)
(* Start() or within sec_skip_ seconds of it never turns recording on.  In *)
(* the second one, only what the first left (report_on_, or start_ until   *)
(* Start() is called again) turns it on earlier.                           *)
(***************************************************************************)
THEOREM SkippingIsRespected == Spec => []SkipRespected
<1>1. StatsInv /\ SkipInv /\ [Next]_vars => StatsInv' /\ SkipInv'
  BY NextStats, NextSkip DEF StatsInv
<1>2. SkipInv => SkipRespected
  BY DEF SkipInv, SkipRespected
<1> QED BY InitStats, InitSkip, <1>1, <1>2, PTL DEF Spec

(***************************************************************************)
(* As long as no phase has 2^32 calls, the Period Count of a status        *)
(* message is the number of operations since the message before it, except *)
(* in the first message about an operation after Reset, which left         *)
(* last_count_ at the count of the phase before.                           *)
(***************************************************************************)
THEOREM PeriodsAreDeltas ==
    ASSUME NoWrap
    PROVE  Spec => []PeriodIsDeltaInPhase
<1>1. StatsInv /\ PeriodInv /\ [Next]_vars => StatsInv' /\ PeriodInv'
  BY NextStats, NextPeriod
<1>2. PeriodInv => PeriodIsDeltaInPhase
  BY DEF PeriodInv, PeriodIsDeltaInPhase
<1> QED BY InitStats, InitPeriod, <1>1, <1>2, PTL DEF Spec
=============================================================================
