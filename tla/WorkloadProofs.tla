--------------------------- MODULE WorkloadProofs ---------------------------
(***************************************************************************)
(* Safety of the workloads, for every number of threads, records and       *)
(* operations, every distribution and mix of operations:                   *)
(*                                                                         *)
(*   1. where a client can be, given the workload and the phase            *)
(*   2. the terms of zeta_n_ are added once                                *)
(*   3. oks counts what DBWrapper measured                                 *)
(*   4. no key is inserted twice: the operations of the load add up to     *)
(*      recordcount, where the other counter begins                        *)
(*   5. the keys that are read were inserted                               *)
(*   6. every client replays its own files of a trace, in order            *)
(*   7. the counts stay within their shares                                *)
(*   8. a check counts the keys that are there, and an interrupted load    *)
(*      has left as many as it can promise                                 *)
(***************************************************************************)
EXTENDS Workload, SumLemmas

Pcs == {"idle", "take", "draw", "zipf", "check", "insert", "read", "update", "scan", "rmwread",
        "peek", "none", "ack", "stop", "exit", "correct", "count"}

(* Where the clients of a workload can be in a phase. *)
Places ==
    IF cfg.workload = "pureinsert" THEN {"idle", "insert", "count"}
    ELSE IF phase = "load"
         THEN {"idle", "insert", "count"}
                \cup (IF cfg.workload = "checking" THEN {"stop", "exit"} ELSE {})
    ELSE IF phase = "run"
         THEN CASE cfg.workload = "checking" -> {"idle", "read", "correct", "count"}
                [] cfg.workload = "core" -> Pcs \ {"peek", "stop", "exit", "correct"}
                [] OTHER -> {"idle", "draw", "zipf", "check", "peek", "count"}
    ELSE {"idle"}

(* The transactions that draw a key. *)
Drawing == IF cfg.workload = "core" THEN {"read", "update", "scan", "rmw", "none"} ELSE {"peek"}

CtlInv ==
    /\ cfg \in Scenarios
    /\ phase \in {"load", "run", "over", "crashed"}
    /\ phase = "crashed" => cfg.workload = "pureinsert"
    /\ exiting => phase = "load" /\ cfg.workload = "checking"
    /\ lastOp = "none" \/ (lastOp \in Transactions /\ cfg.weights[lastOp] > 0)
    /\ pc \in [Threads -> Places] /\ op \in [Threads -> Transactions \cup {"none", "peek"}]
    /\ \A t \in Threads : pc[t] \in {"draw", "zipf", "check"} => op[t] \in Drawing

ZetaInv ==
    /\ limit \in Int /\ counter \in Int /\ zetaCount \in Int
    /\ zipfMax \in [Threads -> Int]
    /\ ZetaExact

(* Where a client has called the database and not counted the operation yet. *)
Called == {"ack", "stop", "exit", "correct", "count"}
Uncounted(t) == IF pc[t] \in Called /\ status[t] = "ok" THEN 1 ELSE 0

OksInv ==
    cfg.workload # "tracepeek" /\ cfg.weights["rdidx"] = 0 =>
        /\ {oks, measured, rmwReads} \subseteq [Threads -> Int]
        /\ status = [t \in Threads |-> status[t]]
        /\ \A t \in Threads :
             /\ oks[t] + Uncounted(t) = measured[t] - rmwReads[t]
             /\ pc[t] \in Called => status[t] # "uninitialised"

(* The operations a client has not taken a key for. *)
Untaken == [t \in Threads |-> left[t] - IF pc[t] = "idle" THEN 0 ELSE 1]

LoadInv ==
    /\ insertNext \in Nat /\ insertNext >= cfg.insertstart
    /\ counter \in Nat /\ counter >= RecordCount
    /\ collided \in BOOLEAN
    /\ left \in [Threads -> Nat] /\ \A t \in Threads : pc[t] # "idle" => left[t] > 0
    /\ phase = "load" /\ cfg.workload # "pureinsert" =>
         /\ insertNext - cfg.insertstart + Sum(Untaken, Threads) = RecordCount
         /\ inserted = cfg.insertstart .. (insertNext - 1)
    /\ phase = "load" => counter = RecordCount
    /\ cfg.insertstart = 0 => ~collided /\ inserted \subseteq 0 .. (counter - 1)

(* The inserts that have returned. *)
Settled == stored \cup failed

Loaded == cfg.insertstart = 0 /\ cfg.workload \in {"core", "tracepeek"}

Reading == {"read", "scan", "update", "rmwread", "peek"}

KeyOf(t) ==
    /\ pc[t] = "check" => key[t] \in Nat
    /\ pc[t] = "ack" => key[t] \in Settled
    /\ pc[t] \in Reading /\ ~overrun => key[t] \in Settled

KeyInv ==
    Loaded =>
        /\ key = [t \in Threads |-> key[t]] /\ seqNext \in [Threads -> Nat]
        /\ acked \subseteq Settled /\ overrun \in BOOLEAN
        /\ ~overrun => \A k \in RecordCount .. limit : k \in acked
        /\ phase = "load" => \A k \in 0 .. (insertNext - 1) :
             k \in Settled \/ \E t \in Threads : pc[t] = "insert" /\ key[t] = k
        /\ phase = "run" => 0 .. (RecordCount - 1) \subseteq Settled
        /\ \A t \in Threads : KeyOf(t)

(* The first key that a check reads: both phases of one process share the counter. *)
CheckBase == cfg.insertstart + IF cfg.mode = "both" THEN RecordCount ELSE 0

(* The clients that hold a key of an interrupted load, or have not counted it yet. *)
InFlight == {t \in Threads : pc[t] \in {"insert", "stop"}}

(* The clients that will count a key as correct, or are about to find out that it is. *)
Found == {t \in Threads : \/ pc[t] = "read" /\ key[t] \in stored
                          \/ pc[t] = "correct" /\ status[t] = "ok"}

CheckedKeys == cfg.insertstart .. (cfg.insertstart + cfg.ops - 1)
Promised == Min({cfg.stopat + 1, RecordCount, cfg.ops - (NumThreads - 1)})

LoadChecked ==
    /\ correct = 0
    /\ \A k \in cfg.insertstart .. (insertNext - 1) :
         k \in Settled \/ \E t \in Threads : pc[t] = "insert" /\ key[t] = k
    /\ insertNext - cfg.insertstart = txCount + Cardinality(InFlight)
    /\ exiting => txCount > cfg.stopat /\ \E t \in Threads : pc[t] = "exit"

RunChecked ==
    /\ insertNext >= CheckBase
    /\ insertNext - CheckBase + Sum(Untaken, Threads) = cfg.ops
    /\ correct + Cardinality(Found) = Cardinality((CheckBase .. (insertNext - 1)) \cap stored)
    /\ cfg.mode = "restart" =>
         Cardinality(CheckedKeys \cap stored) >= Promised - Cardinality(failed)

CheckInv ==
    IF cfg.workload = "checking"
    THEN /\ key = [t \in Threads |-> key[t]] /\ status = [t \in Threads |-> status[t]]
         /\ IsFiniteSet(failed)
         /\ txCount \in 0 .. RecordCount /\ correct \in 0 .. cfg.ops
         /\ phase = "load" => LoadChecked
         /\ phase = "run" => RunChecked
    ELSE txCount = 0 /\ correct = 0

ReaderStates == [workloads : Seq(Seq(Nat)), len : Nat, i : Nat \ {0}, offset : Nat]

(* The keys s came from equally long files, one record after the other, u more are to come. *)
InOrder(r, s, u) ==
    /\ Len(s) = (r.i - 1) * r.len + r.offset /\ r.offset <= r.len
    /\ Len(s) + u <= Len(r.workloads) * r.len
    /\ \A i \in DOMAIN r.workloads, j \in 1 .. r.len :
         (i - 1) * r.len + j <= Len(s) => s[(i - 1) * r.len + j] = r.workloads[i][j]

(* Client t, which has replayed the keys s, has its own files and read those only. *)
ReplayState(trace, t, r, s, u) ==
    /\ r \in ReaderStates /\ s \in Seq(Int)
    /\ r.workloads # <<>> => r.len = Len(r.workloads[Len(r.workloads)])
    /\ \A f \in DOMAIN r.workloads :
         /\ FileNumber(f - 1, t, NumThreads) \in DOMAIN trace
         /\ r.workloads[f] = trace[FileNumber(f - 1, t, NumThreads)]
    /\ \A n \in DOMAIN s : \/ s[n] = Garbage
                           \/ \E f \in DOMAIN r.workloads : \E j \in DOMAIN r.workloads[f] :
                                s[n] = r.workloads[f][j]
    /\ SameLength(r.workloads) => InOrder(r, s, u)

Quota(t) == ThreadOps(Total(phase), t)

(* Why a replay may die. *)
Wild == ~SameLength(cfg.trace) \/ cfg.ops < NumThreads \/ RecordCount < NumThreads

ReplayInv ==
    IF cfg.workload = "pureinsert"
    THEN /\ reader = [t \in Threads |-> reader[t]] /\ replayed = [t \in Threads |-> replayed[t]]
         /\ \A t \in Threads :
              /\ ReplayState(cfg.trace, t, reader[t], replayed[t], Untaken[t])
              /\ phase \in {"load", "run"} /\ reader[t].workloads = <<>> => Quota(t) = 0
         /\ phase = "crashed" => Wild
    ELSE reader = Each(NoReader) /\ replayed = Each(<<>>)

TypeInv ==
    /\ stored \subseteq Int /\ key = [t \in Threads |-> key[t]]
    /\ \A t \in Threads : pc[t] = "insert" => key[t] \in Int
    /\ limit < counter /\ oks \in [Threads -> Nat]
    /\ \A t \in Threads :
         /\ phase \in {"load", "run"} => oks[t] + left[t] <= Quota(t)
         /\ pc[t] = "exit" => exiting
         /\ op[t] \in Transactions => cfg.weights[op[t]] > 0

-----------------------------------------------------------------------------
(* 1. Where the clients are. *)

(* The kinds of transactions. *)
LEMMA TransactionsSet == Transactions = {"read", "update", "insert", "scan", "rmw", "rdidx"}
<1>1. DOMAIN OpOrder = 1 .. 6 /\ \A i \in 1 .. 6 : OpOrder[i] \in
        {"read", "update", "insert", "scan", "rmw", "rdidx"}
  BY DEF OpOrder
<1>2. /\ OpOrder[1] = "read" /\ OpOrder[2] = "update" /\ OpOrder[3] = "insert"
      /\ OpOrder[4] = "scan" /\ OpOrder[5] = "rmw" /\ OpOrder[6] = "rdidx"
  BY DEF OpOrder
<1> QED BY <1>1, <1>2 DEF Transactions, Range

(* What the assumption says of one scenario. *)
LEMMA ScenarioFacts ==
    ASSUME NEW s \in Scenarios
    PROVE  /\ s.workload \in {"core", "checking", "tracepeek", "pureinsert"}
           /\ s.dist \in {"uniform", "zipfian", "latest", "sequential"}
           /\ s.ops \in Nat /\ s.newkeys \in Nat /\ s.minread \in Nat /\ s.maxread \in Nat
           /\ s.insertstart \in Nat
           /\ s.weights \in [Transactions -> Nat]
BY ScenarioAssumption

(* The least of some naturals is one of them. *)
LEMMA MinIsIn == ASSUME NEW S, S \subseteq Nat, S # {} PROVE Min(S) \in S
<1>1. PICK m \in S : \A k \in S : m <= k
  BY LeastNat
<1> QED BY <1>1 DEF Min

(* The operations that op_chooser_ was given have a weight. *)
LEMMA AddedOps ==
    /\ Added \subseteq Nat
    /\ \A i \in Added : OpOrder[i] \in Transactions /\ cfg.weights[OpOrder[i]] > 0
<1>1. DOMAIN OpOrder = 1 .. 6
  BY DEF OpOrder
<1> QED BY <1>1 DEF Added, Transactions, Range

(* So does the one that rounding leaves it with, if it has any. *)
LEMMA FirstOpAdded ==
    FirstOp = "none" \/ (FirstOp \in Transactions /\ cfg.weights[FirstOp] > 0)
<1>1. Added # {} => Min(Added) \in Added
  BY AddedOps, MinIsIn
<1> QED BY <1>1, AddedOps DEF FirstOp

(* Only operations with a proportion above 0 are chosen. *)
LEMMA DiscreteNextAdded ==
    ASSUME CtlInv, NEW x
    PROVE  \/ DiscreteNext(x) = "none"
           \/ DiscreteNext(x) \in Transactions /\ cfg.weights[DiscreteNext(x)] > 0
<1> DEFINE hit == {i \in Added : x < Upto(i)}
<1>1. hit \subseteq Added /\ hit \subseteq Nat
  BY AddedOps
<1>2. DiscreteNext(x) = IF hit = {} THEN lastOp ELSE OpOrder[Min(hit)]
  BY DEF DiscreteNext
<1> HIDE DEF hit
<1>3. hit # {} => Min(hit) \in Added
  BY <1>1, MinIsIn
<1>4. lastOp = "none" \/ (lastOp \in Transactions /\ cfg.weights[lastOp] > 0)
  BY DEF CtlInv
<1> QED BY <1>2, <1>3, <1>4, AddedOps

(* Clients run in the load and the transaction phase only. *)
LEMMA RunningPhase == Running => phase \in {"load", "run"}
BY DEF Running

(* The steps of the clients, and of main. *)
LEMMA NextSplit ==
    ASSUME [Next]_vars
    PROVE  \/ \E t \in Threads : Step(t)
           \/ InitThreadCrash \/ EndPhase \/ EndProcess
           \/ UNCHANGED vars
BY DEF Next, Between

(* The phases only start over from a load. *)
LEMMA NextPhases ==
    /\ NextPhase \in {"run", "over"}
    /\ NextPhase = "run" => phase = "load"
BY DEF NextPhase

(* Where the clients are at first. *)
LEMMA InitCtl == Init => CtlInv
<1> SUFFICES ASSUME Init PROVE CtlInv
  OBVIOUS
<1>1. /\ cfg \in Scenarios /\ phase = FirstPhase /\ exiting = FALSE /\ lastOp = FirstOp
      /\ pc = Each("idle") /\ op = Each("none")
  BY DEF Init
<1>2. phase \in {"load", "run"}
  BY <1>1 DEF FirstPhase
<1>3. "idle" \in Places
  BY DEF Places, Pcs
<1>4. pc \in [Threads -> Places] /\ op \in [Threads -> Transactions \cup {"none", "peek"}]
  BY <1>1, <1>3 DEF Each
<1>5. \A t \in Threads : pc[t] = "idle"
  BY <1>1 DEF Each
<1> QED BY <1>1, <1>2, <1>4, <1>5, FirstOpAdded DEF CtlInv

(* What a step of one client may change of what CtlInv is about. *)
LEMMA CtlStep ==
    ASSUME CtlInv, NEW t \in Threads, NEW l \in Places,
           cfg' = cfg, phase' = phase, pc' = [pc EXCEPT ![t] = l],
           exiting' => phase = "load" /\ cfg.workload = "checking",
           lastOp' = "none" \/ (lastOp' \in Transactions /\ cfg.weights[lastOp'] > 0),
           \/ op' = op
           \/ \E o \in Transactions \cup {"none", "peek"} : op' = [op EXCEPT ![t] = o],
           l \in {"draw", "zipf", "check"} => op'[t] \in Drawing
    PROVE  CtlInv'
<1>1. Places' = Places /\ Drawing' = Drawing
  BY DEF Places, Drawing
<1>2. pc \in [Threads -> Places] /\ op \in [Threads -> Transactions \cup {"none", "peek"}]
  BY DEF CtlInv
<1>3. pc' \in [Threads -> Places]
  BY <1>2
<1>4. op' \in [Threads -> Transactions \cup {"none", "peek"}]
  BY <1>2
<1>5. \A u \in Threads : pc'[u] \in {"draw", "zipf", "check"} => op'[u] \in Drawing
  <2> SUFFICES ASSUME NEW u \in Threads, pc'[u] \in {"draw", "zipf", "check"}
               PROVE  op'[u] \in Drawing
    OBVIOUS
  <2>1. CASE u = t
    BY <1>2, <2>1
  <2>2. CASE u # t
    <3>1. pc'[u] = pc[u] /\ op'[u] = op[u]
      BY <1>2, <2>2
    <3> QED BY <3>1 DEF CtlInv
  <2> QED BY <2>1, <2>2
<1> QED BY <1>1, <1>3, <1>4, <1>5 DEF CtlInv

(* Every step keeps the clients where the workload and the phase allow. *)
LEMMA NextCtl == ASSUME CtlInv, [Next]_vars PROVE CtlInv'
<1>0. cfg.workload \in {"core", "checking", "tracepeek", "pureinsert"}
  BY ScenarioFacts DEF CtlInv
<1>01. /\ exiting => phase = "load" /\ cfg.workload = "checking"
       /\ lastOp = "none" \/ (lastOp \in Transactions /\ cfg.weights[lastOp] > 0)
       /\ \A t \in Threads : pc[t] \in Places /\ op[t] \in Transactions \cup {"none", "peek"}
       /\ \A t \in Threads : pc[t] \in {"draw", "zipf", "check"} => op[t] \in Drawing
       /\ op \in [Threads -> Transactions \cup {"none", "peek"}]
  BY DEF CtlInv
<1>1. ASSUME NEW t \in Threads, ChooseOp(t) PROVE CtlInv'
  <2>1. /\ Running /\ phase = "run" /\ cfg.workload = "core" /\ cfg' = cfg /\ phase' = phase
        /\ exiting' = exiting
    BY <1>1 DEF ChooseOp, Ready, At
  <2>2. PICK x : op' = [op EXCEPT ![t] = DiscreteNext(x)] /\ lastOp' = DiscreteNext(x)
    BY <1>1 DEF ChooseOp
  <2>3. PICK o : o = DiscreteNext(x)
    OBVIOUS
  <2>4. o = "none" \/ (o \in Transactions /\ cfg.weights[o] > 0)
    BY <2>3, DiscreteNextAdded
  <2>5. op' = [op EXCEPT ![t] = o] /\ lastOp' = o /\ op'[t] = o
    BY <1>01, <2>2, <2>3
  <2>6. pc' = [pc EXCEPT ![t] = Label(o)]
    BY <1>1, <2>5 DEF ChooseOp, Goto
  <2>7. Label(o) \in Places
    BY <2>1 DEF Label, Places, Pcs
  <2>8. Label(o) \in {"draw", "zipf", "check"} => o \in Drawing
    BY <2>1, <2>4, TransactionsSet DEF Label, Drawing
  <2> QED BY <1>01, <2>1, <2>4, <2>5, <2>6, <2>7, <2>8, CtlStep
<1>2. ASSUME NEW t \in Threads, PeekKey(t) PROVE CtlInv'
  <2>1. /\ Running /\ phase = "run" /\ cfg.workload = "tracepeek" /\ cfg' = cfg /\ phase' = phase
        /\ exiting' = exiting /\ lastOp' = lastOp /\ op' = [op EXCEPT ![t] = "peek"]
        /\ pc' = [pc EXCEPT ![t] = "draw"]
    BY <1>2 DEF PeekKey, Ready, At, Goto, procVars
  <2>2. "draw" \in Places /\ op'[t] \in Drawing
    BY <1>01, <2>1 DEF Places, Drawing
  <2> QED BY <1>01, <2>1, <2>2, CtlStep
<1>3. ASSUME NEW t \in Threads, PeekOp(t) PROVE CtlInv'
  <2>1. /\ Running /\ pc[t] = "peek" /\ cfg' = cfg /\ phase' = phase
        /\ exiting' = exiting /\ op' = op
        /\ pc' = [pc EXCEPT ![t] = "count"]
    BY <1>3 DEF PeekOp, At, Goto
  <2>2. PICK x : lastOp' = DiscreteNext(x)
    BY <1>3 DEF PeekOp
  <2>3. "count" \in Places
    BY <1>0, <1>01, <2>1, RunningPhase DEF Places, Pcs
  <2>4. lastOp' = "none" \/ (lastOp' \in Transactions /\ cfg.weights[lastOp'] > 0)
    BY <2>2, DiscreteNextAdded
  <2> QED BY <1>01, <2>1, <2>3, <2>4, CtlStep
<1>4. ASSUME NEW t \in Threads,
             DrawRandom(t) \/ DrawSequential(t) \/ ReadLast(t) \/ DrawLatest(t)
      PROVE  CtlInv'
  <2>1. /\ Running /\ pc[t] \in {"draw", "zipf"} /\ cfg' = cfg /\ phase' = phase
        /\ exiting' = exiting /\ op' = op /\ lastOp' = lastOp
    BY <1>4 DEF DrawRandom, DrawSequential, ReadLast, DrawLatest, At, procVars
  <2>2. PICK l \in {"check", "zipf"} : pc' = [pc EXCEPT ![t] = l]
    BY <1>4 DEF DrawRandom, DrawSequential, ReadLast, DrawLatest, Drawn, Goto
  <2>3. l \in Places /\ op'[t] \in Drawing
    BY <1>0, <1>01, <2>1, RunningPhase DEF Places, Pcs
  <2> QED BY <1>01, <2>1, <2>2, <2>3, CtlStep
<1>5. ASSUME NEW t \in Threads, CheckKey(t) PROVE CtlInv'
  <2>1. /\ Running /\ pc[t] = "check" /\ cfg' = cfg /\ phase' = phase
        /\ exiting' = exiting /\ op' = op /\ lastOp' = lastOp
    BY <1>5 DEF CheckKey, At, procVars
  <2>2. PICK l : /\ \/ l = "draw"
                    \/ l = "rmwread" /\ op[t] = "rmw"
                    \/ l = op[t] /\ op[t] # "rmw"
                 /\ pc' = [pc EXCEPT ![t] = l]
    BY <1>5 DEF CheckKey, Goto
  <2>3. op[t] \in Drawing
    BY <1>01, <2>1
  <2>4. l \in Places
    BY <1>0, <1>01, <2>1, <2>2, <2>3, RunningPhase DEF Places, Pcs, Drawing
  <2> QED BY <1>01, <2>1, <2>2, <2>3, <2>4, CtlStep
<1>6. ASSUME NEW t \in Threads,
             LoadKey(t) \/ TakeKey(t) \/ ReplayKey(t)
      PROVE  CtlInv'
  <2>1. /\ Running /\ cfg' = cfg /\ phase' = phase
        /\ exiting' = exiting /\ op' = op /\ lastOp' = lastOp
        /\ pc' = [pc EXCEPT ![t] = "insert"]
    BY <1>6 DEF LoadKey, TakeKey, ReplayKey, At, Ready, procVars, Goto
  <2>2. \/ phase = "load" /\ cfg.workload # "pureinsert"
        \/ pc[t] = "take"
        \/ cfg.workload = "pureinsert"
    BY <1>6 DEF LoadKey, TakeKey, ReplayKey, At
  <2>3. "insert" \in Places
    BY <1>0, <1>01, <2>1, <2>2, RunningPhase DEF Places, Pcs
  <2> QED BY <1>01, <2>1, <2>3, CtlStep
<1>7. ASSUME NEW t \in Threads, ReplayCrash(t) PROVE CtlInv'
  <2>1. /\ cfg' = cfg /\ phase' = "crashed" /\ cfg.workload = "pureinsert" /\ pc' = pc /\ op' = op
        /\ lastOp' = lastOp /\ exiting' = exiting
    BY <1>7 DEF ReplayCrash, procVars, threadVars
  <2>2. Places' = Places /\ Drawing' = Drawing
    BY <2>1 DEF Places, Drawing
  <2> QED BY <2>1, <2>2 DEF CtlInv
<1>8. ASSUME NEW t \in Threads, NextToCheck(t) PROVE CtlInv'
  <2>1. /\ phase = "run" /\ cfg.workload = "checking" /\ cfg' = cfg /\ phase' = phase
        /\ exiting' = exiting /\ op' = op /\ lastOp' = lastOp
        /\ pc' = [pc EXCEPT ![t] = "read"]
    BY <1>8 DEF NextToCheck, Goto
  <2>2. "read" \in Places
    BY <2>1 DEF Places
  <2> QED BY <1>01, <2>1, <2>2, CtlStep
<1>9. ASSUME NEW t \in Threads, DbCall(t) PROVE CtlInv'
  <2>1. /\ Running /\ pc[t] \in {"insert", "read", "scan", "update", "rmwread"}
        /\ cfg' = cfg /\ phase' = phase
        /\ exiting' = exiting /\ op' = op /\ lastOp' = lastOp
        /\ pc' = [pc EXCEPT ![t] = AfterCall(t)]
    BY <1>9 DEF DbCall, Goto, procVars
  <2>2. AfterCall(t) \in Places /\ AfterCall(t) \notin {"draw", "zipf", "check"}
    BY <1>0, <1>01, <2>1, RunningPhase DEF Places, Pcs, AfterCall
  <2> QED BY <1>01, <2>1, <2>2, CtlStep
<1>10. ASSUME NEW t \in Threads, Acknowledge(t) \/ CountCorrect(t) PROVE CtlInv'
  <2>1. /\ Running /\ pc[t] \in {"ack", "correct"}
        /\ cfg' = cfg /\ phase' = phase
        /\ exiting' = exiting /\ op' = op /\ lastOp' = lastOp
        /\ pc' = [pc EXCEPT ![t] = "count"]
    BY <1>10 DEF Acknowledge, CountCorrect, At, Goto
  <2>2. "count" \in Places
    BY <1>0, <1>01, <2>1, RunningPhase DEF Places, Pcs
  <2> QED BY <1>01, <2>1, <2>2, CtlStep
<1>11. ASSUME NEW t \in Threads, CountTx(t) PROVE CtlInv'
  <2>1. /\ Running /\ pc[t] = "stop" /\ cfg' = cfg /\ phase' = phase
        /\ op' = op /\ lastOp' = lastOp
    BY <1>11 DEF CountTx, At
  <2>2. PICK l \in {"exit", "count"} : pc' = [pc EXCEPT ![t] = l]
    BY <1>11 DEF CountTx, Goto
  <2>3. phase = "load" /\ cfg.workload = "checking" /\ l \in Places
    BY <1>0, <1>01, <2>1, RunningPhase DEF Places, Pcs
  <2> QED BY <1>01, <2>1, <2>2, <2>3, CtlStep
<1>12. ASSUME NEW t \in Threads, Count(t) PROVE CtlInv'
  <2>1. /\ cfg' = cfg /\ phase' = phase
        /\ exiting' = exiting /\ op' = op /\ lastOp' = lastOp
        /\ pc' = [pc EXCEPT ![t] = "idle"]
    BY <1>12 DEF Count, Goto, procVars
  <2>2. "idle" \in Places
    BY DEF Places, Pcs
  <2> QED BY <1>01, <2>1, <2>2, CtlStep
<1>13. CASE InitThreadCrash
  <2>1. /\ cfg' = cfg /\ phase' = "crashed" /\ cfg.workload = "pureinsert" /\ pc' = pc /\ op' = op
        /\ lastOp' = lastOp /\ exiting' = exiting
    BY <1>13 DEF InitThreadCrash, NullReader, procVars, threadVars
  <2>2. Places' = Places /\ Drawing' = Drawing
    BY <2>1 DEF Places, Drawing
  <2> QED BY <2>1, <2>2 DEF CtlInv
<1>14. CASE EndPhase \/ EndProcess
  <2>1. /\ cfg' = cfg /\ phase' = NextPhase /\ pc' = Each("idle") /\ op' = Each("none")
    BY <1>14 DEF EndPhase, EndProcess, StartThreads
  <2>2. ~exiting'
    <3>1. CASE EndPhase
      BY <3>1 DEF EndPhase, PhaseDone, procVars
    <3>2. CASE EndProcess
      BY <3>2 DEF EndProcess
    <3> QED BY <1>14, <3>1, <3>2
  <2>3. lastOp' = lastOp \/ lastOp' = FirstOp
    BY <1>14 DEF EndPhase, EndProcess, procVars
  <2>4. "idle" \in Places'
    BY DEF Places, Pcs
  <2>5. pc' \in [Threads -> Places'] /\ op' \in [Threads -> Transactions \cup {"none", "peek"}]
    BY <2>1, <2>4 DEF Each
  <2>6. \A t \in Threads : pc'[t] = "idle"
    BY <2>1 DEF Each
  <2>7. lastOp' = "none" \/ (lastOp' \in Transactions /\ cfg'.weights[lastOp'] > 0)
    BY <1>01, <2>1, <2>3, FirstOpAdded
  <2> QED BY <2>1, <2>2, <2>5, <2>6, <2>7, NextPhases DEF CtlInv
<1>15. CASE UNCHANGED vars
  <2>1. UNCHANGED <<cfg, phase, pc, op, lastOp, exiting>>
    BY <1>15 DEF vars, procVars, threadVars
  <2>2. Places' = Places /\ Drawing' = Drawing
    BY <2>1 DEF Places, Drawing
  <2> QED BY <2>1, <2>2 DEF CtlInv
<1> QED BY <1>1, <1>2, <1>3, <1>4, <1>5, <1>6, <1>7, <1>8, <1>9, <1>10, <1>11, <1>12, <1>13,
           <1>14, <1>15, NextSplit DEF Step

-----------------------------------------------------------------------------
(* 2. zeta_n_. *)

(* What the constructor puts into zeta_n_. *)
LEMMA FirstZeta ==
    /\ FirstTerms \in Int
    /\ \A i \in 1 .. MaxTerm : Zeta(FirstTerms)[i] = IF i <= FirstTerms THEN 1 ELSE 0
BY WorkloadAssumption DEF FirstTerms, Zeta

(* The invariant holds for what the constructor computed. *)
LEMMA InitZeta == Init => ZetaInv
<1> SUFFICES ASSUME Init PROVE ZetaInv
  OBVIOUS
<1>1. /\ counter = RecordCount /\ limit = RecordCount - 1
      /\ zetaCount = FirstTerms /\ zeta = Zeta(FirstTerms) /\ zipfMax = Each(0)
  BY DEF Init, Prefix!Init
<1> QED BY <1>1, FirstZeta, WorkloadAssumption DEF ZetaInv, ZetaExact, Each

(* Every step keeps each term that zeta_n_ covers added once. *)
LEMMA NextZeta == ASSUME ZetaInv, [Next]_vars PROVE ZetaInv'
<1>0. RecordCount \in Nat
  BY WorkloadAssumption
<1>1. ASSUME NEW t \in Threads, TakeKey(t) PROVE ZetaInv'
  <2>1. counter' = counter + 1 /\ UNCHANGED <<limit, zetaCount, zeta, zipfMax>>
    BY <1>1 DEF TakeKey, Prefix!HandOut
  <2> QED BY <2>1 DEF ZetaInv, ZetaExact
<1>2. ASSUME NEW t \in Threads, Acknowledge(t) PROVE ZetaInv'
  <2>1. limit' \in Int /\ UNCHANGED <<counter, zetaCount, zeta, zipfMax>>
    BY <1>2 DEF Acknowledge, Prefix!Acknowledge
  <2> QED BY <2>1 DEF ZetaInv, ZetaExact
<1>3. ASSUME NEW t \in Threads, ReadLast(t) PROVE ZetaInv'
  <2>1. zipfMax' = [zipfMax EXCEPT ![t] = limit] /\ UNCHANGED <<limit, counter, zetaCount, zeta>>
    BY <1>3 DEF ReadLast, procVars, prefixVars
  <2> QED BY <2>1 DEF ZetaInv, ZetaExact
<1>4. ASSUME NEW t \in Threads, DrawLatest(t) PROVE ZetaInv'
  <2>1. PICK num \in Int : num = zipfMax[t]
    BY DEF ZetaInv
  <2>2. /\ zeta' = [i \in 1 .. MaxTerm |->
                       zeta[i] + IF Grows(num) /\ i \in (zetaCount + 1) .. num THEN 1 ELSE 0]
        /\ zetaCount' = IF Grows(num) THEN num ELSE zetaCount
        /\ UNCHANGED <<limit, counter, zipfMax>>
    BY <1>4, <2>1 DEF DrawLatest, prefixVars
  <2>3. zetaCount \in Int /\ zetaCount' \in Int
    BY <2>1, <2>2 DEF ZetaInv
  <2>4. ASSUME NEW i \in 1 .. MaxTerm PROVE zeta'[i] = IF i <= zetaCount' THEN 1 ELSE 0
    <3>1. i \in Int
      OBVIOUS
    <3>2. zeta[i] = IF i <= zetaCount THEN 1 ELSE 0
      BY DEF ZetaInv, ZetaExact
    <3>3. zeta'[i] = zeta[i] + IF Grows(num) /\ i \in (zetaCount + 1) .. num THEN 1 ELSE 0
      BY <2>2
    <3> QED BY <2>1, <2>2, <2>3, <3>1, <3>2, <3>3 DEF Grows
  <2> QED BY <2>2, <2>3, <2>4 DEF ZetaInv, ZetaExact
<1>5. CASE EndPhase
  <2>1. zipfMax' = Each(0) /\ UNCHANGED <<limit, counter, zetaCount, zeta>>
    BY <1>5 DEF EndPhase, StartThreads, procVars, prefixVars
  <2>2. zipfMax' \in [Threads -> Int]
    BY <2>1 DEF Each
  <2> QED BY <2>1, <2>2 DEF ZetaInv, ZetaExact
<1>6. CASE EndProcess
  <2>1. /\ zipfMax' = Each(0) /\ counter' = RecordCount /\ limit' = RecordCount - 1
        /\ zetaCount' = FirstTerms /\ zeta' = Zeta(FirstTerms)
    BY <1>6 DEF EndProcess, StartThreads
  <2>2. zipfMax' \in [Threads -> Int]
    BY <2>1 DEF Each
  <2> QED BY <1>0, <2>1, <2>2, FirstZeta DEF ZetaInv, ZetaExact
<1>7. ASSUME NEW t \in Threads,
             \/ ChooseOp(t) \/ PeekKey(t) \/ PeekOp(t) \/ DrawRandom(t) \/ DrawSequential(t)
             \/ CheckKey(t) \/ LoadKey(t) \/ ReplayKey(t) \/ ReplayCrash(t) \/ NextToCheck(t)
             \/ DbCall(t) \/ CountTx(t) \/ CountCorrect(t) \/ Count(t)
      PROVE  ZetaInv'
  <2>1. UNCHANGED <<limit, counter, zetaCount, zeta, zipfMax>>
    BY <1>7 DEF ChooseOp, PeekKey, PeekOp, DrawRandom, DrawSequential, CheckKey, LoadKey,
        ReplayKey, ReplayCrash, NextToCheck, DbCall, CountTx, CountCorrect, Count, procVars,
        prefixVars, threadVars
  <2> QED BY <2>1 DEF ZetaInv, ZetaExact
<1>8. CASE InitThreadCrash \/ UNCHANGED vars
  <2>1. UNCHANGED <<limit, counter, zetaCount, zeta, zipfMax>>
    BY <1>8 DEF InitThreadCrash, vars, procVars, prefixVars, threadVars
  <2> QED BY <2>1 DEF ZetaInv, ZetaExact
<1> QED BY <1>1, <1>2, <1>3, <1>4, <1>5, <1>6, <1>7, <1>8, NextSplit DEF Step

-----------------------------------------------------------------------------
(* 3. oks. *)

Accounted == cfg.workload # "tracepeek" /\ cfg.weights["rdidx"] = 0

(* Nothing is counted at first. *)
LEMMA InitOks == Init => OksInv
<1> SUFFICES ASSUME Init PROVE OksInv
  OBVIOUS
<1>1. /\ oks = Each(0) /\ measured = Each(0) /\ rmwReads = Each(0) /\ status = Each("none")
      /\ pc = Each("idle")
  BY DEF Init
<1> QED BY <1>1 DEF OksInv, Each, Uncounted, Called

(* A step of client t that keeps the books. *)
LEMMA OksStep ==
    ASSUME OksInv, Accounted, cfg' = cfg, NEW t \in Threads,
           {oks', measured', rmwReads'} \subseteq [Threads -> Int],
           status' = [u \in Threads |-> status'[u]],
           \A u \in Threads \ {t} :
              /\ pc'[u] = pc[u] /\ status'[u] = status[u] /\ oks'[u] = oks[u]
              /\ measured'[u] = measured[u] /\ rmwReads'[u] = rmwReads[u],
           oks'[t] + Uncounted(t)' = measured'[t] - rmwReads'[t],
           pc'[t] \in Called => status'[t] # "uninitialised"
    PROVE  OksInv'
<1>1. ASSUME NEW u \in Threads
      PROVE  /\ oks'[u] + Uncounted(u)' = measured'[u] - rmwReads'[u]
             /\ pc'[u] \in Called => status'[u] # "uninitialised"
  <2>1. CASE u = t
    BY <2>1
  <2>2. CASE u # t
    <3>1. oks[u] + Uncounted(u) = measured[u] - rmwReads[u]
      BY DEF OksInv, Accounted
    <3>2. pc[u] \in Called => status[u] # "uninitialised"
      BY DEF OksInv, Accounted
    <3>3. Uncounted(u)' = Uncounted(u)
      BY <2>2 DEF Uncounted, Called
    <3> QED BY <2>2, <3>1, <3>2, <3>3
  <2> QED BY <2>1, <2>2
<1> QED BY <1>1 DEF OksInv

(* Every step keeps oks with what was measured, and the operation under way apart. *)
LEMMA NextOks == ASSUME CtlInv, OksInv, [Next]_vars PROVE OksInv'
<1>0. cfg' = cfg
  <2>1. ASSUME NEW t \in Threads, Step(t) PROVE cfg' = cfg
    BY <2>1 DEF Step, ChooseOp, PeekKey, PeekOp, DrawRandom, DrawSequential, ReadLast, DrawLatest,
        CheckKey, LoadKey, TakeKey, ReplayKey, ReplayCrash, NextToCheck, DbCall, Acknowledge,
        CountTx, CountCorrect, Count
  <2>2. CASE InitThreadCrash \/ EndPhase \/ EndProcess \/ UNCHANGED vars
    BY <2>2 DEF InitThreadCrash, EndPhase, EndProcess, StartThreads, vars
  <2> QED BY <2>1, <2>2, NextSplit
<1> SUFFICES ASSUME Accounted PROVE OksInv'
  BY <1>0 DEF Accounted, OksInv
<1>01. /\ oks \in [Threads -> Int] /\ measured \in [Threads -> Int]
       /\ rmwReads \in [Threads -> Int] /\ status = [u \in Threads |-> status[u]]
       /\ \A t \in Threads : /\ oks[t] + Uncounted(t) = measured[t] - rmwReads[t]
                             /\ pc[t] \in Called => status[t] # "uninitialised"
  BY DEF OksInv, Accounted
<1>02. pc \in [Threads -> Places]
  BY DEF CtlInv
<1>1. ASSUME NEW t \in Threads, ChooseOp(t) PROVE OksInv'
  <2>1. UNCHANGED <<oks, measured, rmwReads>> /\ pc[t] = "idle"
    BY <1>1 DEF ChooseOp, history, Ready, At
  <2>2. PICK x : op' = [op EXCEPT ![t] = DiscreteNext(x)]
    BY <1>1 DEF ChooseOp
  <2>3. op'[t] = DiscreteNext(x)
    BY <2>2 DEF CtlInv
  <2>4. op'[t] # "rdidx"
    <3>1. cfg.weights["rdidx"] = 0
      BY DEF Accounted
    <3>2. op'[t] = "none" \/ cfg.weights[op'[t]] > 0
      BY <2>3, DiscreteNextAdded
    <3> QED BY <3>1, <3>2
  <2>5. /\ pc' = [pc EXCEPT ![t] = Label(op'[t])]
        /\ status' = [status EXCEPT ![t] = "uninitialised"]
    BY <1>1 DEF ChooseOp, Goto
  <2>6. pc'[t] \in {"take", "draw"}
    BY <1>02, <2>4, <2>5 DEF Label
  <2>7. \A u \in Threads \ {t} : pc'[u] = pc[u] /\ status'[u] = status[u]
    BY <1>01, <1>02, <2>5
  <2>8. status' = [u \in Threads |-> status'[u]]
    BY <1>01, <2>5
  <2>9. Uncounted(t)' = 0 /\ Uncounted(t) = 0
    BY <2>1, <2>6 DEF Uncounted, Called
  <2>10. oks'[t] + Uncounted(t)' = measured'[t] - rmwReads'[t]
    BY <1>01, <2>1, <2>9
  <2>11. pc'[t] \notin Called
    BY <2>6 DEF Called
  <2> QED BY <1>0, <1>01, <2>1, <2>7, <2>8, <2>10, <2>11, OksStep
<1>2. ASSUME NEW t \in Threads,
             \/ DrawRandom(t) \/ DrawSequential(t) \/ ReadLast(t) \/ DrawLatest(t) \/ CheckKey(t)
             \/ LoadKey(t) \/ TakeKey(t) \/ ReplayKey(t) \/ NextToCheck(t)
      PROVE  OksInv'
  <2>1. /\ UNCHANGED <<oks, measured, rmwReads, status>>
        /\ pc[t] \in {"idle", "draw", "zipf", "check", "take"}
    BY <1>2 DEF DrawRandom, DrawSequential, ReadLast, DrawLatest, CheckKey, LoadKey, TakeKey,
        ReplayKey, NextToCheck, history, Ready, At
  <2>2. PICK l : /\ pc' = [pc EXCEPT ![t] = l]
                 /\ \/ l \in {"check", "zipf", "draw", "rmwread", "insert", "read"}
                    \/ l = op[t] /\ pc[t] = "check"
    BY <1>2 DEF DrawRandom, DrawSequential, ReadLast, DrawLatest, CheckKey, LoadKey, TakeKey,
        ReplayKey, NextToCheck, Goto, Drawn, At
  <2>3. l \notin Called
    <3>1. op[t] \in Transactions \cup {"none", "peek"}
      BY DEF CtlInv
    <3> QED BY <2>2, <3>1, TransactionsSet DEF Called
  <2>4. pc'[t] = l /\ \A u \in Threads \ {t} : pc'[u] = pc[u]
    BY <1>02, <2>2
  <2>5. Uncounted(t)' = 0 /\ Uncounted(t) = 0
    BY <2>1, <2>3, <2>4 DEF Uncounted, Called
  <2>6. oks'[t] + Uncounted(t)' = measured'[t] - rmwReads'[t]
    BY <1>01, <2>1, <2>5
  <2>7. \A u \in Threads \ {t} :
              /\ pc'[u] = pc[u] /\ status'[u] = status[u] /\ oks'[u] = oks[u]
              /\ measured'[u] = measured[u] /\ rmwReads'[u] = rmwReads[u]
    BY <2>1, <2>4
  <2> QED BY <1>0, <1>01, <2>1, <2>3, <2>4, <2>6, <2>7, OksStep
<1>3. ASSUME NEW t \in Threads, PeekKey(t) \/ PeekOp(t) PROVE OksInv'
  <2>1. CASE PeekKey(t)
    BY <2>1 DEF PeekKey, Accounted
  <2>2. CASE PeekOp(t)
    <3>1. Running /\ pc[t] = "peek"
      BY <2>2 DEF PeekOp, At
    <3>2. cfg.workload \in {"core", "checking", "tracepeek", "pureinsert"}
      BY ScenarioFacts DEF CtlInv
    <3> QED BY <1>02, <3>1, <3>2, RunningPhase DEF Places, Pcs, Accounted
  <2> QED BY <1>3, <2>1, <2>2
<1>4. ASSUME NEW t \in Threads, DbCall(t) PROVE OksInv'
  <2>1. PICK s \in {"ok", "notfound", "error"} :
          /\ status' = [status EXCEPT ![t] = KeptStatus(t, s)]
          /\ measured' = [measured EXCEPT ![t] = @ + IF s = "ok" THEN 1 ELSE 0]
          /\ rmwReads' = [rmwReads EXCEPT ![t] =
                            @ + IF s = "ok" /\ pc[t] = "rmwread" THEN 1 ELSE 0]
    BY <1>4 DEF DbCall, Outcomes
  <2>2. /\ pc[t] \in {"insert", "read", "scan", "update", "rmwread"}
        /\ pc' = [pc EXCEPT ![t] = AfterCall(t)] /\ oks' = oks
    BY <1>4 DEF DbCall, Goto
  <2>3. /\ pc'[t] = AfterCall(t) /\ status'[t] = KeptStatus(t, s)
        /\ measured'[t] = measured[t] + (IF s = "ok" THEN 1 ELSE 0)
        /\ rmwReads'[t] = rmwReads[t] + (IF s = "ok" /\ pc[t] = "rmwread" THEN 1 ELSE 0)
    BY <1>01, <1>02, <2>1, <2>2
  <2>4. \A u \in Threads \ {t} :
              /\ pc'[u] = pc[u] /\ status'[u] = status[u] /\ oks'[u] = oks[u]
              /\ measured'[u] = measured[u] /\ rmwReads'[u] = rmwReads[u]
    BY <1>01, <1>02, <2>1, <2>2
  <2>5. {oks', measured', rmwReads'} \subseteq [Threads -> Int]
    BY <1>01, <2>1, <2>2
  <2>6. status' = [u \in Threads |-> status'[u]]
    BY <1>01, <2>1
  <2>7. Uncounted(t) = 0
    BY <2>2 DEF Uncounted, Called
  <2>8. CASE pc[t] = "rmwread"
    <3>1. Uncounted(t)' = 0 /\ pc'[t] = "update"
      BY <2>3, <2>8 DEF Uncounted, AfterCall, Called
    <3>2. oks'[t] + Uncounted(t)' = measured'[t] - rmwReads'[t]
      BY <1>01, <2>2, <2>3, <2>7, <2>8, <3>1
    <3>3. pc'[t] \notin Called
      BY <3>1 DEF Called
    <3> QED BY <1>0, <2>4, <2>5, <2>6, <3>2, <3>3, OksStep
  <2>9. CASE pc[t] # "rmwread"
    <3>1. pc'[t] \in {"ack", "stop", "correct", "count"} /\ status'[t] = s
      BY <2>2, <2>3, <2>9 DEF AfterCall, KeptStatus
    <3>2. Uncounted(t)' = IF s = "ok" THEN 1 ELSE 0
      BY <3>1 DEF Uncounted, Called
    <3>3. oks'[t] + Uncounted(t)' = measured'[t] - rmwReads'[t]
      BY <1>01, <2>2, <2>3, <2>7, <2>9, <3>2
    <3> QED BY <1>0, <2>4, <2>5, <2>6, <3>1, <3>3, OksStep
  <2> QED BY <2>8, <2>9
<1>5. ASSUME NEW t \in Threads, Acknowledge(t) \/ CountTx(t) \/ CountCorrect(t) PROVE OksInv'
  <2>1. /\ UNCHANGED <<oks, measured, rmwReads, status>>
        /\ pc[t] \in {"ack", "stop", "correct"}
    BY <1>5 DEF Acknowledge, CountTx, CountCorrect, history, At
  <2>2. PICK l \in {"count", "exit"} : pc' = [pc EXCEPT ![t] = l]
    BY <1>5 DEF Acknowledge, CountTx, CountCorrect, Goto
  <2>3. pc'[t] = l /\ \A u \in Threads \ {t} : pc'[u] = pc[u]
    BY <1>02, <2>2
  <2>4. Uncounted(t)' = Uncounted(t)
    BY <2>1, <2>3 DEF Uncounted, Called
  <2>5. status[t] # "uninitialised"
    BY <1>01, <2>1 DEF Called
  <2>6. oks'[t] + Uncounted(t)' = measured'[t] - rmwReads'[t]
    BY <1>01, <2>1, <2>4
  <2>7. \A u \in Threads \ {t} :
              /\ pc'[u] = pc[u] /\ status'[u] = status[u] /\ oks'[u] = oks[u]
              /\ measured'[u] = measured[u] /\ rmwReads'[u] = rmwReads[u]
    BY <2>1, <2>3
  <2> QED BY <1>0, <1>01, <2>1, <2>3, <2>5, <2>6, <2>7, OksStep
<1>6. ASSUME NEW t \in Threads, Count(t) PROVE OksInv'
  <2>1. /\ UNCHANGED <<measured, rmwReads, status>> /\ pc[t] = "count"
        /\ pc' = [pc EXCEPT ![t] = "idle"]
    BY <1>6 DEF Count, history, At, Goto
  <2>2. oks' = [oks EXCEPT ![t] = @ + IF status[t] = "ok" THEN 1 ELSE 0]
    <3>1. status[t] # "uninitialised"
      BY <1>01, <2>1 DEF Called
    <3> QED BY <1>6, <3>1 DEF Count
  <2>3. oks'[t] = oks[t] + IF status[t] = "ok" THEN 1 ELSE 0
    BY <1>01, <2>2
  <2>4. Uncounted(t)' = 0 /\ Uncounted(t) = IF status[t] = "ok" THEN 1 ELSE 0
    BY <1>02, <2>1 DEF Uncounted, Called
  <2>5. oks'[t] + Uncounted(t)' = measured'[t] - rmwReads'[t]
    BY <1>01, <2>1, <2>3, <2>4
  <2>6. \A u \in Threads \ {t} :
              /\ pc'[u] = pc[u] /\ status'[u] = status[u] /\ oks'[u] = oks[u]
              /\ measured'[u] = measured[u] /\ rmwReads'[u] = rmwReads[u]
    BY <1>01, <1>02, <2>1, <2>2
  <2>7. oks' \in [Threads -> Int] /\ pc'[t] = "idle"
    BY <1>01, <1>02, <2>1, <2>2
  <2>8. pc'[t] \notin Called
    BY <2>7 DEF Called
  <2> QED BY <1>0, <1>01, <2>1, <2>5, <2>6, <2>7, <2>8, OksStep
<1>7. CASE EndPhase \/ EndProcess
  <2>1. /\ oks' = Each(0) /\ measured' = Each(0) /\ rmwReads' = Each(0) /\ status' = Each("none")
        /\ pc' = Each("idle")
    BY <1>7 DEF EndPhase, EndProcess, StartThreads
  <2> QED BY <2>1 DEF OksInv, Each, Uncounted, Called
<1>8. CASE InitThreadCrash \/ UNCHANGED vars \/ \E t \in Threads : ReplayCrash(t)
  <2>1. UNCHANGED <<cfg, oks, measured, rmwReads, status, pc>>
    BY <1>8 DEF InitThreadCrash, ReplayCrash, vars, threadVars, history
  <2> QED BY <2>1 DEF OksInv, Uncounted
<1> QED BY <1>1, <1>2, <1>3, <1>4, <1>5, <1>6, <1>7, <1>8, NextSplit DEF Step

-----------------------------------------------------------------------------
(* 4. The keys of the inserts. *)

(* There are finitely many clients. *)
LEMMA ThreadsFinite == IsFiniteSet(Threads)
<1>1. 0 \in Int /\ NumThreads - 1 \in Int
  BY WorkloadAssumption
<1> QED BY <1>1, FS_Interval, Zenon DEF Threads

(* The shares of the clients add up to the operations of the phase. *)
LEMMA QuotasSum ==
    ASSUME NEW ph, Total(ph) \in Nat
    PROVE  /\ Quotas(ph) \in [Threads -> Nat]
           /\ Sum(Quotas(ph), Threads) = Total(ph)
<1>1. PICK n \in Nat : n = NumThreads /\ n > 0
  BY WorkloadAssumption
<1>2. PICK T \in Nat : T = Total(ph)
  OBVIOUS
<1>3. PICK q \in Nat, r \in Nat : q = T \div n /\ r = T % n /\ r <= n /\ n * q + r = T
  BY <1>1, <1>2
<1>4. \A c \in 0 .. (n - 1) : Quotas(ph)[c] = q + (IF c < r THEN 1 ELSE 0)
  BY <1>1, <1>2, <1>3 DEF Quotas, Threads, ThreadOps
<1>5. Quotas(ph) \in [0 .. (n - 1) -> Nat]
  <2>1. \A c \in 0 .. (n - 1) : Quotas(ph)[c] \in Nat
    BY <1>3, <1>4
  <2>2. Quotas(ph) = [c \in 0 .. (n - 1) |-> Quotas(ph)[c]]
    BY <1>1 DEF Quotas, Threads
  <2> QED BY <2>1, <2>2
<1>6. Sum(Quotas(ph), 0 .. (n - 1)) = n * q + r
  <2>1. PICK g : g = Quotas(ph)
    OBVIOUS
  <2>2. Shares(g, q, r, n)
    BY <1>3, <1>4, <2>1 DEF Shares
  <2>3. Sum(g, 0 .. (n - 1)) = n * q + r
    BY <2>2, SumOfShares
  <2> QED BY <2>1, <2>3, Zenon
<1>7. Threads = 0 .. (n - 1)
  BY <1>1 DEF Threads
<1> QED BY <1>2, <1>3, <1>5, <1>6, <1>7

(* A phase has a natural number of operations. *)
LEMMA TotalNat == ASSUME cfg \in Scenarios, NEW ph PROVE Total(ph) \in Nat
BY WorkloadAssumption, ScenarioFacts DEF Total

(* While a load goes on, what is taken and what is not add up to recordcount. *)
LEMMA UntakenNat ==
    ASSUME LoadInv PROVE Untaken \in [Threads -> Nat]
<1>1. left \in [Threads -> Nat] /\ \A t \in Threads : pc[t] # "idle" => left[t] > 0
  BY DEF LoadInv
<1>2. \A t \in Threads : left[t] - (IF pc[t] = "idle" THEN 0 ELSE 1) \in Nat
  BY <1>1
<1> QED BY <1>2 DEF Untaken

(* No key has been handed out at first. *)
LEMMA InitLoad == Init => LoadInv
<1> SUFFICES ASSUME Init PROVE LoadInv
  OBVIOUS
<1>1. /\ cfg \in Scenarios /\ phase = FirstPhase
      /\ stored = IF cfg.mode = "run" /\ cfg.workload # "pureinsert"
                  THEN cfg.insertstart .. (cfg.insertstart + RecordCount - 1) ELSE {}
      /\ insertNext = cfg.insertstart /\ counter = RecordCount
      /\ pc = Each("idle") /\ left = Quotas(FirstPhase) /\ inserted = stored /\ collided = FALSE
  BY DEF Init, Prefix!Init
<1>2. cfg.insertstart \in Nat /\ RecordCount \in Nat
  BY <1>1, ScenarioFacts, WorkloadAssumption
<1>3. left \in [Threads -> Nat] /\ Sum(left, Threads) = Total(phase)
  BY <1>1, QuotasSum, TotalNat
<1>4. \A t \in Threads : pc[t] = "idle"
  BY <1>1 DEF Each
<1>5. Untaken = left
  <2>1. \A t \in Threads : left[t] - (IF pc[t] = "idle" THEN 0 ELSE 1) = left[t]
    BY <1>3, <1>4
  <2> QED BY <1>3, <2>1 DEF Untaken
<1>6. phase = "load" => Total(phase) = RecordCount
  BY DEF Total
<1>7. phase = "load" => stored = {}
  BY <1>1 DEF FirstPhase
<1>8. phase = "load" => /\ insertNext - cfg.insertstart + Sum(Untaken, Threads) = RecordCount
                        /\ inserted = cfg.insertstart .. (insertNext - 1)
  BY <1>1, <1>2, <1>3, <1>5, <1>6, <1>7
<1>9. cfg.insertstart = 0 => ~collided /\ inserted \subseteq 0 .. (counter - 1)
  BY <1>1, <1>2
<1>10. /\ insertNext \in Nat /\ insertNext >= cfg.insertstart
       /\ counter \in Nat /\ counter >= RecordCount /\ counter = RecordCount
  BY <1>1, <1>2
<1>11. collided \in BOOLEAN
  BY <1>1, Zenon
<1> QED BY <1>3, <1>4, <1>8, <1>9, <1>10, <1>11 DEF LoadInv

(* A step of client t within an operation, or that begins one that takes no key of the load. *)
LEMMA LoadStep ==
    ASSUME LoadInv, pc \in [Threads -> Places], NEW t \in Threads, NEW l, l # "idle",
           cfg' = cfg, phase' = phase,
           pc' = [pc EXCEPT ![t] = l], left[t] > 0,
           \/ pc[t] # "idle" /\ insertNext' = insertNext
           \/ phase # "load" /\ insertNext' \in Nat /\ insertNext' >= cfg.insertstart
           \/ cfg.workload = "pureinsert" /\ insertNext' = insertNext,
           UNCHANGED <<left, counter, collided, inserted>>
    PROVE  LoadInv'
<1>1. insertNext' \in Nat /\ insertNext' >= cfg.insertstart
  BY DEF LoadInv
<1>2. \A u \in Threads : pc'[u] # "idle" => left'[u] > 0
  BY DEF LoadInv
<1>3. phase = "load" /\ cfg.workload # "pureinsert" => insertNext' = insertNext /\ Untaken' = Untaken
  <2> SUFFICES ASSUME phase = "load" /\ cfg.workload # "pureinsert"
               PROVE  insertNext' = insertNext /\ Untaken' = Untaken
    OBVIOUS
  <2>1. pc[t] # "idle" /\ insertNext' = insertNext
    OBVIOUS
  <2>2. \A u \in Threads : (pc'[u] = "idle") <=> (pc[u] = "idle")
    BY <2>1
  <2> QED BY <2>1, <2>2 DEF Untaken
<1>4. Sum(Untaken, Threads)' = Sum(Untaken', Threads)
  BY DEF Threads
<1> QED BY <1>1, <1>2, <1>3, <1>4 DEF LoadInv

(* Every step keeps the keys handed out those of the operations begun, and distinct. *)
LEMMA NextLoad == ASSUME CtlInv, LoadInv, [Next]_vars PROVE LoadInv'
<1>0. cfg.workload \in {"core", "checking", "tracepeek", "pureinsert"}
  BY ScenarioFacts DEF CtlInv
<1>01. /\ pc \in [Threads -> Places] /\ op \in [Threads -> Transactions \cup {"none", "peek"}]
       /\ cfg \in Scenarios
       /\ exiting => phase = "load"
  BY DEF CtlInv
<1>02. /\ insertNext \in Nat /\ insertNext >= cfg.insertstart
       /\ counter \in Nat /\ counter >= RecordCount
       /\ left \in [Threads -> Nat] /\ \A t \in Threads : pc[t] # "idle" => left[t] > 0
  BY DEF LoadInv
<1>03. RecordCount \in Nat /\ cfg.insertstart \in Nat
  BY <1>01, ScenarioFacts, WorkloadAssumption
<1>04. Sum(Untaken, Threads)' = Sum(Untaken', Threads)
  BY DEF Threads
<1>1. ASSUME NEW t \in Threads, ChooseOp(t) \/ PeekKey(t) PROVE LoadInv'
  <2>1. /\ phase = "run" /\ left[t] > 0 /\ cfg' = cfg /\ phase' = phase /\ insertNext' = insertNext
        /\ UNCHANGED <<left, counter, collided, inserted>>
    BY <1>1 DEF ChooseOp, PeekKey, Ready, procVars, prefixVars, history
  <2>2. PICK l : l # "idle" /\ pc' = [pc EXCEPT ![t] = l]
    BY <1>1 DEF ChooseOp, PeekKey, Goto, Label
  <2> QED BY <1>01, <1>02, <2>1, <2>2, LoadStep
<1>2. ASSUME NEW t \in Threads,
             \/ PeekOp(t) \/ DrawRandom(t) \/ DrawSequential(t) \/ ReadLast(t) \/ DrawLatest(t)
             \/ CheckKey(t) \/ DbCall(t) \/ Acknowledge(t) \/ CountTx(t) \/ CountCorrect(t)
      PROVE  LoadInv'
  <2>1. /\ cfg' = cfg /\ phase' = phase /\ insertNext' = insertNext
        /\ UNCHANGED <<left, counter, collided, inserted>>
    BY <1>2 DEF PeekOp, DrawRandom, DrawSequential, ReadLast, DrawLatest, CheckKey, DbCall,
        Acknowledge, Prefix!Acknowledge, CountTx, CountCorrect, procVars, prefixVars, history
  <2>2. pc[t] # "idle"
    BY <1>2 DEF PeekOp, DrawRandom, DrawSequential, ReadLast, DrawLatest, CheckKey, DbCall,
        Acknowledge, CountTx, CountCorrect, At
  <2>3. PICK l : /\ pc' = [pc EXCEPT ![t] = l]
                 /\ \/ l \in {"count", "check", "zipf", "draw", "rmwread", "exit"}
                    \/ l = op[t]
                    \/ l = AfterCall(t)
    BY <1>2 DEF PeekOp, DrawRandom, DrawSequential, ReadLast, DrawLatest, CheckKey, DbCall,
        Acknowledge, CountTx, CountCorrect, Goto, Drawn
  <2>4. l # "idle"
    BY <1>01, <2>3, TransactionsSet DEF AfterCall
  <2> QED BY <1>01, <1>02, <2>1, <2>2, <2>3, <2>4, LoadStep
<1>3. ASSUME NEW t \in Threads, ReplayKey(t) PROVE LoadInv'
  <2>1. /\ cfg.workload = "pureinsert" /\ left[t] > 0 /\ cfg' = cfg /\ phase' = phase
        /\ insertNext' = insertNext /\ UNCHANGED <<left, counter, collided, inserted>>
        /\ pc' = [pc EXCEPT ![t] = "insert"]
    BY <1>3 DEF ReplayKey, Ready, Goto, procVars, prefixVars
  <2> QED BY <1>01, <1>02, <2>1, LoadStep
<1>4. ASSUME NEW t \in Threads, NextToCheck(t) PROVE LoadInv'
  <2>1. /\ phase = "run" /\ left[t] > 0 /\ cfg' = cfg /\ phase' = phase
        /\ insertNext' = insertNext + 1 /\ UNCHANGED <<left, counter, collided, inserted>>
        /\ pc' = [pc EXCEPT ![t] = "read"]
    BY <1>4 DEF NextToCheck, Ready, Goto, prefixVars, history
  <2>2. insertNext' \in Nat /\ insertNext' >= cfg.insertstart
    BY <1>02, <1>03, <2>1
  <2> QED BY <1>01, <1>02, <2>1, <2>2, LoadStep
<1>5. ASSUME NEW t \in Threads, LoadKey(t) PROVE LoadInv'
  <2>1. /\ phase = "load" /\ cfg.workload # "pureinsert" /\ pc[t] = "idle" /\ left[t] > 0
        /\ cfg' = cfg /\ phase' = phase /\ insertNext' = insertNext + 1
        /\ UNCHANGED <<left, counter>> /\ pc' = [pc EXCEPT ![t] = "insert"]
        /\ inserted' = inserted \cup {insertNext}
        /\ collided' = (collided \/ insertNext \in inserted)
    BY <1>5 DEF LoadKey, Ready, At, Goto, GivenToInsert, prefixVars
  <2>2. \A u \in Threads : pc'[u] # "idle" => left'[u] > 0
    BY <1>01, <1>02, <2>1
  <2>3. /\ insertNext - cfg.insertstart + Sum(Untaken, Threads) = RecordCount
        /\ inserted = cfg.insertstart .. (insertNext - 1) /\ counter = RecordCount
    BY <2>1 DEF LoadInv
  <2>4. Untaken \in [Threads -> Nat] /\ Untaken' \in [Threads -> Nat]
    <3>1. \A u \in Threads : left'[u] - (IF pc'[u] = "idle" THEN 0 ELSE 1) \in Nat
      BY <1>02, <2>1, <2>2
    <3> QED BY <3>1, UntakenNat DEF Untaken
  <2>5. \A u \in Threads \ {t} : Untaken[u] = Untaken'[u]
    BY <1>01, <2>1 DEF Untaken
  <2>6. Untaken'[t] = Untaken[t] - 1
    BY <1>01, <1>02, <2>1 DEF Untaken
  <2>7. PICK g, h : g = Untaken /\ h = Untaken'
    OBVIOUS
  <2>8. Sum(g, Threads) + h[t] = Sum(h, Threads) + g[t]
    <3>1. \A u \in Threads : g[u] \in Nat
      BY <2>4, <2>7
    <3>2. \A u \in Threads : h[u] \in Nat
      BY <2>4, <2>7
    <3>3. \A u \in Threads \ {t} : g[u] = h[u]
      BY <2>5, <2>7
    <3> QED BY <3>1, <3>2, <3>3, ThreadsFinite, SumUpdate
  <2>9. Sum(g, Threads) \in Nat /\ Sum(h, Threads) \in Nat
    <3>1. \A u \in Threads : g[u] \in Nat
      BY <2>4, <2>7
    <3>2. \A u \in Threads : h[u] \in Nat
      BY <2>4, <2>7
    <3> QED BY <3>1, <3>2, ThreadsFinite, SumNat, Zenon
  <2>10. /\ insertNext' - cfg'.insertstart + Sum(Untaken', Threads) = RecordCount
         /\ insertNext' <= cfg.insertstart + RecordCount
    <3>1. PICK x \in Nat, y \in Nat : x = Sum(g, Threads) /\ y = Sum(h, Threads)
      BY <2>9
    <3>2. x + h[t] = y + g[t] /\ h[t] = g[t] - 1 /\ g[t] \in Nat
      BY <2>4, <2>6, <2>7, <2>8, <3>1
    <3>3. insertNext - cfg.insertstart + x = RecordCount
      BY <2>3, <2>7, <3>1
    <3>4. x = y + 1
      BY <3>2
    <3>5. y = Sum(Untaken', Threads)
      BY <2>7, <3>1
    <3> QED BY <1>02, <1>03, <2>1, <3>3, <3>4, <3>5
  <2>11. insertNext' \in Nat /\ insertNext' >= cfg.insertstart
    BY <1>02, <1>03, <2>1
  <2>12. inserted' = cfg.insertstart .. (insertNext' - 1)
    BY <1>02, <1>03, <2>1, <2>3
  <2>13. insertNext \notin inserted
    BY <1>02, <1>03, <2>3
  <2>14. collided' \in BOOLEAN /\ (~collided => ~collided')
    BY <2>1, <2>13, Zenon DEF LoadInv
  <2>15. cfg.insertstart = 0 => ~collided' /\ inserted' \subseteq 0 .. (counter' - 1)
    <3>1. cfg.insertstart = 0 => ~collided'
      BY <2>14 DEF LoadInv
    <3>2. cfg.insertstart = 0 => inserted' \subseteq 0 .. (counter' - 1)
      BY <1>02, <1>03, <2>1, <2>3, <2>10, <2>11, <2>12
    <3> QED BY <3>1, <3>2
  <2>16. /\ left' \in [Threads -> Nat] /\ counter' \in Nat /\ counter' >= RecordCount
         /\ counter' = RecordCount
    BY <1>02, <2>1, <2>3
  <2> QED BY <1>04, <2>1, <2>2, <2>10, <2>11, <2>12, <2>14, <2>15, <2>16 DEF LoadInv
<1>6. ASSUME NEW t \in Threads, TakeKey(t) PROVE LoadInv'
  <2>1. /\ Running /\ pc[t] = "take" /\ cfg' = cfg /\ phase' = phase /\ insertNext' = insertNext
        /\ left' = left /\ counter' = counter + 1 /\ pc' = [pc EXCEPT ![t] = "insert"]
        /\ inserted' = inserted \cup {counter}
        /\ collided' = (collided \/ counter \in inserted)
    BY <1>6 DEF TakeKey, At, Goto, GivenToInsert, Prefix!HandOut
  <2>2. phase = "run"
    BY <1>0, <1>01, <2>1, RunningPhase DEF Places, Pcs
  <2>3. \A u \in Threads : pc'[u] # "idle" => left'[u] > 0
    BY <1>01, <1>02, <2>1
  <2>4. counter' \in Nat /\ counter' >= RecordCount
    BY <1>02, <1>03, <2>1
  <2>5. cfg.insertstart = 0 => counter \notin inserted
    BY <1>02 DEF LoadInv
  <2>6. collided' \in BOOLEAN
    BY <2>1, Zenon DEF LoadInv
  <2>7. cfg.insertstart = 0 => ~collided'
    BY <2>1, <2>5 DEF LoadInv
  <2>8. cfg.insertstart = 0 => inserted' \subseteq 0 .. (counter' - 1)
    <3>1. cfg.insertstart = 0 => inserted \subseteq 0 .. (counter - 1)
      BY DEF LoadInv
    <3> QED BY <1>02, <2>1, <3>1
  <2> QED BY <1>02, <2>1, <2>2, <2>3, <2>4, <2>6, <2>7, <2>8 DEF LoadInv
<1>7. ASSUME NEW t \in Threads, Count(t) PROVE LoadInv'
  <2>1. /\ pc[t] = "count" /\ cfg' = cfg /\ phase' = phase /\ insertNext' = insertNext
        /\ UNCHANGED <<counter, inserted, collided>> /\ pc' = [pc EXCEPT ![t] = "idle"]
        /\ left' = [left EXCEPT ![t] = @ - 1]
    BY <1>7 DEF Count, At, Goto, procVars, prefixVars, history
  <2>2. left[t] > 0 /\ left[t] \in Nat
    BY <1>02, <2>1
  <2>3. left' \in [Threads -> Nat]
    BY <1>02, <2>1, <2>2
  <2>4. \A u \in Threads : pc'[u] # "idle" => left'[u] > 0
    BY <1>01, <1>02, <2>1
  <2>5. Untaken' = Untaken
    <3>1. ASSUME NEW u \in Threads
          PROVE  left'[u] - (IF pc'[u] = "idle" THEN 0 ELSE 1)
                   = left[u] - (IF pc[u] = "idle" THEN 0 ELSE 1)
      <4>1. CASE u = t
        BY <1>01, <1>02, <2>1, <2>2, <4>1
      <4>2. CASE u # t
        BY <1>01, <1>02, <2>1, <4>2
      <4> QED BY <4>1, <4>2
    <3> QED BY <3>1 DEF Untaken
  <2> QED BY <1>02, <1>04, <2>1, <2>3, <2>4, <2>5 DEF LoadInv
<1>8. CASE EndPhase \/ EndProcess
  <2>1. /\ cfg' = cfg /\ phase' = NextPhase /\ pc' = Each("idle") /\ left' = Quotas(NextPhase)
        /\ UNCHANGED <<inserted, collided>>
    BY <1>8 DEF EndPhase, EndProcess, StartThreads
  <2>2. phase' # "load"
    BY <2>1, NextPhases
  <2>3. \A t \in Threads : pc'[t] = "idle"
    BY <2>1 DEF Each
  <2>4. left' \in [Threads -> Nat]
    BY <1>01, <2>1, QuotasSum, TotalNat
  <2>5. \/ UNCHANGED <<insertNext, counter>>
        \/ insertNext' = cfg.insertstart /\ counter' = RecordCount /\ counter = RecordCount
    <3>1. CASE EndPhase
      BY <3>1 DEF EndPhase, procVars, prefixVars
    <3>2. CASE EndProcess
      <4>1. phase = "load" /\ insertNext' = cfg.insertstart /\ counter' = RecordCount
        BY <1>01, <3>2 DEF EndProcess
      <4> QED BY <4>1 DEF LoadInv
    <3> QED BY <1>8, <3>1, <3>2
  <2>6. /\ insertNext' \in Nat /\ insertNext' >= cfg.insertstart
        /\ counter' \in Nat /\ counter' >= RecordCount /\ counter' = counter
    BY <1>02, <1>03, <2>5
  <2> QED BY <2>1, <2>2, <2>3, <2>4, <2>6 DEF LoadInv
<1>9. CASE InitThreadCrash \/ UNCHANGED vars \/ \E t \in Threads : ReplayCrash(t)
  <2>1. /\ UNCHANGED <<cfg, insertNext, counter, inserted, collided, left, pc>>
        /\ phase' = phase \/ phase' = "crashed"
    BY <1>9 DEF InitThreadCrash, ReplayCrash, vars, threadVars, procVars, prefixVars, history
  <2>2. Untaken' = Untaken
    BY <2>1 DEF Untaken
  <2> QED BY <1>04, <2>1, <2>2 DEF LoadInv
<1> QED BY <1>1, <1>2, <1>3, <1>4, <1>5, <1>6, <1>7, <1>8, <1>9, NextSplit DEF Step

-----------------------------------------------------------------------------
(* 5. The keys that are read. *)

(* No key has been drawn at first. *)
LEMMA InitKey == Init => KeyInv
<1> SUFFICES ASSUME Init, Loaded PROVE KeyInv
  BY DEF KeyInv
<1>1. /\ cfg \in Scenarios /\ phase = FirstPhase /\ cfg.workload # "pureinsert"
      /\ stored = IF cfg.mode = "run" /\ cfg.workload # "pureinsert"
                  THEN cfg.insertstart .. (cfg.insertstart + RecordCount - 1) ELSE {}
      /\ insertNext = 0 /\ limit = RecordCount - 1 /\ acked = {} /\ overrun = FALSE
      /\ pc = Each("idle") /\ key = Each(0) /\ seqNext = Each(0)
  BY DEF Init, Prefix!Init, Loaded
<1>2. RecordCount \in Nat
  BY WorkloadAssumption
<1>3. key = [t \in Threads |-> key[t]] /\ seqNext \in [Threads -> Nat]
  BY <1>1 DEF Each
<1>4. overrun \in BOOLEAN
  BY <1>1, Zenon
<1>5. \A k \in RecordCount .. limit : k \in acked
  BY <1>1, <1>2
<1>6. \A k \in 0 .. (insertNext - 1) : FALSE
  BY <1>1
<1>7. phase = "run" => 0 .. (RecordCount - 1) \subseteq Settled
  <2>1. phase = "run" => stored = 0 .. (RecordCount - 1)
    BY <1>1, <1>2 DEF FirstPhase, Loaded
  <2> QED BY <2>1 DEF Settled
<1>8. \A t \in Threads : pc[t] = "idle"
  BY <1>1 DEF Each
<1>9. acked \subseteq Settled
  BY <1>1
<1>10. \A t \in Threads : KeyOf(t)
  BY <1>8 DEF KeyOf, Reading
<1> QED BY <1>3, <1>4, <1>5, <1>6, <1>7, <1>9, <1>10 DEF KeyInv

(* A step that takes client t to l. *)
LEMMA KeyStep ==
    ASSUME KeyInv, Loaded, pc \in [Threads -> Places], NEW t \in Threads, NEW l,
           cfg' = cfg, phase' = phase, pc' = [pc EXCEPT ![t] = l],
           key' = [u \in Threads |-> key'[u]], \A u \in Threads \ {t} : key'[u] = key[u],
           seqNext' \in [Threads -> Nat],
           Settled \subseteq Settled', acked' \subseteq Settled', overrun' \in BOOLEAN,
           overrun => overrun',
           ~overrun' => \A k \in RecordCount .. limit' : k \in acked',
           phase = "load" =>
               /\ \A k \in 0 .. (insertNext' - 1) :
                    k \in 0 .. (insertNext - 1) \/ (l = "insert" /\ k = key'[t])
               /\ pc[t] = "insert" => key[t] \in Settled',
           KeyOf(t)'
    PROVE  KeyInv'
<1>1. \A u \in Threads \ {t} : pc'[u] = pc[u]
  OBVIOUS
<1>2. pc'[t] = l
  OBVIOUS
<1>3. \A u \in Threads : KeyOf(u)'
  <2> SUFFICES ASSUME NEW u \in Threads, u # t PROVE KeyOf(u)'
    OBVIOUS
  <2>1. KeyOf(u)
    BY DEF KeyInv
  <2>2. pc'[u] = pc[u] /\ key'[u] = key[u]
    BY <1>1
  <2> QED BY <2>1, <2>2 DEF KeyOf
<1>4. phase = "load" => \A k \in 0 .. (insertNext' - 1) :
        k \in Settled' \/ \E u \in Threads : pc'[u] = "insert" /\ key'[u] = k
  <2> SUFFICES ASSUME phase = "load", NEW k \in 0 .. (insertNext' - 1), k \notin Settled'
               PROVE  \E u \in Threads : pc'[u] = "insert" /\ key'[u] = k
    OBVIOUS
  <2>1. CASE l = "insert" /\ k = key'[t]
    BY <1>2, <2>1
  <2>2. CASE k \in 0 .. (insertNext - 1)
    <3>1. PICK u \in Threads : pc[u] = "insert" /\ key[u] = k
      BY <2>2 DEF KeyInv
    <3>2. u # t
      BY <3>1
    <3> QED BY <1>1, <3>1, <3>2
  <2> QED BY <2>1, <2>2
<1>5. phase = "run" => 0 .. (RecordCount - 1) \subseteq Settled'
  BY DEF KeyInv
<1> QED BY <1>3, <1>4, <1>5 DEF KeyInv

(* When the clients of a load are done, all its keys are settled. *)
LEMMA LoadDone ==
    ASSUME CtlInv, LoadInv, KeyInv, Loaded, phase = "load", PhaseDone
    PROVE  0 .. (RecordCount - 1) \subseteq Settled
<1>1. \A t \in Threads : pc[t] = "idle" /\ left[t] = 0
  BY DEF PhaseDone
<1>2. \A t \in Threads : Untaken[t] = 0
  BY <1>1 DEF Untaken
<1>3. PICK g : g = Untaken
  OBVIOUS
<1>4. Sum(g, Threads) = 0
  <2>1. \A t \in Threads : g[t] = 0
    BY <1>2, <1>3
  <2> QED BY <2>1, ThreadsFinite, SumZero
<1>5. insertNext - cfg.insertstart + Sum(g, Threads) = RecordCount
  BY <1>3 DEF LoadInv, Loaded
<1>6. insertNext \in Nat /\ cfg.insertstart = 0
  BY DEF LoadInv, Loaded
<1>7. insertNext = RecordCount
  BY <1>4, <1>5, <1>6
<1> QED BY <1>1, <1>7 DEF KeyInv

(* Every step keeps the keys that are used among those whose insert has returned. *)
LEMMA NextKey ==
    ASSUME CtlInv, ZetaInv, LoadInv, KeyInv, [Next]_vars PROVE KeyInv'
<1>0. cfg' = cfg
  <2>1. ASSUME NEW t \in Threads, Step(t) PROVE cfg' = cfg
    BY <2>1 DEF Step, ChooseOp, PeekKey, PeekOp, DrawRandom, DrawSequential, ReadLast, DrawLatest,
        CheckKey, LoadKey, TakeKey, ReplayKey, ReplayCrash, NextToCheck, DbCall, Acknowledge,
        CountTx, CountCorrect, Count
  <2>2. CASE InitThreadCrash \/ EndPhase \/ EndProcess \/ UNCHANGED vars
    BY <2>2 DEF InitThreadCrash, EndPhase, EndProcess, StartThreads, vars
  <2> QED BY <2>1, <2>2, NextSplit
<1> SUFFICES ASSUME Loaded PROVE KeyInv'
  BY <1>0 DEF Loaded, KeyInv
<1>01. /\ cfg \in Scenarios /\ pc \in [Threads -> Places] /\ ~exiting
       /\ op \in [Threads -> Transactions \cup {"none", "peek"}]
       /\ \A t \in Threads : pc[t] \in {"draw", "zipf", "check"} => op[t] \in Drawing
  BY DEF CtlInv, Loaded
<1>02. limit \in Int /\ counter \in Nat /\ insertNext \in Nat /\ zipfMax \in [Threads -> Int]
  BY DEF ZetaInv, LoadInv
<1>03. /\ RecordCount \in Nat /\ cfg.newkeys \in Nat /\ cfg.minread \in Nat
  BY <1>01, ScenarioFacts, WorkloadAssumption
<1>04. /\ key = [t \in Threads |-> key[t]] /\ seqNext \in [Threads -> Nat]
       /\ acked \subseteq Settled /\ overrun \in BOOLEAN
       /\ ~overrun => \A k \in RecordCount .. limit : k \in acked
       /\ \A t \in Threads : KeyOf(t)
  BY DEF KeyInv
<1>05. cfg.workload \in {"core", "tracepeek"}
  BY DEF Loaded
<1>1. ASSUME NEW t \in Threads,
             ChooseOp(t) \/ PeekKey(t) \/ PeekOp(t) \/ ReadLast(t) \/ CheckKey(t) \/ Count(t)
      PROVE  KeyInv'
  <2>1. UNCHANGED <<cfg, phase, stored, failed, insertNext, acked, limit, overrun, key, seqNext>>
    BY <1>1 DEF ChooseOp, PeekKey, PeekOp, ReadLast, CheckKey, Count, procVars, prefixVars, history
  <2>2. PICK l : /\ pc' = [pc EXCEPT ![t] = l]
                 /\ \/ l \in {"take", "count", "draw", "zipf", "idle"}
                    \/ l \in {op[t], "rmwread"} /\ ~AboveLast(key[t]) /\ CheckKey(t)
    BY <1>1 DEF ChooseOp, PeekKey, PeekOp, ReadLast, CheckKey, Count, Goto, Label
  <2>3. pc[t] # "insert"
    BY <1>1 DEF ChooseOp, PeekKey, PeekOp, ReadLast, CheckKey, Count, Ready, At
  <2>4. Settled' = Settled /\ pc'[t] = l
    BY <1>01, <2>1, <2>2 DEF Settled
  <2>5. KeyOf(t)'
    <3>1. CASE l \in {"take", "count", "draw", "zipf", "idle"}
      BY <2>4, <3>1 DEF KeyOf, Reading
    <3>2. CASE l \in {op[t], "rmwread"} /\ ~AboveLast(key[t]) /\ CheckKey(t)
      <4>1. Running /\ pc[t] = "check"
        BY <3>2 DEF CheckKey, At
      <4>2. phase = "run"
        BY <1>01, <1>05, <4>1, RunningPhase DEF Places, Pcs
      <4>3. key[t] \in Nat /\ key[t] <= limit
        BY <1>02, <1>04, <3>2, <4>1 DEF KeyOf, AboveLast
      <4>4. ~overrun => key[t] \in Settled
        <5>1. CASE key[t] < RecordCount
          <6>1. key[t] \in 0 .. (RecordCount - 1)
            BY <1>03, <4>3, <5>1
          <6> QED BY <4>2, <6>1 DEF KeyInv
        <5>2. CASE key[t] >= RecordCount
          <6>1. key[t] \in RecordCount .. limit
            BY <1>02, <1>03, <4>3, <5>2
          <6> QED BY <1>04, <6>1
        <5> QED BY <1>03, <4>3, <5>1, <5>2
      <4>5. l \notin {"check", "ack"}
        BY <1>01, <3>2, TransactionsSet
      <4> QED BY <2>1, <2>4, <4>4, <4>5 DEF KeyOf
    <3> QED BY <2>2, <3>1, <3>2
  <2> QED BY <1>01, <1>04, <2>1, <2>2, <2>3, <2>4, <2>5, KeyStep
<1>2. ASSUME NEW t \in Threads, DrawRandom(t) \/ DrawSequential(t) \/ DrawLatest(t) PROVE KeyInv'
  <2>1. /\ UNCHANGED <<cfg, phase, stored, failed, insertNext, acked, limit, overrun>>
        /\ pc[t] # "insert"
    BY <1>2 DEF DrawRandom, DrawSequential, DrawLatest, At, procVars, prefixVars, history
  <2>2. PICK k \in Nat : key' = [key EXCEPT ![t] = k] /\ pc' = [pc EXCEPT ![t] = "check"]
    <3>1. CASE DrawRandom(t)
      <4>1. PICK k \in RandomKeys : Drawn(t, k)
        BY <3>1 DEF DrawRandom
      <4>2. k \in Nat
        BY <1>03, <4>1 DEF RandomKeys
      <4> QED BY <4>1, <4>2 DEF Drawn, Goto
    <3>2. CASE DrawSequential(t)
      <4>1. PICK val : /\ val = IF seqNext[t] = 0 THEN cfg.minread ELSE seqNext[t]
                       /\ Drawn(t, val)
        BY <3>2 DEF DrawSequential
      <4>2. val \in Nat
        BY <1>03, <1>04, <4>1
      <4> QED BY <4>1, <4>2 DEF Drawn, Goto
    <3>3. CASE DrawLatest(t)
      <4>1. PICK z \in 0 .. (zipfMax[t] - 1) : Drawn(t, zipfMax[t] - z)
        BY <3>3 DEF DrawLatest
      <4>2. zipfMax[t] - z \in Nat
        BY <1>02, <4>1
      <4> QED BY <4>1, <4>2 DEF Drawn, Goto
    <3> QED BY <1>2, <3>1, <3>2, <3>3
  <2>3. seqNext' \in [Threads -> Nat]
    <3>1. CASE DrawSequential(t)
      <4>1. PICK val : /\ val = IF seqNext[t] = 0 THEN cfg.minread ELSE seqNext[t]
                       /\ seqNext' = [seqNext EXCEPT ![t] = After(val)]
        BY <3>1 DEF DrawSequential
      <4>2. After(val) \in Nat
        BY <1>03, <1>04, <4>1 DEF After
      <4> QED BY <1>04, <4>1, <4>2
    <3>2. CASE DrawRandom(t) \/ DrawLatest(t)
      BY <1>04, <3>2 DEF DrawRandom, DrawLatest
    <3> QED BY <1>2, <3>1, <3>2
  <2>4. /\ key' = [u \in Threads |-> key'[u]] /\ \A u \in Threads \ {t} : key'[u] = key[u]
        /\ key'[t] = k /\ pc'[t] = "check"
    BY <1>01, <1>04, <2>2
  <2>5. Settled' = Settled /\ KeyOf(t)'
    BY <2>1, <2>4 DEF Settled, KeyOf, Reading
  <2> QED BY <1>01, <1>04, <2>1, <2>2, <2>3, <2>4, <2>5, KeyStep
<1>3. ASSUME NEW t \in Threads, LoadKey(t) \/ TakeKey(t) PROVE KeyInv'
  <2>1. /\ UNCHANGED <<cfg, phase, stored, failed, acked, limit, overrun, seqNext>>
        /\ pc[t] # "insert" /\ pc' = [pc EXCEPT ![t] = "insert"]
    BY <1>3 DEF LoadKey, TakeKey, Ready, At, Goto, prefixVars, Prefix!HandOut
  <2>2. PICK k : key' = [key EXCEPT ![t] = k]
    BY <1>3 DEF LoadKey, TakeKey
  <2>3. /\ key' = [u \in Threads |-> key'[u]] /\ \A u \in Threads \ {t} : key'[u] = key[u]
        /\ key'[t] = k /\ pc'[t] = "insert"
    BY <1>01, <1>04, <2>1, <2>2
  <2>4. phase = "load" => \A i \in 0 .. (insertNext' - 1) :
          i \in 0 .. (insertNext - 1) \/ i = key'[t]
    <3>1. CASE LoadKey(t)
      <4>1. key' = [key EXCEPT ![t] = insertNext] /\ insertNext' = insertNext + 1
        BY <3>1 DEF LoadKey
      <4>2. key'[t] = insertNext
        BY <1>04, <4>1
      <4> QED BY <1>02, <4>1, <4>2
    <3>2. CASE TakeKey(t)
      <4>1. insertNext' = insertNext
        BY <3>2 DEF TakeKey
      <4> QED BY <4>1
    <3> QED BY <1>3, <3>1, <3>2
  <2>5. Settled' = Settled /\ KeyOf(t)'
    BY <2>1, <2>3 DEF Settled, KeyOf, Reading
  <2> QED BY <1>01, <1>04, <2>1, <2>3, <2>4, <2>5, KeyStep
<1>4. ASSUME NEW t \in Threads, DbCall(t) PROVE KeyInv'
  <2>1. /\ UNCHANGED <<cfg, phase, insertNext, acked, limit, overrun, key, seqNext>>
        /\ Running /\ pc[t] \in {"insert", "read", "scan", "update", "rmwread"}
        /\ pc' = [pc EXCEPT ![t] = AfterCall(t)]
    BY <1>4 DEF DbCall, Goto, procVars, prefixVars
  <2>2. /\ Settled \subseteq Settled'
        /\ pc[t] = "insert" => key[t] \in Settled'
    BY <1>4 DEF DbCall, Settled
  <2>3. pc'[t] = AfterCall(t) /\ key'[t] = key[t]
    BY <1>01, <2>1
  <2>4. KeyOf(t)'
    <3>1. KeyOf(t)
      BY <1>04
    <3>2. CASE pc[t] = "rmwread"
      BY <2>1, <2>2, <2>3, <3>1, <3>2 DEF KeyOf, Reading, AfterCall
    <3>3. CASE pc[t] # "rmwread"
      <4>1. pc'[t] \notin Reading /\ pc'[t] # "check"
        BY <2>1, <2>3, <3>3 DEF AfterCall, Reading
      <4>2. pc'[t] = "ack" => pc[t] = "insert"
        BY <2>1, <2>3, <3>3 DEF AfterCall
      <4> QED BY <2>2, <2>3, <4>1, <4>2 DEF KeyOf
    <3> QED BY <3>2, <3>3
  <2> QED BY <1>01, <1>04, <2>1, <2>2, <2>4, KeyStep
<1>5. ASSUME NEW t \in Threads, Acknowledge(t) PROVE KeyInv'
  <2>1. /\ UNCHANGED <<cfg, phase, stored, failed, insertNext, key, seqNext>>
        /\ pc[t] = "ack" /\ pc' = [pc EXCEPT ![t] = "count"]
        /\ acked' = acked \cup {key[t]} /\ overrun' = (overrun \/ key[t] > limit + W)
        /\ ~overrun' => Prefix!Covers(acked', limit')
    BY <1>5 DEF Acknowledge, Prefix!Acknowledge, At, Goto, history
  <2>2. Settled' = Settled /\ pc'[t] = "count"
    BY <1>01, <2>1 DEF Settled
  <2>3. acked' \subseteq Settled'
    BY <1>04, <2>1, <2>2 DEF KeyOf
  <2>4. overrun' \in BOOLEAN /\ (overrun => overrun')
    BY <2>1, Zenon
  <2>5. ~overrun' => \A k \in RecordCount .. limit' : k \in acked'
    BY <2>1 DEF Prefix!Covers
  <2>6. KeyOf(t)'
    BY <2>2 DEF KeyOf, Reading
  <2> QED BY <1>01, <1>04, <2>1, <2>2, <2>3, <2>4, <2>5, <2>6, KeyStep
<1>6. ASSUME NEW t \in Threads,
             ReplayKey(t) \/ NextToCheck(t) \/ CountTx(t) \/ CountCorrect(t)
      PROVE  KeyInv'
  <2>1. ~ReplayKey(t) /\ ~NextToCheck(t)
    BY <1>05 DEF ReplayKey, NextToCheck
  <2>2. Running /\ pc[t] \in {"stop", "correct"}
    BY <1>6, <2>1 DEF CountTx, CountCorrect, At
  <2> QED BY <1>01, <1>05, <2>2, RunningPhase DEF Places, Pcs
<1>7. CASE EndPhase \/ EndProcess
  <2>1. /\ phase' = NextPhase /\ pc' = Each("idle") /\ key' = Each(0) /\ seqNext' = Each(0)
        /\ UNCHANGED <<stored, failed>> /\ Running /\ PhaseDone
    BY <1>01, <1>7 DEF EndPhase, EndProcess, StartThreads
  <2>2. key' = [t \in Threads |-> key'[t]] /\ seqNext' \in [Threads -> Nat]
    BY <2>1 DEF Each
  <2>3. \A t \in Threads : pc'[t] = "idle"
    BY <2>1 DEF Each
  <2>4. \A t \in Threads : KeyOf(t)'
    BY <2>3 DEF KeyOf, Reading
  <2>5. Settled' = Settled
    BY <2>1 DEF Settled
  <2>6. /\ acked' \subseteq Settled /\ overrun' \in BOOLEAN
        /\ ~overrun' => \A k \in RecordCount .. limit' : k \in acked'
    <3>1. CASE EndPhase
      <4>1. UNCHANGED <<acked, limit, overrun>>
        BY <3>1 DEF EndPhase, procVars, prefixVars
      <4> QED BY <1>04, <4>1
    <3>2. CASE EndProcess
      <4>1. acked' = {} /\ limit' = RecordCount - 1 /\ overrun' = FALSE
        BY <3>2 DEF EndProcess
      <4>2. \A k \in RecordCount .. limit' : FALSE
        BY <1>03, <4>1
      <4>3. overrun' \in BOOLEAN
        BY <4>1, Zenon
      <4> QED BY <4>1, <4>2, <4>3
    <3> QED BY <1>7, <3>1, <3>2
  <2>7. phase' # "load" /\ (phase' = "run" => phase = "load")
    BY <2>1, NextPhases
  <2>8. phase' = "run" => 0 .. (RecordCount - 1) \subseteq Settled'
    BY <2>1, <2>5, <2>7, LoadDone
  <2> QED BY <2>2, <2>4, <2>5, <2>6, <2>7, <2>8 DEF KeyInv
<1>8. CASE InitThreadCrash \/ UNCHANGED vars \/ \E t \in Threads : ReplayCrash(t)
  <2>1. /\ UNCHANGED <<cfg, insertNext, stored, failed, acked, limit, overrun, key, seqNext, pc>>
        /\ phase' = phase \/ phase' = "crashed"
    BY <1>8 DEF InitThreadCrash, ReplayCrash, vars, threadVars, procVars, prefixVars, history
  <2>2. Settled' = Settled /\ \A t \in Threads : KeyOf(t)'
    BY <1>04, <2>1 DEF Settled, KeyOf
  <2> QED BY <2>1, <2>2 DEF KeyInv, Loaded
<1> QED BY <1>1, <1>2, <1>3, <1>4, <1>5, <1>6, <1>7, <1>8, NextSplit DEF Step

-----------------------------------------------------------------------------
(* 6. Every client replays its own files. *)

(* The records before the i-th of files of L records. *)
Before(i, L) == (i - 1) * L

(* The records up to the end of a file come before the next. *)
LEMMA BeforeNext ==
    ASSUME NEW L \in Nat, NEW i \in Nat, NEW m \in Nat, m < i
    PROVE  Before(m, L) + L <= Before(i, L) /\ Before(m, L) \in Int /\ Before(i, L) \in Int
<1>1. m * L <= (i - 1) * L
  BY TimesMonotone
<1>2. (m - 1) * L = m * L - 1 * L
  BY Distribute
<1>3. m * L \in Int /\ (m - 1) * L \in Int /\ (i - 1) * L \in Int
  BY IntTimes
<1> QED BY <1>1, <1>2, <1>3 DEF Before

(* Two clients have no file in common. *)
LEMMA OwnFiles ==
    ASSUME NEW f \in Nat, NEW g \in Nat, NEW t \in Threads, NEW u \in Threads, t # u
    PROVE  FileNumber(f, t, NumThreads) # FileNumber(g, u, NumThreads)
<1>1. PICK n \in Nat : n = NumThreads
  BY WorkloadAssumption
<1>2. t \in 0 .. (n - 1) /\ u \in 0 .. (n - 1)
  BY <1>1 DEF Threads
<1>3. PICK x \in Nat, y \in Nat : x = f * n /\ y = g * n
  BY NatTimes
<1>4. (f + 1) * n = x + n /\ (g + 1) * n = y + n
  BY <1>3, Distribute
<1> SUFFICES ASSUME x + t + 1 = y + u + 1 PROVE FALSE
  BY <1>1, <1>3 DEF FileNumber
<1>5. CASE f < g
  <2>1. (f + 1) * n <= g * n
    BY <1>5, TimesMonotone
  <2> QED BY <1>2, <1>3, <1>4, <2>1
<1>6. CASE g < f
  <2>1. (g + 1) * n <= f * n
    BY <1>6, TimesMonotone
  <2> QED BY <1>2, <1>3, <1>4, <2>1
<1>7. CASE f = g
  BY <1>2, <1>3, <1>7
<1> QED BY <1>5, <1>6, <1>7

(* GetNextKey finds the next record in equally long files, while there is one. *)
LEMMA NextInOrder ==
    ASSUME NEW r \in ReaderStates, NEW s \in Seq(Int), NEW u \in Nat, u > 0,
           InOrder(r, s, u), SameLength(r.workloads),
           r.workloads # <<>> => r.len = Len(r.workloads[Len(r.workloads)]),
           NEW q, q = Turned(r)
    PROVE  KeyAt(q) \in Nat /\ InOrder(Advanced(q), Append(s, KeyAt(q)), u - 1)
<1>1. PICK files \in Seq(Seq(Nat)), L \in Nat, ri \in Nat, ro \in Nat :
        files = r.workloads /\ L = r.len /\ ri = r.i /\ ro = r.offset /\ ri > 0
  BY DEF ReaderStates
<1>2. PICK N \in Nat, p \in Nat, x \in Int, total \in Nat :
        /\ N = Len(files) /\ DOMAIN files = 1 .. N
        /\ p = Len(s) /\ x = (ri - 1) * L /\ total = N * L
  BY IntTimes, NatTimes
<1>3. DOMAIN files = 1 .. N
  BY <1>2
<1>4. p = x + ro /\ ro <= L /\ p + u <= total
  BY <1>1, <1>2 DEF InOrder
<1>40. L > 0
  <2>1. L = 0 => total = 0
    BY <1>2
  <2> QED BY <1>4, <2>1
<1>5. PICK qi \in Nat, qo \in Nat, y \in Int :
        /\ q = [workloads |-> files, len |-> L, i |-> qi, offset |-> qo] /\ qi > 0
        /\ y = (qi - 1) * L /\ p = y + qo /\ qo < L
  <2>1. CASE HasNextKey(r)
    <3>1. q = r /\ ro + 1 <= L
      BY <1>1, <2>1 DEF Turned, HasNextKey
    <3>2. q = [workloads |-> files, len |-> L, i |-> ri, offset |-> ro]
      BY <1>1, <3>1 DEF ReaderStates
    <3>3. ro < L
      BY <3>1
    <3> QED BY <1>1, <1>2, <1>4, <3>2, <3>3
  <2>2. CASE ~HasNextKey(r)
    <3>1. q = [r EXCEPT !.i = @ + 1, !.offset = 0] /\ ~(ro + 1 <= L)
      BY <1>1, <2>2 DEF Turned, HasNextKey
    <3>2. q = [workloads |-> files, len |-> L, i |-> ri + 1, offset |-> 0]
      BY <1>1, <3>1 DEF ReaderStates
    <3>3. ro = L
      BY <1>4, <3>1
    <3>4. PICK z \in Int : z = ri * L /\ z = ((ri + 1) - 1) * L
      BY IntTimes
    <3>5. x = z - L
      <4>1. (ri - 1) * L = ri * L - 1 * L
        BY Distribute
      <4> QED BY <1>2, <3>4, <4>1
    <3>6. p = z + 0
      BY <1>4, <3>3, <3>5
    <3>7. ri + 1 \in Nat /\ ri + 1 > 0 /\ 0 \in Nat
      OBVIOUS
    <3> QED BY <1>40, <3>2, <3>4, <3>6, <3>7
  <2> QED BY <2>1, <2>2
<1>7. qi \in 1 .. N
  <2>1. SUFFICES ASSUME qi > N PROVE FALSE
    BY <1>5
  <2>2. N <= qi - 1 /\ qi - 1 \in Int
    BY <2>1
  <2>3. N * L <= (qi - 1) * L
    BY <2>2, TimesMonotone
  <2>4. total <= y
    BY <1>2, <1>5, <2>3
  <2> QED BY <1>4, <1>5, <2>4
<1>8. Len(files[qi]) = L /\ files[qi] \in Seq(Nat)
  <2>1. N \in DOMAIN files /\ qi \in DOMAIN files /\ files # <<>>
    BY <1>3, <1>7
  <2>2. SameLength(files) /\ L = Len(files[N])
    <3>1. Len(files) = N
      BY <1>2
    <3> QED BY <1>1, <2>1, <3>1
  <2>3. Len(files[qi]) = Len(files[N])
    BY <2>1, <2>2 DEF SameLength
  <2> QED BY <2>1, <2>2, <2>3
<1>9. KeyAt(q) = files[qi][qo + 1] /\ KeyAt(q) \in Nat
  <2>1. qi \in DOMAIN files
    BY <1>2, <1>7
  <2>2. KeyAt(q) = files[qi][qo + 1]
    BY <1>5, <1>8, <2>1 DEF KeyAt
  <2>3. qo + 1 \in 1 .. L
    BY <1>5
  <2>4. qo + 1 \in DOMAIN files[qi]
    BY <1>8, <2>3
  <2> QED BY <1>8, <2>2, <2>4
<1>10. PICK k, s2 : k \in Nat /\ k = KeyAt(q) /\ s2 = Append(s, k)
  BY <1>9
<1>12. Len(s2) = p + 1 /\ s2[p + 1] = k /\ \A n \in 1 .. p : s2[n] = s[n]
  BY <1>2, <1>10
<1>13. PICK q2 : q2 = Advanced(q)
  OBVIOUS
<1>14. q2.workloads = files /\ q2.len = L /\ q2.i = qi /\ q2.offset = qo + 1
  BY <1>5, <1>13 DEF Advanced
<1>15. p + 1 + (u - 1) <= total
  BY <1>4
<1>16. p + 1 = y + (qo + 1) /\ qo + 1 <= L
  BY <1>5
<1>160. ASSUME NEW i \in Nat, NEW j \in 1 .. L, NEW w \in Int, w = Before(i, L), w + j = p + 1
        PROVE  i = qi /\ j = qo + 1
  <2>1. y = Before(qi, L)
    BY <1>5 DEF Before
  <2>2. qo < L /\ w + j = y + qo + 1
    BY <1>5, <1>160
  <2>3. ~(i < qi)
    <3>1. i < qi => w + L <= y
      BY <1>160, <2>1, BeforeNext
    <3> QED BY <2>2, <3>1
  <2>4. ~(qi < i)
    <3>1. qi < i => y + L <= w
      BY <1>160, <2>1, BeforeNext
    <3> QED BY <2>2, <3>1
  <2>5. i = qi
    BY <2>3, <2>4
  <2> QED BY <1>160, <2>1, <2>2, <2>5
<1>17. ASSUME NEW i \in DOMAIN files, NEW j \in 1 .. L, (i - 1) * L + j <= p + 1
       PROVE  s2[(i - 1) * L + j] = files[i][j]
  <2>1. i \in Nat /\ i - 1 \in Nat /\ j \in Nat /\ j > 0
    <3>1. i \in 1 .. N
      BY <1>3
    <3>2. \A n \in 1 .. N : n \in Nat /\ n - 1 \in Nat
      OBVIOUS
    <3>3. \A n \in 1 .. L : n \in Nat /\ n > 0
      OBVIOUS
    <3> QED BY <3>1, <3>2, <3>3
  <2>2. PICK w \in Nat : w = (i - 1) * L
    BY <2>1, NatTimes
  <2>3. CASE w + j <= p
    <3>1. w + j \in 1 .. p
      BY <2>1, <2>3
    <3>2. s[(i - 1) * L + j] = files[i][j]
      BY <1>1, <1>2, <2>2, <2>3 DEF InOrder
    <3> QED BY <1>12, <2>2, <3>1, <3>2
  <2>4. CASE w + j = p + 1
    <3>1. w = Before(i, L)
      BY <2>2 DEF Before
    <3>2. i = qi /\ j = qo + 1
      <4>1. w \in Int
        OBVIOUS
      <4> QED BY <1>160, <2>1, <2>4, <3>1, <4>1, Zenon
    <3> QED BY <1>9, <1>10, <1>12, <2>2, <2>4, <3>2
  <2>5. w + j <= p + 1
    BY <1>17, <2>2
  <2>6. \A a \in Nat : a <= p + 1 => a <= p \/ a = p + 1
    OBVIOUS
  <2>7. w + j \in Nat
    BY <2>1
  <2> QED BY <2>3, <2>4, <2>5, <2>6, <2>7
<1>18. InOrder(q2, s2, u - 1)
  <2>1. /\ Len(s2) = (q2.i - 1) * q2.len + q2.offset /\ q2.offset <= q2.len
        /\ Len(s2) + (u - 1) <= Len(q2.workloads) * q2.len
    BY <1>2, <1>5, <1>12, <1>14, <1>15, <1>16
  <2> QED BY <1>12, <1>14, <1>17, <2>1 DEF InOrder
<1> QED BY <1>9, <1>10, <1>13, <1>18

(* The first n files of client id have L records each ... *)
EqualFiles(trace, id, tc, n, L) ==
    \A i \in 0 .. (n - 1) : Len(trace[FileNumber(i, id, tc)]) = L

(* ... and so many of them together. *)
LEMMA RecordsOfEqualFiles ==
    ASSUME NEW trace, NEW id, NEW tc, NEW n \in Nat, NEW L \in Nat,
           EqualFiles(trace, id, tc, n, L)
    PROVE  Records(trace, id, tc, n) = n * L
<1> DEFINE lengths == [i \in 0 .. (n - 1) |-> Len(trace[FileNumber(i, id, tc)])]
<1>0. Records(trace, id, tc, n) = Sum(lengths, 0 .. (n - 1))
  BY Zenon DEF Records, Sum
<1>1. PICK g : g = lengths
  OBVIOUS
<1>2. Records(trace, id, tc, n) = Sum(g, 0 .. (n - 1))
  <2> HIDE DEF lengths
  <2> QED BY <1>0, <1>1
<1>3. Shares(g, L, 0, n)
  <2>1. \A i \in 0 .. (n - 1) : g[i] = L + (IF i < 0 THEN 1 ELSE 0)
    BY <1>1 DEF EqualFiles
  <2> QED BY <2>1 DEF Shares
<1>4. Sum(g, 0 .. (n - 1)) = n * L + 0
  BY <1>3, SumOfShares
<1>5. n * L \in Nat
  BY NatTimes
<1> QED BY <1>2, <1>4, <1>5

(* InsertThreadState maps files of its own, as many as the operations need. *)
LEMMA NewReader ==
    ASSUME NEW trace \in Seq(Seq(Nat)), NEW t \in Threads, NEW ops \in Nat,
           \E n \in 0 .. (Len(trace) \div NumThreads) : Records(trace, t, NumThreads, n) >= ops,
           NEW r, r = Reader(trace, t, NumThreads, ops)
    PROVE  ReplayState(trace, t, r, <<>>, ops) /\ (r.workloads = <<>> => ops = 0)
<1>1. PICK tc \in Nat, D \in Nat, X \in Nat :
        tc = NumThreads /\ tc > 0 /\ X = Len(trace) /\ D = X \div tc /\ D * tc <= X
  <2>1. NumThreads \in Nat /\ NumThreads > 0 /\ Len(trace) \in Nat
    <3>1. NumThreads \in Nat /\ NumThreads > 0
      BY WorkloadAssumption
    <3>2. \A z \in Seq(Seq(Nat)) : Len(z) \in Nat
      OBVIOUS
    <3> QED BY <3>1, <3>2
  <2>2. /\ Len(trace) \div NumThreads \in Nat
        /\ (Len(trace) \div NumThreads) * NumThreads <= Len(trace)
    BY <2>1, DivisionRounds
  <2> QED BY <2>1, <2>2
<1>2. t \in 0 .. (tc - 1)
  BY <1>1 DEF Threads
<1> DEFINE S == {n \in 0 .. D : Records(trace, t, tc, n) >= ops}
<1>3. PICK n \in 0 .. D : n = Files(trace, t, tc, ops) /\ Records(trace, t, tc, n) >= ops
  <2>0. \E n \in 0 .. D : Records(trace, t, tc, n) >= ops
    BY <1>1
  <2>1. S \subseteq Nat /\ S # {}
    BY <2>0
  <2>2. Min(S) \in S
    <3> HIDE DEF S
    <3> QED BY <2>1, MinIsIn
  <2>3. Files(trace, t, tc, ops) = Min(S)
    BY <1>1 DEF Files
  <2> HIDE DEF Files
  <2> QED BY <2>2, <2>3
<1>4. n \in Nat /\ n <= D
  BY <1>3
<1>5. ASSUME NEW f \in 0 .. (n - 1)
      PROVE  /\ FileNumber(f, t, tc) \in DOMAIN trace
             /\ trace[FileNumber(f, t, tc)] \in Seq(Nat)
  <2>1. PICK x \in Nat : x = f * tc
    BY <1>4, NatTimes
  <2>2. x + tc = (f + 1) * tc
    BY <1>4, <2>1, Distribute
  <2>3. (f + 1) * tc <= D * tc
    BY <1>4, TimesMonotone
  <2>4. PICK y \in Int : y = D * tc
    BY IntTimes
  <2>5. x + t + 1 \in 1 .. X
    BY <1>1, <1>2, <2>2, <2>3, <2>4
  <2>6. FileNumber(f, t, tc) = x + t + 1
    BY <2>1 DEF FileNumber
  <2>7. DOMAIN trace = 1 .. X
    BY <1>1
  <2>8. FileNumber(f, t, tc) \in DOMAIN trace
    BY <2>5, <2>6, <2>7
  <2> QED BY <2>8
<1>6. PICK files : files = [i \in 1 .. n |-> trace[FileNumber(i - 1, t, tc)]]
  OBVIOUS
<1>7. \A f \in 1 .. n : /\ FileNumber(f - 1, t, tc) \in DOMAIN trace
                       /\ files[f] = trace[FileNumber(f - 1, t, tc)] /\ files[f] \in Seq(Nat)
  <2> SUFFICES ASSUME NEW f \in 1 .. n
               PROVE  /\ FileNumber(f - 1, t, tc) \in DOMAIN trace
                      /\ trace[FileNumber(f - 1, t, tc)] \in Seq(Nat)
    BY <1>6
  <2>1. f - 1 \in 0 .. (n - 1)
    BY <1>4
  <2> QED BY <1>5, <2>1
<1>8. files \in Seq(Seq(Nat)) /\ Len(files) = n /\ DOMAIN files = 1 .. n
  <2>1. files \in [1 .. n -> Seq(Nat)]
    BY <1>6, <1>7
  <2> QED BY <1>4, <2>1
<1>9. PICK L : L = IF n = 0 THEN 0 ELSE Len(files[n])
  OBVIOUS
<1>10. r = [workloads |-> files, len |-> L, i |-> 1, offset |-> 0]
  BY <1>1, <1>3, <1>6, <1>9 DEF Reader
<1>11. L \in Nat
  <2>1. n # 0 => n \in 1 .. n
    BY <1>4
  <2> QED BY <1>7, <1>9, <2>1
<1>12. r \in ReaderStates
  BY <1>8, <1>10, <1>11 DEF ReaderStates
<1>13. SameLength(files) => Records(trace, t, tc, n) = n * L
  <2> SUFFICES ASSUME SameLength(files) PROVE Records(trace, t, tc, n) = n * L
    OBVIOUS
  <2>1. ASSUME NEW i \in 0 .. (n - 1) PROVE Len(trace[FileNumber(i, t, tc)]) = L
    <3>1. i + 1 \in 1 .. n /\ n \in 1 .. n /\ (i + 1) - 1 = i /\ n # 0
      BY <1>4
    <3>2. files[i + 1] = trace[FileNumber(i, t, tc)]
      BY <1>7, <3>1
    <3>3. Len(files[i + 1]) = Len(files[n])
      BY <1>8, <3>1 DEF SameLength
    <3> QED BY <1>9, <3>1, <3>2, <3>3
  <2>2. EqualFiles(trace, t, tc, n, L)
    BY <2>1 DEF EqualFiles
  <2>3. n \in Nat /\ L \in Nat
    BY <1>4, <1>11
  <2> QED BY <2>2, <2>3, RecordsOfEqualFiles
<1>14. SameLength(files) => InOrder(r, <<>>, ops)
  <2> SUFFICES ASSUME SameLength(files) PROVE InOrder(r, <<>>, ops)
    OBVIOUS
  <2>1. PICK z \in Nat : z = n * L /\ z >= ops
    BY <1>3, <1>4, <1>11, <1>13, NatTimes
  <2>2. (1 - 1) * L = 0
    BY <1>11
  <2>3. ASSUME NEW i \in 1 .. n, NEW j \in 1 .. L PROVE ~((i - 1) * L + j <= 0)
    <3>1. (i - 1) * L \in Nat
      BY <1>4, <1>11, NatTimes
    <3> QED BY <1>11, <3>1
  <2>4. Len(<<>>) = 0
    OBVIOUS
  <2> QED BY <1>8, <1>10, <1>11, <2>1, <2>2, <2>3, <2>4 DEF InOrder
<1>15. files = <<>> => ops = 0
  <2> SUFFICES ASSUME files = <<>> PROVE ops = 0
    OBVIOUS
  <2>1. n = 0
    BY <1>8
  <2>2. SameLength(files)
    BY <1>8, <2>1 DEF SameLength
  <2>3. n * L = 0
    BY <1>11, <2>1
  <2> QED BY <1>3, <1>13, <2>2, <2>3
<1>16. files # <<>> => L = Len(files[Len(files)])
  <2>1. files # <<>> => n # 0
    BY <1>8
  <2> QED BY <1>8, <1>9, <2>1
<1>17. <<>> \in Seq(Int) /\ DOMAIN <<>> = {}
  OBVIOUS
<1>18. r.workloads = files /\ r.len = L
  BY <1>10
<1>19. \A f \in DOMAIN r.workloads :
         /\ FileNumber(f - 1, t, NumThreads) \in DOMAIN trace
         /\ r.workloads[f] = trace[FileNumber(f - 1, t, NumThreads)]
  BY <1>1, <1>7, <1>8, <1>18
<1>20. ReplayState(trace, t, r, <<>>, ops)
  BY <1>12, <1>14, <1>16, <1>17, <1>18, <1>19, Zenon DEF ReplayState
<1> QED BY <1>15, <1>18, <1>20

(* A client without operations, or of another workload, has no files. *)
LEMMA NoReaderState ==
    ASSUME NEW trace, NEW t PROVE ReplayState(trace, t, NoReader, <<>>, 0)
<1>1. NoReader \in ReaderStates /\ NoReader.workloads = <<>> /\ NoReader.len = 0
      /\ NoReader.i = 1 /\ NoReader.offset = 0
  BY DEF NoReader, ReaderStates
<1>2. <<>> \in Seq(Int) /\ DOMAIN <<>> = {} /\ Len(<<>>) = 0
  OBVIOUS
<1>3. InOrder(NoReader, <<>>, 0)
  BY <1>1, <1>2 DEF InOrder
<1> QED BY <1>1, <1>2, <1>3 DEF ReplayState

(* GetNextKey takes a key from the client's own files, or from behind one of them. *)
LEMMA ReplayOne ==
    ASSUME NEW trace, NEW t, NEW r, NEW s, NEW u \in Nat, u > 0, ReplayState(trace, t, r, s, u),
           NEW q, q = Turned(r)
    PROVE  /\ ReplayState(trace, t, Advanced(q), Append(s, KeyAt(q)), u - 1)
           /\ KeyAt(q) \in Int /\ (SameLength(r.workloads) => KeyAt(q) \in Nat)
           /\ Advanced(q).workloads = r.workloads
<1>1. r \in ReaderStates /\ s \in Seq(Int)
  BY DEF ReplayState
<1>0. PICK files \in Seq(Seq(Nat)), L \in Nat, i \in Nat, o \in Nat :
        r = [workloads |-> files, len |-> L, i |-> i, offset |-> o] /\ i > 0
  BY <1>1 DEF ReaderStates
<1>02. PICK qi \in Nat, qo \in Nat :
         q = [workloads |-> files, len |-> L, i |-> qi, offset |-> qo] /\ qi > 0
  <2>1. q = r \/ q = [workloads |-> files, len |-> L, i |-> i + 1, offset |-> 0]
    BY <1>0 DEF Turned
  <2>2. i + 1 \in Nat /\ i + 1 > 0 /\ 0 \in Nat
    OBVIOUS
  <2> QED BY <1>0, <2>1, <2>2
<1>2. q \in ReaderStates /\ q.workloads = r.workloads /\ q.len = r.len
  BY <1>0, <1>02 DEF ReaderStates
<1>3. PICK q2 : /\ q2 = Advanced(q) /\ q2 \in ReaderStates
                /\ q2.workloads = r.workloads /\ q2.len = r.len
  <2>1. Advanced(q) = [workloads |-> files, len |-> L, i |-> qi, offset |-> qo + 1]
    BY <1>02 DEF Advanced
  <2>2. [workloads |-> files, len |-> L, i |-> qi, offset |-> qo + 1] \in ReaderStates
    BY <1>02 DEF ReaderStates
  <2> QED BY <1>0, <2>1, <2>2
<1>4. PICK k : k = KeyAt(q)
  OBVIOUS
<1>5. \/ k = Garbage
      \/ \E f \in DOMAIN r.workloads : \E j \in DOMAIN r.workloads[f] : k = r.workloads[f][j]
  <2> SUFFICES ASSUME q.i \in DOMAIN q.workloads, q.offset < Len(q.workloads[q.i])
               PROVE  \E f \in DOMAIN r.workloads : \E j \in DOMAIN r.workloads[f] :
                        k = r.workloads[f][j]
    BY <1>4 DEF KeyAt
  <2>1. k = q.workloads[q.i][q.offset + 1]
    BY <1>4 DEF KeyAt
  <2>2. q.offset \in Nat /\ q.workloads[q.i] \in Seq(Nat)
    BY <1>2 DEF ReaderStates
  <2>3. q.offset + 1 \in DOMAIN q.workloads[q.i]
    BY <2>2
  <2> QED BY <1>2, <2>1, <2>3
<1>6. k \in Int
  <2>1. r.workloads \in Seq(Seq(Nat))
    BY <1>1 DEF ReaderStates
  <2>2. \A f \in DOMAIN r.workloads : \A j \in DOMAIN r.workloads[f] : r.workloads[f][j] \in Nat
    BY <2>1
  <2> QED BY <1>5, <2>2 DEF Garbage
<1>7. PICK s2 : s2 = Append(s, k) /\ s2 \in Seq(Int)
  <2>1. \A z \in Seq(Int), x \in Int : Append(z, x) \in Seq(Int)
    OBVIOUS
  <2> QED BY <1>1, <1>6, <2>1
<1>8. \A n \in DOMAIN s2 : \/ s2[n] = Garbage
                           \/ \E f \in DOMAIN r.workloads : \E j \in DOMAIN r.workloads[f] :
                                s2[n] = r.workloads[f][j]
  <2> SUFFICES ASSUME NEW n \in DOMAIN s2
               PROVE  \/ s2[n] = Garbage
                      \/ \E f \in DOMAIN r.workloads : \E j \in DOMAIN r.workloads[f] :
                            s2[n] = r.workloads[f][j]
    OBVIOUS
  <2>1. s2[n] = k \/ (n \in DOMAIN s /\ s2[n] = s[n])
    BY <1>1, <1>6, <1>7
  <2> QED BY <1>5, <2>1 DEF ReplayState
<1>9. SameLength(r.workloads) => k \in Nat /\ InOrder(q2, s2, u - 1)
  <2> SUFFICES ASSUME SameLength(r.workloads) PROVE k \in Nat /\ InOrder(q2, s2, u - 1)
    OBVIOUS
  <2>1. InOrder(r, s, u) /\ (r.workloads # <<>> => r.len = Len(r.workloads[Len(r.workloads)]))
    BY DEF ReplayState
  <2>2. KeyAt(q) \in Nat /\ InOrder(Advanced(q), Append(s, KeyAt(q)), u - 1)
    BY <1>1, <2>1, NextInOrder
  <2> QED BY <1>3, <1>4, <1>7, <2>2
<1>10. ReplayState(trace, t, q2, s2, u - 1)
  BY <1>3, <1>7, <1>8, <1>9 DEF ReplayState
<1> QED BY <1>3, <1>4, <1>6, <1>7, <1>9, <1>10

(* The share of a client is a natural; without a share there is less than one for each. *)
LEMMA ThreadOpsNat ==
    ASSUME NEW T \in Nat, NEW t \in Threads
    PROVE  /\ ThreadOps(T, t) \in Nat /\ (T = 0 => ThreadOps(T, t) = 0)
           /\ ThreadOps(T, t) = 0 => T < NumThreads
<1>1. PICK n \in Nat : n = NumThreads /\ n > 0
  BY WorkloadAssumption
<1>2. t \in 0 .. (n - 1)
  BY <1>1 DEF Threads
<1>3. PICK q \in Nat, r \in Nat : q = T \div n /\ r = T % n /\ r < n /\ (T = 0 => q = 0 /\ r = 0)
                                /\ (q = 0 => T < n)
  BY <1>1
<1>4. ThreadOps(T, t) = q + (IF t < r THEN 1 ELSE 0)
  BY <1>1, <1>3 DEF ThreadOps
<1> QED BY <1>1, <1>2, <1>3, <1>4

(* The threads of a phase start with files for their operations. *)
LEMMA ReadersState ==
    ASSUME cfg \in Scenarios, cfg.workload = "pureinsert", NEW ph,
           ph = "load" => cfg.mode # "run", ph = "run" => cfg.mode # "load", NEW t \in Threads
    PROVE  /\ ReplayState(cfg.trace, t, Readers(ph)[t], <<>>, ThreadOps(Total(ph), t))
           /\ Readers(ph)[t].workloads = <<>> => ThreadOps(Total(ph), t) = 0
<1>1. PICK T \in Nat : T = Total(ph)
  BY TotalNat
<1>2. ThreadOps(T, t) \in Nat /\ (T = 0 => ThreadOps(T, t) = 0)
  BY ThreadOpsNat
<1>3. CASE T = 0
  <2>1. Readers(ph)[t] = NoReader
    BY <1>1, <1>3 DEF Readers
  <2> QED BY <1>1, <1>2, <1>3, <2>1, NoReaderState
<1>4. CASE T > 0
  <2>1. PICK r : r = Reader(cfg.trace, t, NumThreads, ThreadOps(T, t)) /\ r = Readers(ph)[t]
    BY <1>1, <1>4 DEF Readers
  <2>2. /\ cfg.trace \in Seq(Seq(Nat))
        /\ \A ops \in (IF cfg.mode = "run" THEN {} ELSE {RecordCount})
                         \cup (IF cfg.mode = "load" THEN {} ELSE {cfg.ops}), u \in Threads :
             \E n \in 0 .. (Len(cfg.trace) \div NumThreads) :
               Records(cfg.trace, u, NumThreads, n) >= ThreadOps(ops, u)
    BY TraceAssumption, Zenon
  <2>3. T \in (IF cfg.mode = "run" THEN {} ELSE {RecordCount})
                 \cup (IF cfg.mode = "load" THEN {} ELSE {cfg.ops})
    BY <1>1, <1>4 DEF Total
  <2>4. \E n \in 0 .. (Len(cfg.trace) \div NumThreads) :
          Records(cfg.trace, t, NumThreads, n) >= ThreadOps(T, t)
    BY <2>2, <2>3, Zenon
  <2>5. ReplayState(cfg.trace, t, r, <<>>, ThreadOps(T, t))
        /\ (r.workloads = <<>> => ThreadOps(T, t) = 0)
    BY <1>2, <2>1, <2>2, <2>4, NewReader
  <2> QED BY <1>1, <2>1, <2>5
<1> QED BY <1>3, <1>4

(* Other workloads have no trace. *)
LEMMA NoReaders == ASSUME cfg.workload # "pureinsert", NEW ph PROVE Readers(ph) = Each(NoReader)
BY DEF Readers, Each

(* What the threads of a phase replay at first. *)
LEMMA InitReplay == Init => ReplayInv
<1> SUFFICES ASSUME Init PROVE ReplayInv
  OBVIOUS
<1>1. /\ cfg \in Scenarios /\ phase = FirstPhase /\ reader = Readers(phase)
      /\ replayed = Each(<<>>) /\ left = Quotas(phase) /\ pc = Each("idle")
  BY DEF Init
<1>2. CASE cfg.workload # "pureinsert"
  BY <1>1, <1>2, NoReaders DEF ReplayInv
<1>3. CASE cfg.workload = "pureinsert"
  <2>1. /\ reader = [t \in Threads |-> reader[t]] /\ replayed = [t \in Threads |-> replayed[t]]
        /\ \A t \in Threads : replayed[t] = <<>>
    BY <1>1 DEF Readers, Each
  <2>2. /\ phase = "load" => cfg.mode # "run"
        /\ phase = "run" => cfg.mode # "load"
        /\ phase # "crashed"
    BY <1>1 DEF FirstPhase
  <2>3. ASSUME NEW t \in Threads PROVE Untaken[t] = Quota(t)
    <3>1. Quota(t) \in Nat
      BY <1>1, TotalNat, ThreadOpsNat DEF Quota
    <3>2. left[t] = Quota(t) /\ pc[t] = "idle"
      BY <1>1 DEF Quotas, Quota, Each
    <3> QED BY <3>1, <3>2 DEF Untaken
  <2>4. ASSUME NEW t \in Threads
        PROVE  /\ ReplayState(cfg.trace, t, reader[t], replayed[t], Untaken[t])
               /\ reader[t].workloads = <<>> => Quota(t) = 0
    <3>1. ReplayState(cfg.trace, t, reader[t], <<>>, Quota(t))
          /\ (reader[t].workloads = <<>> => Quota(t) = 0)
      BY <1>1, <1>3, <2>2, ReadersState DEF Quota
    <3> QED BY <2>1, <2>3, <3>1
  <2> QED BY <1>3, <2>1, <2>2, <2>4 DEF ReplayInv
<1> QED BY <1>2, <1>3

(* Only taking a key moves the reader. *)
LEMMA ReplayFrame ==
    ASSUME NEW t \in Threads, Step(t), ~ReplayKey(t)
    PROVE  UNCHANGED <<cfg, reader, replayed>> /\ (phase' = phase \/ ReplayCrash(t))
BY DEF Step, ChooseOp, PeekKey, PeekOp, DrawRandom, DrawSequential, ReadLast, DrawLatest, CheckKey,
    LoadKey, TakeKey, ReplayCrash, NextToCheck, DbCall, Acknowledge, CountTx, CountCorrect, Count,
    threadVars, history

(* A replaying client goes from idle to insert, to count and back. *)
LEMMA ReplayTurn ==
    ASSUME CtlInv, LoadInv, cfg.workload = "pureinsert", NEW t \in Threads, Step(t), ~ReplayKey(t)
    PROVE  Untaken' = Untaken
<1>1. pc \in [Threads -> Places] /\ left \in [Threads -> Nat]
      /\ (pc[t] # "idle" => left[t] > 0)
  BY DEF CtlInv, LoadInv
<1>2. pc[t] \in {"idle", "insert", "count"}
  BY <1>1 DEF Places
<1>3. ReplayCrash(t) \/ DbCall(t) \/ Count(t)
  BY <1>2 DEF Step, ChooseOp, PeekKey, PeekOp, DrawRandom, DrawSequential, ReadLast, DrawLatest,
    CheckKey, LoadKey, TakeKey, NextToCheck, Acknowledge, CountTx, CountCorrect, At
<1>4. CASE ReplayCrash(t)
  BY <1>4 DEF ReplayCrash, threadVars, Untaken
<1>5. CASE DbCall(t)
  <2>1. pc[t] # "idle" /\ left' = left /\ pc' = [pc EXCEPT ![t] = AfterCall(t)]
    BY <1>5 DEF DbCall, Goto
  <2>2. AfterCall(t) # "idle"
    BY DEF AfterCall
  <2>3. \A u \in Threads : (pc'[u] = "idle") <=> (pc[u] = "idle")
    BY <1>1, <2>1, <2>2
  <2> QED BY <2>1, <2>3 DEF Untaken
<1>6. CASE Count(t)
  <2>1. pc[t] = "count" /\ pc' = [pc EXCEPT ![t] = "idle"] /\ left' = [left EXCEPT ![t] = @ - 1]
    BY <1>6 DEF Count, At, Goto
  <2>2. ASSUME NEW u \in Threads
        PROVE  left'[u] - (IF pc'[u] = "idle" THEN 0 ELSE 1)
                 = left[u] - (IF pc[u] = "idle" THEN 0 ELSE 1)
    <3>1. CASE u = t
      BY <1>1, <2>1, <3>1
    <3>2. CASE u # t
      BY <1>1, <2>1, <3>2
    <3> QED BY <3>1, <3>2
  <2> QED BY <2>2 DEF Untaken
<1> QED BY <1>3, <1>4, <1>5, <1>6

(* Equally long files of a trace are equally long files of a client. *)
LEMMA OwnSameLength ==
    ASSUME NEW trace, NEW t, NEW r, NEW s, NEW u, ReplayState(trace, t, r, s, u), SameLength(trace)
    PROVE  SameLength(r.workloads)
<1> SUFFICES ASSUME NEW i \in DOMAIN r.workloads, NEW j \in DOMAIN r.workloads
             PROVE  Len(r.workloads[i]) = Len(r.workloads[j])
  BY DEF SameLength
<1>1. PICK a, b : /\ a \in DOMAIN trace /\ b \in DOMAIN trace
                  /\ r.workloads[i] = trace[a] /\ r.workloads[j] = trace[b]
  BY DEF ReplayState
<1> QED BY <1>1 DEF SameLength

(* Every step keeps the clients to their own files, in order. *)
LEMMA NextReplay == ASSUME CtlInv, LoadInv, ReplayInv, [Next]_vars PROVE ReplayInv'
<1>0. cfg \in Scenarios
  BY DEF CtlInv
<1>1. ASSUME NEW t \in Threads, Step(t), ~ReplayKey(t) PROVE ReplayInv'
  <2>1. UNCHANGED <<cfg, reader, replayed>> /\ (phase' = phase \/ ReplayCrash(t))
    BY <1>1, ReplayFrame
  <2>2. CASE cfg.workload # "pureinsert"
    BY <2>1, <2>2 DEF ReplayInv, Each
  <2>3. CASE cfg.workload = "pureinsert"
    <3>1. Untaken' = Untaken
      BY <1>1, <2>3, ReplayTurn
    <3>2. ASSUME NEW u \in Threads
          PROVE  ReplayState(cfg.trace, u, reader[u], replayed[u], Untaken[u])'
      BY <2>1, <2>3, <3>1 DEF ReplayInv, ReplayState
    <3>3. CASE phase' = phase
      BY <2>1, <2>3, <3>2, <3>3 DEF ReplayInv, Quota, Total, Wild
    <3>4. CASE ReplayCrash(t)
      <4>1. /\ phase' = "crashed" /\ KeyAt(Turned(reader[t])) = Garbage
            /\ pc[t] = "idle" /\ left[t] > 0
        BY <3>4 DEF ReplayCrash, Ready, At
      <4>2. Untaken[t] \in Nat /\ Untaken[t] > 0
        BY <4>1 DEF Untaken, LoadInv
      <4>3. ReplayState(cfg.trace, t, reader[t], replayed[t], Untaken[t])
        BY <2>3 DEF ReplayInv
      <4>4. SameLength(reader[t].workloads) => KeyAt(Turned(reader[t])) \in Nat
        BY <4>2, <4>3, ReplayOne
      <4>5. ~SameLength(cfg.trace)
        BY <4>1, <4>3, <4>4, OwnSameLength DEF Garbage
      <4>6. Wild'
        BY <2>1, <4>5 DEF Wild
      <4> QED BY <2>1, <2>3, <3>2, <4>1, <4>6 DEF ReplayInv
    <3> QED BY <2>1, <3>3, <3>4
  <2> QED BY <2>2, <2>3
<1>2. ASSUME NEW t \in Threads, ReplayKey(t) PROVE ReplayInv'
  <2>1. /\ cfg.workload = "pureinsert" /\ pc[t] = "idle" /\ left[t] > 0
        /\ UNCHANGED <<cfg, phase, left>> /\ pc' = [pc EXCEPT ![t] = "insert"]
    BY <1>2 DEF ReplayKey, Ready, At, Goto
  <2>2. PICK q : /\ q = Turned(reader[t])
                 /\ reader' = [reader EXCEPT ![t] = Advanced(q)]
                 /\ replayed' = [replayed EXCEPT ![t] = Append(@, KeyAt(q))]
    BY <1>2 DEF ReplayKey
  <2>3. /\ reader = [u \in Threads |-> reader[u]] /\ replayed = [u \in Threads |-> replayed[u]]
        /\ \A u \in Threads :
              /\ ReplayState(cfg.trace, u, reader[u], replayed[u], Untaken[u])
              /\ phase \in {"load", "run"} /\ reader[u].workloads = <<>> => Quota(u) = 0
        /\ phase = "crashed" => Wild
    BY <2>1 DEF ReplayInv
  <2>4. pc \in [Threads -> Places] /\ left \in [Threads -> Nat]
    BY DEF CtlInv, LoadInv
  <2>5. Untaken[t] \in Nat /\ Untaken[t] > 0 /\ Untaken'[t] = Untaken[t] - 1
    BY <2>1, <2>4 DEF Untaken
  <2>6. /\ ReplayState(cfg.trace, t, Advanced(q), Append(replayed[t], KeyAt(q)), Untaken[t] - 1)
        /\ Advanced(q).workloads = reader[t].workloads
    BY <2>2, <2>3, <2>5, ReplayOne
  <2>7. /\ reader'[t] = Advanced(q) /\ replayed'[t] = Append(replayed[t], KeyAt(q))
        /\ reader' = [u \in Threads |-> reader'[u]]
        /\ replayed' = [u \in Threads |-> replayed'[u]]
    BY <2>2, <2>3
  <2>8. \A u \in Threads \ {t} :
          reader'[u] = reader[u] /\ replayed'[u] = replayed[u] /\ Untaken'[u] = Untaken[u]
    BY <2>1, <2>2, <2>3, <2>4 DEF Untaken
  <2>9. ASSUME NEW u \in Threads
        PROVE  /\ ReplayState(cfg.trace, u, reader'[u], replayed'[u], Untaken'[u])
               /\ phase \in {"load", "run"} /\ reader'[u].workloads = <<>> => Quota(u) = 0
    <3>1. CASE u = t
      BY <2>3, <2>5, <2>6, <2>7, <3>1
    <3>2. CASE u # t
      BY <2>3, <2>8, <3>2
    <3> QED BY <3>1, <3>2
  <2>10. ASSUME NEW u \in Threads
         PROVE  /\ ReplayState(cfg.trace, u, reader[u], replayed[u], Untaken[u])'
                /\ Quota(u)' = Quota(u)
    BY <2>1, <2>9 DEF ReplayState, Quota, Total
  <2> QED BY <2>1, <2>3, <2>7, <2>9, <2>10 DEF ReplayInv, Wild
<1>3. CASE EndPhase \/ EndProcess
  <2>1. /\ cfg' = cfg /\ phase' = NextPhase /\ pc' = Each("idle") /\ left' = Quotas(NextPhase)
        /\ reader' = Readers(NextPhase) /\ replayed' = Each(<<>>)
    BY <1>3 DEF EndPhase, EndProcess, StartThreads
  <2>2. CASE cfg.workload # "pureinsert"
    BY <2>1, <2>2, NoReaders DEF ReplayInv, Each
  <2>3. CASE cfg.workload = "pureinsert"
    <3>1. PICK ph : ph = NextPhase /\ ph \in {"run", "over"} /\ (ph = "run" => cfg.mode # "load")
      BY NextPhases DEF NextPhase
    <3>2. ASSUME NEW u \in Threads
          PROVE  /\ ReplayState(cfg.trace, u, reader'[u], replayed'[u], Untaken'[u])
                 /\ reader'[u].workloads = <<>> => ThreadOps(Total(ph), u) = 0
      <4>1. ReplayState(cfg.trace, u, Readers(ph)[u], <<>>, ThreadOps(Total(ph), u))
            /\ (Readers(ph)[u].workloads = <<>> => ThreadOps(Total(ph), u) = 0)
        BY <1>0, <2>3, <3>1, ReadersState
      <4>2. ThreadOps(Total(ph), u) \in Nat
        BY <1>0, TotalNat, ThreadOpsNat
      <4>3. left'[u] = ThreadOps(Total(ph), u) /\ pc'[u] = "idle"
        BY <2>1, <3>1 DEF Quotas, Each
      <4>4. Untaken'[u] = ThreadOps(Total(ph), u)
        BY <4>2, <4>3 DEF Untaken
      <4>5. reader'[u] = Readers(ph)[u] /\ replayed'[u] = <<>>
        BY <2>1, <3>1 DEF Each
      <4> QED BY <4>1, <4>4, <4>5
    <3>3. ASSUME NEW u \in Threads
          PROVE  /\ ReplayState(cfg.trace, u, reader[u], replayed[u], Untaken[u])'
                 /\ Quota(u)' = ThreadOps(Total(ph), u)
      BY <2>1, <3>1, <3>2 DEF ReplayState, Quota, Total
    <3>4. /\ reader' = [u \in Threads |-> reader'[u]]
          /\ replayed' = [u \in Threads |-> replayed'[u]]
      BY <2>1 DEF Readers, Each
    <3> QED BY <2>1, <2>3, <3>1, <3>2, <3>3, <3>4 DEF ReplayInv
  <2> QED BY <2>2, <2>3
<1>4. CASE InitThreadCrash
  <2>1. /\ phase \in {"load", "run"} /\ NullReader /\ phase' = "crashed"
        /\ UNCHANGED <<cfg, reader, replayed, left, pc>>
    BY <1>4 DEF InitThreadCrash, threadVars, history
  <2>2. PICK t \in Threads : reader[t].workloads = <<>> /\ cfg.workload = "pureinsert"
    BY <2>1 DEF NullReader
  <2>3. Quota(t) = 0
    BY <2>1, <2>2 DEF ReplayInv
  <2>4. Total(phase) < NumThreads
    BY <1>0, <2>3, TotalNat, ThreadOpsNat DEF Quota
  <2>5. Wild'
    BY <2>1, <2>4 DEF Total, Wild
  <2>6. ASSUME NEW u \in Threads
        PROVE  ReplayState(cfg.trace, u, reader[u], replayed[u], Untaken[u])'
    <3>1. Untaken' = Untaken
      BY <2>1 DEF Untaken
    <3> QED BY <2>1, <2>2, <3>1 DEF ReplayInv, ReplayState
  <2> QED BY <2>1, <2>2, <2>5, <2>6 DEF ReplayInv
<1>5. CASE UNCHANGED vars
  <2>1. UNCHANGED <<cfg, phase, reader, replayed, left, pc>>
    BY <1>5 DEF vars, threadVars, history
  <2>2. Untaken' = Untaken
    BY <2>1 DEF Untaken
  <2>3. CASE cfg.workload # "pureinsert"
    BY <2>1, <2>3 DEF ReplayInv, Each
  <2>4. CASE cfg.workload = "pureinsert"
    <3>1. ASSUME NEW u \in Threads
          PROVE  ReplayState(cfg.trace, u, reader[u], replayed[u], Untaken[u])'
      BY <2>1, <2>2, <2>4 DEF ReplayInv, ReplayState
    <3> QED BY <2>1, <2>4, <3>1 DEF ReplayInv, Quota, Total, Wild
  <2> QED BY <2>3, <2>4
<1> QED BY <1>1, <1>2, <1>3, <1>4, <1>5, NextSplit

(* No two files hold a record in common, so that a key tells where it comes from. *)
DistinctRecords ==
    \A i, j \in DOMAIN cfg.trace : i # j => Range(cfg.trace[i]) \cap Range(cfg.trace[j]) = {}

(* The keys of two clients are from different files. *)
LEMMA ReplayedApart ==
    ASSUME DistinctRecords, NEW t \in Threads, NEW u \in Threads, t # u,
           NEW r, NEW s, NEW a, ReplayState(cfg.trace, t, r, s, a),
           NEW r2, NEW s2, NEW b, ReplayState(cfg.trace, u, r2, s2, b)
    PROVE  Range(s) \cap Range(s2) \subseteq {Garbage}
<1> SUFFICES ASSUME NEW m \in DOMAIN s, NEW n \in DOMAIN s2, s[m] = s2[n], s[m] # Garbage
             PROVE  FALSE
  BY DEF Range
<1>1. PICK f \in DOMAIN r.workloads : \E j \in DOMAIN r.workloads[f] : s[m] = r.workloads[f][j]
  BY DEF ReplayState
<1>2. PICK g \in DOMAIN r2.workloads : \E j \in DOMAIN r2.workloads[g] : s2[n] = r2.workloads[g][j]
  BY DEF ReplayState
<1>3. PICK x, y : x = FileNumber(f - 1, t, NumThreads) /\ y = FileNumber(g - 1, u, NumThreads)
  OBVIOUS
<1>4. /\ x \in DOMAIN cfg.trace /\ r.workloads[f] = cfg.trace[x]
      /\ y \in DOMAIN cfg.trace /\ r2.workloads[g] = cfg.trace[y]
  BY <1>3 DEF ReplayState
<1>5. f - 1 \in Nat /\ g - 1 \in Nat
  <2>1. r.workloads \in Seq(Seq(Nat)) /\ r2.workloads \in Seq(Seq(Nat))
    BY DEF ReplayState, ReaderStates
  <2> QED BY <2>1
<1>6. x # y
  BY <1>3, <1>5, OwnFiles
<1>7. s[m] \in Range(cfg.trace[x]) /\ s2[n] \in Range(cfg.trace[y])
  BY <1>1, <1>2, <1>4 DEF Range
<1> QED BY <1>4, <1>6, <1>7 DEF DistinctRecords

-----------------------------------------------------------------------------
(* 7. The types. *)

(* Nothing has been counted at first. *)
LEMMA InitType == Init => TypeInv
<1> SUFFICES ASSUME Init PROVE TypeInv
  OBVIOUS
<1>1. /\ cfg \in Scenarios /\ phase = FirstPhase
      /\ stored = IF cfg.mode = "run" /\ cfg.workload # "pureinsert"
                  THEN cfg.insertstart .. (cfg.insertstart + RecordCount - 1) ELSE {}
      /\ counter = RecordCount /\ limit = RecordCount - 1
      /\ pc = Each("idle") /\ op = Each("none") /\ key = Each(0) /\ oks = Each(0)
      /\ left = Quotas(phase)
  BY DEF Init, Prefix!Init
<1>2. RecordCount \in Nat /\ cfg.insertstart \in Nat
  BY <1>1, ScenarioFacts, WorkloadAssumption
<1>3. stored \subseteq Int /\ limit < counter
  BY <1>1, <1>2
<1>4. key = [t \in Threads |-> key[t]] /\ oks \in [Threads -> Nat]
  BY <1>1 DEF Each
<1>5. ASSUME NEW t \in Threads
      PROVE  /\ pc[t] = "idle" /\ op[t] = "none" /\ oks[t] + left[t] <= Quota(t)
    <2>1. left[t] = Quota(t) /\ oks[t] = 0 /\ Quota(t) \in Nat
      BY <1>1, TotalNat, ThreadOpsNat DEF Quotas, Quota, Each
    <2> QED BY <1>1, <2>1 DEF Each
<1>6. "none" \notin Transactions
  BY TransactionsSet
<1> QED BY <1>3, <1>4, <1>5, <1>6 DEF TypeInv

(* A step of client t that neither counts an operation nor chooses one. *)
LEMMA TypeStep ==
    ASSUME TypeInv, CtlInv, LoadInv, NEW t \in Threads, NEW l,
           cfg' = cfg, phase' = phase, pc' = [pc EXCEPT ![t] = l],
           key' = [u \in Threads |-> key'[u]], \A u \in Threads \ {t} : key'[u] = key[u],
           stored' \subseteq Int, l = "insert" => key'[t] \in Int, limit' < counter',
           oks' \in [Threads -> Nat],
           \A u \in Threads : oks'[u] + left'[u] <= oks[u] + left[u], left' \in [Threads -> Nat],
           exiting => exiting', l = "exit" => exiting',
           \/ op' = op
           \/ \E o : op' = [op EXCEPT ![t] = o] /\ (o \in Transactions => cfg.weights[o] > 0)
    PROVE  TypeInv'
<1>1. pc \in [Threads -> Places] /\ op \in [Threads -> Transactions \cup {"none", "peek"}]
  BY DEF CtlInv
<1>2. /\ \A u \in Threads \ {t} : pc'[u] = pc[u]
      /\ pc'[t] = l
  BY <1>1
<1>3. \A u \in Threads : pc'[u] = "insert" => key'[u] \in Int
  BY <1>2 DEF TypeInv
<1>4. \A u \in Threads : pc'[u] = "exit" => exiting'
  BY <1>2 DEF TypeInv
<1>5. \A u \in Threads : op'[u] \in Transactions => cfg'.weights[op'[u]] > 0
  <2>1. CASE op' = op
    BY <2>1 DEF TypeInv
  <2>2. ASSUME NEW o, op' = [op EXCEPT ![t] = o], o \in Transactions => cfg.weights[o] > 0
        PROVE  \A u \in Threads : op'[u] \in Transactions => cfg'.weights[op'[u]] > 0
    <3>1. op'[t] = o /\ \A u \in Threads \ {t} : op'[u] = op[u]
      BY <1>1, <2>2
    <3> QED BY <2>2, <3>1 DEF TypeInv
  <2> QED BY <2>1, <2>2
<1>6. \A u \in Threads : phase' \in {"load", "run"} => oks'[u] + left'[u] <= Quota(u)'
  <2> SUFFICES ASSUME NEW u \in Threads, phase \in {"load", "run"}
               PROVE  oks'[u] + left'[u] <= Quota(u)'
    OBVIOUS
  <2>1. PICK a \in Nat, b \in Nat, c \in Nat, d \in Nat, q \in Nat :
          a = oks[u] /\ b = left[u] /\ c = oks'[u] /\ d = left'[u] /\ q = Quota(u)
    <3>1. Quota(u) \in Nat
      BY TotalNat, ThreadOpsNat DEF Quota, CtlInv
    <3> QED BY <3>1 DEF TypeInv, LoadInv
  <2>2. a + b <= q /\ c + d <= a + b
    BY <2>1 DEF TypeInv
  <2>3. Quota(u)' = q
    BY <2>1 DEF Quota, Total
  <2> QED BY <2>1, <2>2, <2>3
<1> QED BY <1>3, <1>4, <1>5, <1>6 DEF TypeInv

(* Every step keeps the types. *)
LEMMA NextType ==
    ASSUME CtlInv, ZetaInv, LoadInv, LoadInv', ReplayInv, TypeInv, [Next]_vars PROVE TypeInv'
<1>0. /\ cfg \in Scenarios /\ pc \in [Threads -> Places]
      /\ op \in [Threads -> Transactions \cup {"none", "peek"}]
      /\ limit \in Int /\ counter \in Nat /\ insertNext \in Nat /\ left \in [Threads -> Nat]
      /\ left' \in [Threads -> Nat]
      /\ \A t \in Threads : pc[t] # "idle" => left[t] > 0
  BY DEF CtlInv, ZetaInv, LoadInv
<1>01. /\ stored \subseteq Int /\ key = [t \in Threads |-> key[t]] /\ limit < counter
       /\ oks \in [Threads -> Nat]
       /\ \A t \in Threads : pc[t] = "insert" => key[t] \in Int
  BY DEF TypeInv
<1>02. \A u \in Threads : oks[u] + left[u] <= oks[u] + left[u]
  BY <1>0, <1>01
<1>1. ASSUME NEW t \in Threads, ChooseOp(t) PROVE TypeInv'
  <2>1. UNCHANGED <<cfg, phase, stored, key, limit, counter, oks, left, exiting>>
    BY <1>1 DEF ChooseOp, prefixVars
  <2>2. PICK x : op' = [op EXCEPT ![t] = DiscreteNext(x)]
    BY <1>1 DEF ChooseOp
  <2>3. PICK o : o = DiscreteNext(x) /\ (o \in Transactions => cfg.weights[o] > 0)
    <3>1. "none" \notin Transactions
      BY TransactionsSet
    <3> QED BY <3>1, DiscreteNextAdded
  <2>4. PICK l : pc' = [pc EXCEPT ![t] = l] /\ l \notin {"insert", "exit"}
    <3>1. pc' = [pc EXCEPT ![t] = Label(op'[t])]
      BY <1>1 DEF ChooseOp, Goto
    <3>2. Label(op'[t]) \notin {"insert", "exit"}
      BY DEF Label
    <3> QED BY <3>1, <3>2
  <2> QED BY <1>01, <1>02, <1>0, <2>1, <2>2, <2>3, <2>4, TypeStep
<1>2. ASSUME NEW t \in Threads, PeekKey(t) \/ PeekOp(t) \/ ReadLast(t) \/ CheckKey(t)
      PROVE  TypeInv'
  <2>1. UNCHANGED <<cfg, phase, stored, key, limit, counter, oks, left, exiting>>
    BY <1>2 DEF PeekKey, PeekOp, ReadLast, CheckKey, prefixVars, procVars
  <2>2. \/ op' = op
        \/ \E o : op' = [op EXCEPT ![t] = o] /\ (o \in Transactions => cfg.weights[o] > 0)
    <3>1. op' = op \/ op' = [op EXCEPT ![t] = "peek"]
      BY <1>2 DEF PeekKey, PeekOp, ReadLast, CheckKey
    <3>2. "peek" \notin Transactions
      BY TransactionsSet
    <3> QED BY <3>1, <3>2
  <2>3. PICK l : pc' = [pc EXCEPT ![t] = l] /\ l \notin {"insert", "exit"}
    <3>1. CASE CheckKey(t)
      <4>1. pc[t] = "check" /\ pc[t] \in {"draw", "zipf", "check"}
        BY <3>1 DEF CheckKey, At
      <4>2. op[t] \in Drawing
        BY <4>1 DEF CtlInv
      <4>3. PICK l : /\ pc' = [pc EXCEPT ![t] = l]
                     /\ l = IF AboveLast(key[t]) THEN "draw"
                           ELSE IF op[t] = "rmw" THEN "rmwread" ELSE op[t]
        BY <3>1 DEF CheckKey, Goto
      <4>4. l \notin {"insert", "exit"}
        BY <4>2, <4>3 DEF Drawing
      <4> QED BY <4>3, <4>4
    <3>2. CASE PeekKey(t) \/ PeekOp(t) \/ ReadLast(t)
      BY <3>2 DEF PeekKey, PeekOp, ReadLast, Goto
    <3> QED BY <1>2, <3>1, <3>2
  <2> QED BY <1>01, <1>02, <1>0, <2>1, <2>2, <2>3, TypeStep
<1>3. ASSUME NEW t \in Threads, DrawRandom(t) \/ DrawSequential(t) \/ DrawLatest(t) \/ NextToCheck(t)
      PROVE  TypeInv'
  <2>1. UNCHANGED <<cfg, phase, stored, limit, counter, oks, left, exiting, op>>
    BY <1>3 DEF DrawRandom, DrawSequential, DrawLatest, NextToCheck, prefixVars, procVars
  <2>2. PICK k, l : /\ key' = [key EXCEPT ![t] = k] /\ pc' = [pc EXCEPT ![t] = l]
                    /\ l \notin {"insert", "exit"}
    <3>1. (\E k : Drawn(t, k)) \/ NextToCheck(t)
      BY <1>3 DEF DrawRandom, DrawSequential, DrawLatest
    <3>2. ASSUME NEW k, Drawn(t, k)
          PROVE  key' = [key EXCEPT ![t] = k] /\ pc' = [pc EXCEPT ![t] = "check"]
      BY <3>2 DEF Drawn, Goto
    <3>3. CASE NextToCheck(t)
      <4>1. key' = [key EXCEPT ![t] = insertNext] /\ pc' = [pc EXCEPT ![t] = "read"]
        BY <3>3 DEF NextToCheck, Goto
      <4>2. "read" \notin {"insert", "exit"}
        OBVIOUS
      <4> QED BY <4>1, <4>2
    <3>4. "check" \notin {"insert", "exit"}
      OBVIOUS
    <3> QED BY <3>1, <3>2, <3>3, <3>4
  <2>3. key' = [u \in Threads |-> key'[u]] /\ \A u \in Threads \ {t} : key'[u] = key[u]
    BY <1>01, <2>2
  <2> QED BY <1>01, <1>02, <1>0, <2>1, <2>2, <2>3, TypeStep
<1>4. ASSUME NEW t \in Threads, LoadKey(t) \/ TakeKey(t) \/ ReplayKey(t) PROVE TypeInv'
  <2>1. /\ UNCHANGED <<cfg, phase, stored, limit, oks, left, exiting, op>>
        /\ pc' = [pc EXCEPT ![t] = "insert"]
    BY <1>4 DEF LoadKey, TakeKey, ReplayKey, Prefix!HandOut, prefixVars, procVars, Goto
  <2>2. counter' = counter \/ counter' = counter + 1
    BY <1>4 DEF LoadKey, TakeKey, ReplayKey, Prefix!HandOut, prefixVars, procVars
  <2>3. PICK k \in Int : key' = [key EXCEPT ![t] = k]
    <3>1. CASE LoadKey(t)
      <4>1. key' = [key EXCEPT ![t] = insertNext] /\ insertNext \in Int
        BY <1>0, <3>1 DEF LoadKey
      <4> QED BY <4>1
    <3>2. CASE TakeKey(t)
      <4>1. key' = [key EXCEPT ![t] = counter] /\ counter \in Int
        BY <1>0, <3>2 DEF TakeKey
      <4> QED BY <4>1
    <3>3. CASE ReplayKey(t)
      <4>1. key' = [key EXCEPT ![t] = KeyAt(Turned(reader[t]))] /\ cfg.workload = "pureinsert"
            /\ pc[t] = "idle" /\ left[t] > 0
        BY <3>3 DEF ReplayKey, Ready, At
      <4>2. Untaken[t] \in Nat /\ Untaken[t] > 0
        BY <1>0, <4>1 DEF Untaken
      <4>3. ReplayState(cfg.trace, t, reader[t], replayed[t], Untaken[t])
        BY <4>1 DEF ReplayInv
      <4>4. KeyAt(Turned(reader[t])) \in Int
        BY <4>2, <4>3, ReplayOne
      <4> QED BY <4>1, <4>4
    <3> QED BY <1>4, <3>1, <3>2, <3>3
  <2>4. /\ key' = [u \in Threads |-> key'[u]] /\ \A u \in Threads \ {t} : key'[u] = key[u]
        /\ key'[t] = k
    BY <1>01, <2>3
  <2>5. limit' < counter'
    BY <1>0, <1>01, <2>1, <2>2
  <2>6. "insert" # "exit"
    OBVIOUS
  <2> QED BY <1>01, <1>02, <1>0, <2>1, <2>4, <2>5, <2>6, TypeStep
<1>5. ASSUME NEW t \in Threads, DbCall(t) PROVE TypeInv'
  <2>1. /\ UNCHANGED <<cfg, phase, key, limit, counter, oks, left, exiting, op>>
        /\ pc' = [pc EXCEPT ![t] = AfterCall(t)]
    BY <1>5 DEF DbCall, prefixVars, procVars, Goto
  <2>2. AfterCall(t) \notin {"insert", "exit"}
    BY DEF AfterCall
  <2>3. stored' \subseteq Int
    <3>1. stored' = stored \/ (pc[t] = "insert" /\ stored' = stored \cup {key[t]})
      BY <1>5 DEF DbCall
    <3> QED BY <1>01, <3>1
  <2> QED BY <1>01, <1>02, <1>0, <2>1, <2>2, <2>3, TypeStep
<1>6. ASSUME NEW t \in Threads, Acknowledge(t) \/ CountTx(t) \/ CountCorrect(t) PROVE TypeInv'
  <2>0. UNCHANGED <<cfg, phase, stored, key, oks, left, op>>
    BY <1>6 DEF Acknowledge, CountTx, CountCorrect
  <2>1. exiting => exiting'
    <3>1. exiting' = exiting \/ exiting' = (exiting \/ Stops(txCount))
      BY <1>6 DEF Acknowledge, CountTx, CountCorrect
    <3> QED BY <3>1, Zenon
  <2>2. limit' < counter'
    <3>1. CASE Acknowledge(t)
      <4>1. counter' = counter /\ limit' \in limit .. (counter - 1)
        BY <3>1 DEF Acknowledge, Prefix!Acknowledge
      <4> QED BY <1>0, <4>1
    <3>2. CASE CountTx(t) \/ CountCorrect(t)
      BY <1>01, <3>2 DEF CountTx, CountCorrect, prefixVars
    <3> QED BY <1>6, <3>1, <3>2
  <2>3. PICK l : pc' = [pc EXCEPT ![t] = l] /\ l # "insert" /\ (l = "exit" => exiting')
    BY <1>6 DEF Acknowledge, CountTx, CountCorrect, Goto
  <2> QED BY <1>01, <1>02, <1>0, <2>0, <2>1, <2>2, <2>3, TypeStep
<1>7. ASSUME NEW t \in Threads, Count(t) PROVE TypeInv'
  <2>1. /\ UNCHANGED <<cfg, phase, stored, key, limit, counter, exiting, op>>
        /\ pc[t] = "count" /\ pc' = [pc EXCEPT ![t] = "idle"]
        /\ left' = [left EXCEPT ![t] = @ - 1]
    BY <1>7 DEF Count, At, Goto, prefixVars, procVars
  <2>2. PICK ok \in {0, 1} : oks' = [oks EXCEPT ![t] = @ + ok]
    BY <1>7 DEF Count
  <2>3. oks' \in [Threads -> Nat] /\ left[t] > 0
    BY <1>0, <1>01, <2>1, <2>2
  <2>4. \A u \in Threads : oks'[u] + left'[u] <= oks[u] + left[u]
    <3> SUFFICES ASSUME NEW u \in Threads PROVE oks'[u] + left'[u] <= oks[u] + left[u]
      OBVIOUS
    <3>1. CASE u = t
      BY <1>0, <1>01, <2>1, <2>2, <3>1
    <3>2. CASE u # t
      BY <1>0, <1>01, <2>1, <2>2, <3>2
    <3> QED BY <3>1, <3>2
  <2>5. "idle" \notin {"insert", "exit"}
    OBVIOUS
  <2> QED BY <1>01, <1>0, <2>1, <2>3, <2>4, <2>5, TypeStep
<1>8. CASE EndPhase \/ EndProcess
  <2>1. /\ UNCHANGED <<cfg, stored>> /\ phase' = NextPhase /\ pc' = Each("idle")
        /\ key' = Each(0) /\ oks' = Each(0) /\ op' = Each("none") /\ left' = Quotas(NextPhase)
    BY <1>8 DEF EndPhase, EndProcess, StartThreads
  <2>2. limit' < counter'
    <3>1. CASE EndPhase
      BY <1>01, <3>1 DEF EndPhase, procVars, prefixVars
    <3>2. CASE EndProcess
      <4>1. counter' = RecordCount /\ limit' = RecordCount - 1 /\ RecordCount \in Nat
        BY <3>2, WorkloadAssumption DEF EndProcess
      <4> QED BY <4>1
    <3> QED BY <1>8, <3>1, <3>2
  <2>3. ASSUME NEW t \in Threads
        PROVE  /\ pc'[t] = "idle" /\ op'[t] = "none" /\ oks'[t] = 0 /\ left'[t] = Quota(t)'
               /\ Quota(t)' \in Nat
    <3>1. left'[t] = ThreadOps(Total(NextPhase), t) /\ ThreadOps(Total(NextPhase), t) \in Nat
      BY <1>0, <2>1, TotalNat, ThreadOpsNat DEF Quotas
    <3>2. Quota(t)' = ThreadOps(Total(NextPhase), t)
      BY <2>1 DEF Quota, Total
    <3> QED BY <2>1, <3>1, <3>2 DEF Each
  <2>4. \A t \in Threads : oks'[t] + left'[t] <= Quota(t)'
    BY <2>3
  <2>5. key' = [t \in Threads |-> key'[t]] /\ oks' \in [Threads -> Nat]
    BY <2>1 DEF Each
  <2>6. "none" \notin Transactions
    BY TransactionsSet
  <2> QED BY <1>01, <2>1, <2>2, <2>3, <2>4, <2>5, <2>6 DEF TypeInv
<1>9. CASE InitThreadCrash \/ UNCHANGED vars \/ \E t \in Threads : ReplayCrash(t)
  <2>1. /\ UNCHANGED <<cfg, stored, key, limit, counter, oks, left, exiting, op, pc>>
        /\ phase' = phase \/ phase' = "crashed"
    BY <1>9 DEF InitThreadCrash, ReplayCrash, vars, threadVars, procVars, prefixVars
  <2>2. phase' = phase => \A t \in Threads : Quota(t)' = Quota(t)
    BY <2>1 DEF Quota, Total
  <2> QED BY <2>1, <2>2 DEF TypeInv
<1> QED BY <1>1, <1>2, <1>3, <1>4, <1>5, <1>6, <1>7, <1>8, <1>9, NextSplit DEF Step

-----------------------------------------------------------------------------
(* 8. What a check finds. *)

(* The least of three integers is one of them and no larger than any. *)
LEMMA MinOfThree ==
    ASSUME NEW a \in Int, NEW b \in Int, NEW c \in Int
    PROVE  /\ Min({a, b, c}) \in Int
           /\ Min({a, b, c}) <= a /\ Min({a, b, c}) <= b /\ Min({a, b, c}) <= c
<1>1. PICK m \in {a, b, c} : \A k \in {a, b, c} : m <= k
  OBVIOUS
<1>2. Min({a, b, c}) \in {a, b, c} /\ \A k \in {a, b, c} : Min({a, b, c}) <= k
  BY <1>1 DEF Min
<1> QED BY <1>2

(* There are threadcount clients, and fewer without one of them. *)
LEMMA ThreadsCount ==
    /\ Cardinality(Threads) = NumThreads
    /\ \A t \in Threads : IsFiniteSet(Threads \ {t}) /\ Cardinality(Threads \ {t}) = NumThreads - 1
<1>1. 0 \in Int /\ NumThreads - 1 \in Int /\ ~(0 > NumThreads - 1)
      /\ NumThreads - 1 - 0 + 1 = NumThreads
  BY WorkloadAssumption
<1>2. Cardinality(Threads) = NumThreads
  BY <1>1, FS_Interval, Zenon DEF Threads
<1>3. \A t \in Threads : IsFiniteSet(Threads \ {t}) /\ Cardinality(Threads \ {t}) = NumThreads - 1
  BY <1>2, ThreadsFinite, FS_RemoveElement
<1> QED BY <1>2, <1>3

(* A set of clients is finite. *)
LEMMA SomeThreads ==
    ASSUME NEW S \in SUBSET Threads
    PROVE  IsFiniteSet(S) /\ Cardinality(S) \in Nat /\ Cardinality(S) <= NumThreads
BY ThreadsFinite, ThreadsCount, FS_Subset, FS_CardinalityType

(* An interval of integers has as many elements as it is long. *)
LEMMA IntervalSize ==
    ASSUME NEW a \in Int, NEW n \in Nat
    PROVE  IsFiniteSet(a .. (a + n - 1)) /\ Cardinality(a .. (a + n - 1)) = n
<1>1. a + n - 1 \in Int /\ (a > a + n - 1 => n = 0) /\ (a + n - 1) - a + 1 = n
  OBVIOUS
<1>2. /\ IsFiniteSet(a .. (a + n - 1))
      /\ Cardinality(a .. (a + n - 1)) = IF a > a + n - 1 THEN 0 ELSE (a + n - 1) - a + 1
  BY <1>1, FS_Interval, Zenon
<1> QED BY <1>1, <1>2

(* The keys that clients hold are no more than the clients. *)
LEMMA HeldKeys ==
    ASSUME NEW S, IsFiniteSet(S), NEW f, NEW T, T \subseteq {f[x] : x \in S}
    PROVE  IsFiniteSet(T) /\ Cardinality(T) <= Cardinality(S)
<1>1. PICK R : R = {f[x] : x \in S}
  OBVIOUS
<1>2. IsFiniteSet(R) /\ Cardinality(R) <= Cardinality(S)
  <2>1. PICK g : g = [x \in S |-> f[x]]
    OBVIOUS
  <2>2. g \in Surjection(S, R)
    BY <1>1, <2>1 DEF Surjection
  <2> QED BY <2>2, FS_Surjection
<1>3. T \in SUBSET R
  BY <1>1
<1>4. IsFiniteSet(T) /\ Cardinality(T) <= Cardinality(R)
  BY <1>2, <1>3, FS_Subset
<1>5. Cardinality(T) \in Nat /\ Cardinality(R) \in Nat /\ Cardinality(S) \in Nat
  BY <1>2, <1>4, FS_CardinalityType
<1> QED BY <1>2, <1>4, <1>5

(* What is in a finite set, and in one of two others. *)
LEMMA SplitFound ==
    ASSUME NEW F, IsFiniteSet(F), NEW A, NEW B, IsFiniteSet(B)
    PROVE  Cardinality(F \cap (A \cup B)) <= Cardinality(F \cap A) + Cardinality(B)
<1>1. /\ IsFiniteSet(F \cap A) /\ Cardinality(F \cap A) \in Nat
      /\ IsFiniteSet(F \cap (A \cup B)) /\ Cardinality(F \cap (A \cup B)) \in Nat
      /\ Cardinality(B) \in Nat
  BY FS_Intersection, FS_CardinalityType
<1>2. /\ IsFiniteSet((F \cap A) \cup B)
      /\ Cardinality((F \cap A) \cup B)
           = Cardinality(F \cap A) + Cardinality(B) - Cardinality((F \cap A) \cap B)
  BY <1>1, FS_Union
<1>3. Cardinality((F \cap A) \cap B) \in Nat /\ Cardinality((F \cap A) \cup B) \in Nat
  <2>1. IsFiniteSet((F \cap A) \cap B)
    BY <1>1, FS_Intersection
  <2> QED BY <1>2, <2>1, FS_CardinalityType
<1>4. F \cap (A \cup B) \in SUBSET ((F \cap A) \cup B)
  OBVIOUS
<1>5. Cardinality(F \cap (A \cup B)) <= Cardinality((F \cap A) \cup B)
  BY <1>2, <1>4, FS_Subset
<1> QED BY <1>1, <1>2, <1>3, <1>5

(* The keys of a part of the load that have been settled. *)
LEMMA MostSettled ==
    ASSUME NEW a \in Int, NEW m \in Nat, NEW A, NEW H, H \subseteq Threads, NEW f,
           \A k \in a .. (a + m - 1) : k \in A \/ \E t \in H : f[t] = k
    PROVE  Cardinality((a .. (a + m - 1)) \cap A) >= m - Cardinality(H)
<1>1. PICK F : F = a .. (a + m - 1) /\ IsFiniteSet(F) /\ Cardinality(F) = m
  BY IntervalSize
<1>2. IsFiniteSet(H) /\ Cardinality(H) \in Nat
  BY SomeThreads
<1>3. F \ A \subseteq {f[t] : t \in H}
  BY <1>1
<1>4. Cardinality(F \ A) <= Cardinality(H)
  BY <1>2, <1>3, HeldKeys
<1>5. /\ IsFiniteSet(F \ A) /\ Cardinality(F \ A) = Cardinality(F) - Cardinality(F \cap A)
  BY <1>1, FS_Difference
<1>6. IsFiniteSet(F \cap A) /\ Cardinality(F \cap A) \in Nat /\ Cardinality(F \ A) \in Nat
  BY <1>1, <1>5, FS_Intersection, FS_CardinalityType
<1> QED BY <1>1, <1>2, <1>4, <1>5, <1>6

(* What the clients that hold a key are after client t has gone to l. *)
LEMMA FlightStep ==
    ASSUME pc \in [Threads -> Places], NEW t \in Threads, NEW l, pc' = [pc EXCEPT ![t] = l]
    PROVE  /\ Cardinality(InFlight) \in Nat /\ Cardinality(InFlight)' \in Nat
           /\ Cardinality(InFlight)' = Cardinality(InFlight)
                + (IF l \in {"insert", "stop"} THEN 1 ELSE 0)
                - (IF pc[t] \in {"insert", "stop"} THEN 1 ELSE 0)
<1>0. InFlight \in SUBSET Threads /\ (t \in InFlight <=> pc[t] \in {"insert", "stop"})
  BY DEF InFlight
<1>1. PICK S \in SUBSET Threads : S = InFlight /\ (t \in S <=> pc[t] \in {"insert", "stop"})
  BY <1>0
<1>2. IsFiniteSet(S) /\ Cardinality(S) \in Nat
  BY SomeThreads
<1>3. InFlight' = IF l \in {"insert", "stop"} THEN S \cup {t} ELSE S \ {t}
  <2>1. \A u \in Threads : pc'[u] = IF u = t THEN l ELSE pc[u]
    OBVIOUS
  <2>2. Threads' = Threads
    BY DEF Threads
  <2> QED BY <1>1, <2>1, <2>2 DEF InFlight
<1>4. PICK S2 \in SUBSET Threads : S2 = InFlight'
  BY <1>3
<1>5. Cardinality(S2) \in Nat
  BY SomeThreads
<1>6. Cardinality(S2) = Cardinality(S)
                + (IF l \in {"insert", "stop"} THEN 1 ELSE 0)
                - (IF pc[t] \in {"insert", "stop"} THEN 1 ELSE 0)
  <2>1. CASE l \in {"insert", "stop"}
    <3>1. Cardinality(S2) = IF t \in S THEN Cardinality(S) ELSE Cardinality(S) + 1
      BY <1>2, <1>3, <1>4, <2>1, FS_AddElement
    <3> QED BY <1>1, <1>2, <2>1, <3>1
  <2>2. CASE l \notin {"insert", "stop"}
    <3>1. Cardinality(S2) = IF t \in S THEN Cardinality(S) - 1 ELSE Cardinality(S)
      BY <1>2, <1>3, <1>4, <2>2, FS_RemoveElement
    <3> QED BY <1>1, <1>2, <2>2, <3>1
  <2> QED BY <2>1, <2>2
<1> QED BY <1>1, <1>2, <1>4, <1>5, <1>6

(* Whether client t has found, or will find, the key that it checks. *)
Finds(t) == \/ pc[t] = "read" /\ key[t] \in stored
            \/ pc[t] = "correct" /\ status[t] = "ok"

(* The same for the keys that a check finds. *)
LEMMA FoundStep ==
    ASSUME NEW t \in Threads, stored' = stored,
           \A u \in Threads \ {t} : pc'[u] = pc[u] /\ key'[u] = key[u] /\ status'[u] = status[u]
    PROVE  /\ Cardinality(Found) \in Nat /\ Cardinality(Found)' \in Nat
           /\ Cardinality(Found)' = Cardinality(Found)
                + (IF Finds(t)' THEN 1 ELSE 0) - (IF Finds(t) THEN 1 ELSE 0)
<1>0. Found \in SUBSET Threads /\ (t \in Found <=> Finds(t))
  BY DEF Found, Finds
<1>1. PICK S \in SUBSET Threads : S = Found /\ (t \in S <=> Finds(t))
  BY <1>0
<1>2. IsFiniteSet(S) /\ Cardinality(S) \in Nat
  BY SomeThreads
<1>3. Found' = IF Finds(t)' THEN S \cup {t} ELSE S \ {t}
  <2>1. Threads' = Threads
    BY DEF Threads
  <2>2. Found' = {u \in Threads : Finds(u)'}
    BY <2>1 DEF Found, Finds
  <2>3. \A u \in Threads \ {t} : Finds(u)' <=> Finds(u)
    BY DEF Finds
  <2>4. \A u \in Threads : u \in S <=> Finds(u)
    BY <1>1 DEF Found, Finds
  <2> QED BY <2>2, <2>3, <2>4
<1>4. PICK S2 \in SUBSET Threads : S2 = Found'
  BY <1>3
<1>5. Cardinality(S2) \in Nat
  BY SomeThreads
<1>6. Cardinality(S2) = Cardinality(S)
                + (IF Finds(t)' THEN 1 ELSE 0) - (IF Finds(t) THEN 1 ELSE 0)
  <2>1. CASE Finds(t)'
    <3>1. Cardinality(S2) = IF t \in S THEN Cardinality(S) ELSE Cardinality(S) + 1
      BY <1>2, <1>3, <1>4, <2>1, FS_AddElement
    <3> QED BY <1>1, <1>2, <2>1, <3>1
  <2>2. CASE ~Finds(t)'
    <3>1. Cardinality(S2) = IF t \in S THEN Cardinality(S) - 1 ELSE Cardinality(S)
      BY <1>2, <1>3, <1>4, <2>2, FS_RemoveElement
    <3> QED BY <1>1, <1>2, <2>2, <3>1
  <2> QED BY <2>1, <2>2
<1> QED BY <1>1, <1>2, <1>4, <1>5, <1>6

(* Taking an operation makes one less that is not taken. *)
LEMMA TakeOne ==
    ASSUME CtlInv, LoadInv, NEW t \in Threads, pc[t] = "idle", left[t] > 0, left' = left,
           NEW l, l # "idle", pc' = [pc EXCEPT ![t] = l]
    PROVE  /\ Sum(Untaken, Threads) \in Nat /\ Sum(Untaken, Threads)' \in Nat
           /\ Sum(Untaken, Threads)' = Sum(Untaken, Threads) - 1
<1>1. pc \in [Threads -> Places] /\ left \in [Threads -> Nat]
      /\ \A u \in Threads : pc[u] # "idle" => left[u] > 0
  BY DEF CtlInv, LoadInv
<1>2. Sum(Untaken, Threads)' = Sum(Untaken', Threads)
  BY DEF Threads
<1>3. PICK g, h : g = Untaken /\ h = Untaken'
  OBVIOUS
<1>4. \A u \in Threads : g[u] \in Nat
  BY <1>1, <1>3 DEF Untaken
<1>5. \A u \in Threads : h[u] \in Nat
  <2>1. \A u \in Threads : left'[u] - (IF pc'[u] = "idle" THEN 0 ELSE 1) \in Nat
    BY <1>1
  <2> QED BY <1>3, <2>1 DEF Untaken
<1>6. \A u \in Threads \ {t} : g[u] = h[u]
  BY <1>1, <1>3 DEF Untaken
<1>7. h[t] = g[t] - 1
  BY <1>1, <1>3 DEF Untaken
<1>8. Sum(g, Threads) + h[t] = Sum(h, Threads) + g[t]
  BY <1>4, <1>5, <1>6, ThreadsFinite, SumUpdate
<1>9. Sum(g, Threads) \in Nat /\ Sum(h, Threads) \in Nat
  BY <1>4, <1>5, ThreadsFinite, SumNat, Zenon
<1>10. PICK x \in Nat, y \in Nat : x = Sum(g, Threads) /\ y = Sum(h, Threads)
  BY <1>9
<1>11. y = x - 1
  BY <1>4, <1>7, <1>8, <1>10
<1> QED BY <1>2, <1>3, <1>10, <1>11

(* When a phase is done, every operation was taken. *)
LEMMA UntakenDone == ASSUME PhaseDone PROVE Sum(Untaken, Threads) = 0
<1>1. \A t \in Threads : pc[t] = "idle" /\ left[t] = 0
  BY DEF PhaseDone
<1>2. \A t \in Threads : Untaken[t] = 0
  BY <1>1 DEF Untaken
<1>3. PICK g : g = Untaken
  OBVIOUS
<1>4. Sum(g, Threads) = 0
  <2>1. \A t \in Threads : g[t] = 0
    BY <1>2, <1>3
  <2> QED BY <2>1, ThreadsFinite, SumZero
<1> QED BY <1>3, <1>4

(* When a phase begins, none was. *)
LEMMA UntakenNew ==
    ASSUME NEW ph, cfg \in Scenarios, pc' = Each("idle"), left' = Quotas(ph)
    PROVE  Sum(Untaken, Threads)' = Total(ph)
<1>1. Quotas(ph) \in [Threads -> Nat] /\ Sum(Quotas(ph), Threads) = Total(ph)
  BY TotalNat, QuotasSum
<1>2. \A t \in Threads : pc'[t] = "idle" /\ left'[t] \in Nat
  BY <1>1 DEF Each
<1>3. Untaken' = left'
  <2>1. \A t \in Threads : left'[t] - (IF pc'[t] = "idle" THEN 0 ELSE 1) = left'[t]
    BY <1>2
  <2>2. left' = [t \in Threads |-> left'[t]]
    BY <1>1
  <2>3. Threads' = Threads
    BY DEF Threads
  <2> QED BY <2>1, <2>2, <2>3 DEF Untaken
<1>4. Sum(Untaken, Threads)' = Sum(Untaken', Threads)
  BY DEF Threads
<1> QED BY <1>1, <1>3, <1>4

(* What the assumptions say of the numbers of a check. *)
LEMMA CheckNumbers ==
    ASSUME cfg \in Scenarios
    PROVE  /\ cfg.ops \in Nat /\ cfg.stopat \in Nat /\ cfg.insertstart \in Nat
           /\ RecordCount \in Nat /\ NumThreads \in Nat /\ NumThreads > 0
           /\ CheckBase \in Nat
<1>1. /\ cfg.ops \in Nat /\ cfg.stopat \in Nat /\ cfg.insertstart \in Nat
      /\ RecordCount \in Nat /\ NumThreads \in Nat /\ NumThreads > 0
  BY ScenarioAssumption, WorkloadAssumption
<1> QED BY <1>1 DEF CheckBase

(* A load that ends has settled what a check of its keys will be promised. *)
LEMMA LoadSettles ==
    ASSUME CtlInv, LoadInv, CheckInv, cfg.workload = "checking", phase = "load",
           exiting \/ PhaseDone
    PROVE  Cardinality(CheckedKeys \cap stored) >= Promised - Cardinality(failed)
<1>1. /\ cfg.ops \in Nat /\ cfg.stopat \in Nat /\ cfg.insertstart \in Nat
      /\ RecordCount \in Nat /\ NumThreads \in Nat
  BY CheckNumbers DEF CtlInv
<1>2. PICK a \in Nat, o \in Nat, n \in Nat :
        a = cfg.insertstart /\ o = cfg.ops /\ n = insertNext - cfg.insertstart
  BY <1>1 DEF LoadInv
<1>20. a \in Int /\ insertNext = a + n
  BY <1>2 DEF LoadInv
<1>3. /\ LoadChecked /\ IsFiniteSet(failed) /\ txCount \in Nat
  BY DEF CheckInv
<1>4. PICK p \in Int : p = Promised /\ p <= cfg.stopat + 1 /\ p <= RecordCount
                       /\ p <= o - (NumThreads - 1)
  <2>1. cfg.stopat + 1 \in Int /\ RecordCount \in Int /\ cfg.ops - (NumThreads - 1) \in Int
    BY <1>1
  <2>2. /\ Promised \in Int /\ Promised <= cfg.stopat + 1 /\ Promised <= RecordCount
        /\ Promised <= cfg.ops - (NumThreads - 1)
    BY <2>1, MinOfThree, Zenon DEF Promised
  <2> QED BY <1>2, <2>2
<1> DEFINE H == {t \in Threads : pc[t] = "insert"}
<1>5. H \subseteq Threads /\ IsFiniteSet(H) /\ Cardinality(H) \in Nat
  <2>1. H \in SUBSET Threads
    OBVIOUS
  <2> QED BY <2>1, SomeThreads
<1>6. PICK m \in Nat : m = (IF o <= n THEN o ELSE n) /\ m <= n /\ m <= o
  OBVIOUS
<1>7. \A k \in a .. (a + m - 1) : k \in Settled \/ \E t \in H : key[t] = k
  <2> SUFFICES ASSUME NEW k \in a .. (a + m - 1), k \notin Settled
               PROVE  \E t \in H : key[t] = k
    OBVIOUS
  <2>1. k \in cfg.insertstart .. (insertNext - 1)
    BY <1>2, <1>20, <1>6
  <2>2. PICK t \in Threads : pc[t] = "insert" /\ key[t] = k
    BY <1>3, <2>1 DEF LoadChecked
  <2> QED BY <2>2
<1>8. Cardinality((a .. (a + m - 1)) \cap Settled) >= m - Cardinality(H)
  <2> HIDE DEF H
  <2> QED BY <1>5, <1>7, <1>20, MostSettled, Zenon
<1>9. m - Cardinality(H) >= p
  <2>1. CASE exiting
    <3>1. txCount > cfg.stopat /\ n = txCount + Cardinality(InFlight)
      BY <1>2, <1>3, <2>1 DEF LoadChecked
    <3>2. PICK u \in Threads : pc[u] = "exit"
      BY <1>3, <2>1 DEF LoadChecked
    <3>3. H \in SUBSET (Threads \ {u})
      BY <3>2
    <3>4. Cardinality(H) <= NumThreads - 1
      <4> HIDE DEF H
      <4>1. IsFiniteSet(Threads \ {u}) /\ Cardinality(Threads \ {u}) = NumThreads - 1
        BY ThreadsCount
      <4> QED BY <3>3, <4>1, FS_Subset
    <3>5. H \in SUBSET InFlight /\ InFlight \in SUBSET Threads
      BY DEF InFlight
    <3>6. Cardinality(H) <= Cardinality(InFlight) /\ Cardinality(InFlight) \in Nat
      <4> HIDE DEF H
      <4> QED BY <3>5, SomeThreads, FS_Subset
    <3> HIDE DEF H
    <3>7. CASE o <= n
      BY <1>1, <1>4, <1>5, <1>6, <3>4, <3>7
    <3>8. CASE ~(o <= n)
      BY <1>1, <1>3, <1>4, <1>5, <1>6, <3>1, <3>6, <3>8
    <3> QED BY <3>7, <3>8
  <2>2. CASE PhaseDone
    <3>1. Sum(Untaken, Threads) = 0
      BY <2>2, UntakenDone
    <3>2. insertNext - cfg.insertstart + Sum(Untaken, Threads) = RecordCount
      BY DEF LoadInv
    <3>3. n = RecordCount
      BY <1>2, <3>1, <3>2
    <3>4. H = {}
      BY <2>2 DEF PhaseDone
    <3>5. Cardinality(H) = 0
      BY <3>4, FS_EmptySet
    <3>6. NumThreads - 1 \in Nat
      BY CheckNumbers DEF CtlInv
    <3> HIDE DEF H
    <3> QED BY <1>1, <1>4, <1>6, <3>3, <3>5, <3>6
  <2> QED BY <2>1, <2>2
<1>10. PICK F : F = CheckedKeys /\ IsFiniteSet(F)
  <2>1. IsFiniteSet(CheckedKeys)
    BY <1>2, <1>20, IntervalSize, Zenon DEF CheckedKeys
  <2> QED BY <2>1
<1>11. Cardinality((a .. (a + m - 1)) \cap Settled) <= Cardinality(F \cap Settled)
  <2>1. (a .. (a + m - 1)) \cap Settled \in SUBSET (F \cap Settled)
    BY <1>2, <1>6, <1>10 DEF CheckedKeys
  <2>2. IsFiniteSet(F \cap Settled)
    BY <1>10, FS_Intersection
  <2> QED BY <2>1, <2>2, FS_Subset
<1>12. Cardinality(F \cap Settled) <= Cardinality(F \cap stored) + Cardinality(failed)
  BY <1>3, <1>10, SplitFound DEF Settled
<1>13. /\ Cardinality(F \cap Settled) \in Nat /\ Cardinality(F \cap stored) \in Nat
       /\ Cardinality(failed) \in Nat
       /\ Cardinality((a .. (a + m - 1)) \cap Settled) \in Nat
  <2>1. IsFiniteSet(a .. (a + m - 1))
    BY <1>20, IntervalSize, Zenon
  <2> QED BY <1>3, <1>10, <2>1, FS_Intersection, FS_CardinalityType
<1> HIDE DEF H
<1> QED BY <1>4, <1>5, <1>8, <1>9, <1>10, <1>11, <1>12, <1>13

(* Nothing has been checked at first. *)
LEMMA InitCheck == Init => CheckInv
<1> SUFFICES ASSUME Init PROVE CheckInv
  OBVIOUS
<1>1. /\ cfg \in Scenarios /\ phase = FirstPhase /\ insertNext = cfg.insertstart
      /\ txCount = 0 /\ correct = 0 /\ exiting = FALSE /\ pc = Each("idle") /\ key = Each(0)
      /\ status = Each("none") /\ left = Quotas(phase) /\ failed = {}
  BY DEF Init
<1>2. /\ cfg.ops \in Nat /\ cfg.stopat \in Nat /\ cfg.insertstart \in Nat
      /\ RecordCount \in Nat /\ NumThreads \in Nat
  BY <1>1, CheckNumbers
<1> SUFFICES ASSUME cfg.workload = "checking" PROVE CheckInv
  BY <1>1 DEF CheckInv
<1>3. /\ key = [t \in Threads |-> key[t]] /\ status = [t \in Threads |-> status[t]]
      /\ IsFiniteSet(failed) /\ txCount \in 0 .. RecordCount /\ correct \in 0 .. cfg.ops
  BY <1>1, <1>2, FS_EmptySet DEF Each
<1>4. \A t \in Threads : pc[t] = "idle"
  BY <1>1 DEF Each
<1>5. InFlight = {} /\ Found = {}
  BY <1>4 DEF InFlight, Found
<1>6. Cardinality(InFlight) = 0 /\ Cardinality(Found) = 0
  BY <1>5, FS_EmptySet
<1>7. \A k \in cfg.insertstart .. (insertNext - 1) : FALSE
  BY <1>1, <1>2
<1>8. phase = "load" => LoadChecked
  BY <1>1, <1>2, <1>6, <1>7 DEF LoadChecked
<1>9. phase = "run" => RunChecked
  <2> SUFFICES ASSUME phase = "run" PROVE RunChecked
    OBVIOUS
  <2>1. cfg.mode = "run"
    BY <1>1 DEF FirstPhase
  <2>2. CheckBase = cfg.insertstart
    BY <1>2, <2>1 DEF CheckBase
  <2>3. Sum(Untaken, Threads) = cfg.ops
    <3>1. left \in [Threads -> Nat] /\ Sum(left, Threads) = Total(phase)
      BY <1>1, QuotasSum, TotalNat
    <3>2. Untaken = left
      <4>1. \A t \in Threads : left[t] - (IF pc[t] = "idle" THEN 0 ELSE 1) = left[t]
        BY <1>4, <3>1
      <4> QED BY <3>1, <4>1 DEF Untaken
    <3>3. Total(phase) = cfg.ops
      BY DEF Total
    <3> QED BY <3>1, <3>2, <3>3
  <2>4. (CheckBase .. (insertNext - 1)) \cap stored = {}
    BY <1>7, <2>2
  <2>5. Cardinality((CheckBase .. (insertNext - 1)) \cap stored) = 0
    BY <2>4, FS_EmptySet
  <2> QED BY <1>1, <1>2, <1>6, <2>1, <2>2, <2>3, <2>5 DEF RunChecked
<1> QED BY <1>3, <1>8, <1>9 DEF CheckInv

(* The operations not taken stay so many while a client carries out one, or ends it. *)
LEMMA UntakenKept ==
    ASSUME CtlInv, LoadInv, NEW t \in Threads, pc[t] # "idle", NEW l, pc' = [pc EXCEPT ![t] = l],
           IF l = "idle" THEN left' = [left EXCEPT ![t] = @ - 1] ELSE left' = left
    PROVE  Sum(Untaken, Threads)' = Sum(Untaken, Threads)
<1>1. pc \in [Threads -> Places] /\ left \in [Threads -> Nat]
  BY DEF CtlInv, LoadInv
<1>2. \A u \in Threads : left'[u] - (IF pc'[u] = "idle" THEN 0 ELSE 1)
                         = left[u] - (IF pc[u] = "idle" THEN 0 ELSE 1)
  <2> SUFFICES ASSUME NEW u \in Threads
               PROVE  left'[u] - (IF pc'[u] = "idle" THEN 0 ELSE 1)
                      = left[u] - (IF pc[u] = "idle" THEN 0 ELSE 1)
    OBVIOUS
  <2>1. CASE u = t
    BY <1>1, <2>1
  <2>2. CASE u # t
    BY <1>1, <2>2
  <2> QED BY <2>1, <2>2
<1>3. Threads' = Threads
  BY DEF Threads
<1>4. Untaken' = Untaken
  BY <1>2, <1>3 DEF Untaken
<1> QED BY <1>3, <1>4

(* How many operations are not taken. *)
LEMMA UntakenSum == ASSUME CtlInv, LoadInv PROVE Sum(Untaken, Threads) \in Nat
<1>1. PICK g : g = Untaken
  OBVIOUS
<1>2. \A t \in Threads : g[t] \in Nat
  BY <1>1, UntakenNat DEF LoadInv
<1>3. Sum(g, Threads) \in Nat
  BY <1>2, ThreadsFinite, SumNat, Zenon
<1> QED BY <1>1, <1>3

(* The steps of a client that checks. *)
LEMMA CheckingSteps ==
    ASSUME CtlInv, cfg.workload = "checking", NEW t \in Threads, Step(t)
    PROVE  \/ LoadKey(t) \/ NextToCheck(t) \/ DbCall(t) \/ CountTx(t) \/ CountCorrect(t)
           \/ Count(t)
<1>1. pc[t] \in Places /\ phase \in {"load", "run", "over", "crashed"}
  BY DEF CtlInv
<1>2. pc[t] \in {"idle", "insert", "count", "stop", "exit", "read", "correct"}
  BY <1>1 DEF Places
<1>3. ~ChooseOp(t) /\ ~PeekKey(t) /\ ~ReplayKey(t) /\ ~ReplayCrash(t)
  BY DEF ChooseOp, PeekKey, ReplayKey, ReplayCrash
<1>4. ~PeekOp(t) /\ ~DrawRandom(t) /\ ~DrawSequential(t) /\ ~ReadLast(t) /\ ~DrawLatest(t)
      /\ ~CheckKey(t) /\ ~TakeKey(t) /\ ~Acknowledge(t)
  BY <1>2 DEF PeekOp, DrawRandom, DrawSequential, ReadLast, DrawLatest, CheckKey, TakeKey,
              Acknowledge, At
<1> QED BY <1>3, <1>4 DEF Step

(* A key of the load is held by the client that took it. *)
LEMMA CheckLoadKey ==
    ASSUME CtlInv, LoadInv, CheckInv, cfg.workload = "checking", NEW t \in Threads, LoadKey(t)
    PROVE  CheckInv'
<1>1. /\ phase = "load" /\ pc[t] = "idle" /\ cfg' = cfg /\ phase' = phase
      /\ key' = [key EXCEPT ![t] = insertNext] /\ insertNext' = insertNext + 1
      /\ pc' = [pc EXCEPT ![t] = "insert"]
      /\ UNCHANGED <<stored, failed, status, txCount, correct, exiting>>
  BY DEF LoadKey, Ready, At, Goto
<1>2. /\ pc \in [Threads -> Places] /\ cfg.insertstart \in Nat /\ insertNext \in Nat
      /\ insertNext >= cfg.insertstart
  BY CheckNumbers DEF CtlInv, LoadInv
<1>3. LoadChecked /\ key = [u \in Threads |-> key[u]] /\ txCount \in Nat
  BY <1>1 DEF CheckInv
<1>4. \A u \in Threads \ {t} : pc'[u] = pc[u] /\ key'[u] = key[u]
  BY <1>1, <1>2, <1>3
<1>5. pc'[t] = "insert" /\ key'[t] = insertNext
  BY <1>1, <1>2, <1>3
<1>6. ASSUME NEW k \in cfg.insertstart .. (insertNext' - 1)
      PROVE  k \in Settled \/ \E u \in Threads : pc'[u] = "insert" /\ key'[u] = k
  <2>1. CASE k = insertNext
    BY <1>5, <2>1
  <2>2. CASE k # insertNext
    <3>1. k \in cfg.insertstart .. (insertNext - 1)
      BY <1>1, <1>2, <2>2
    <3>2. CASE k \notin Settled
      <4>1. PICK u \in Threads : pc[u] = "insert" /\ key[u] = k
        BY <1>3, <3>1, <3>2 DEF LoadChecked
      <4> QED BY <1>1, <1>4, <4>1
    <3> QED BY <3>2
  <2> QED BY <2>1, <2>2
<1>7. insertNext' - cfg.insertstart = txCount + Cardinality(InFlight)'
  <2>1. /\ Cardinality(InFlight) \in Nat /\ Cardinality(InFlight)' \in Nat
        /\ Cardinality(InFlight)' = Cardinality(InFlight) + 1 - 0
    BY <1>1, <1>2, FlightStep
  <2>2. insertNext - cfg.insertstart = txCount + Cardinality(InFlight)
    BY <1>3 DEF LoadChecked
  <2> QED BY <1>1, <1>2, <1>3, <2>1, <2>2
<1>8. exiting => txCount > cfg.stopat /\ \E u \in Threads : pc'[u] = "exit"
  <2> SUFFICES ASSUME exiting PROVE txCount > cfg.stopat /\ \E u \in Threads : pc'[u] = "exit"
    OBVIOUS
  <2>1. PICK u \in Threads : pc[u] = "exit"
    BY <1>3 DEF LoadChecked
  <2> QED BY <1>1, <1>3, <1>4, <2>1 DEF LoadChecked
<1>9. LoadChecked'
  <2>1. Settled' = Settled /\ Threads' = Threads /\ correct' = 0
    BY <1>1, <1>3 DEF Settled, Threads, LoadChecked
  <2> QED BY <1>1, <1>6, <1>7, <1>8, <2>1 DEF LoadChecked
<1>10. key' = [u \in Threads |-> key'[u]]
  BY <1>1, <1>3
<1> QED BY <1>1, <1>9, <1>10 DEF CheckInv, Threads

(* An insert that returns settles its key. *)
LEMMA CheckInsert ==
    ASSUME CtlInv, LoadInv, CheckInv, cfg.workload = "checking", phase = "load",
           NEW t \in Threads, DbCall(t)
    PROVE  CheckInv'
<1>1. pc \in [Threads -> Places] /\ pc[t] = "insert"
  BY DEF CtlInv, DbCall, Places
<1>2. /\ cfg' = cfg /\ phase' = phase /\ pc' = [pc EXCEPT ![t] = "stop"]
      /\ UNCHANGED <<key, insertNext, txCount, correct, exiting>>
      /\ \/ stored' = stored \cup {key[t]} /\ failed' = failed
         \/ stored' = stored /\ failed' = failed \cup {key[t]}
  BY <1>1 DEF DbCall, AfterCall, Goto, procVars
<1>3. PICK s : status' = [status EXCEPT ![t] = s]
  BY DEF DbCall
<1>4. /\ LoadChecked /\ key = [u \in Threads |-> key[u]] /\ txCount \in Nat
      /\ status = [u \in Threads |-> status[u]] /\ IsFiniteSet(failed)
  BY DEF CheckInv
<1>5. \A u \in Threads \ {t} : pc'[u] = pc[u]
  BY <1>1, <1>2
<1>6. Settled' = Settled \cup {key[t]}
  BY <1>2 DEF Settled
<1>7. ASSUME NEW k \in cfg.insertstart .. (insertNext - 1)
      PROVE  k \in Settled' \/ \E u \in Threads : pc'[u] = "insert" /\ key[u] = k
  <2>1. CASE k \notin Settled'
    <3>1. PICK u \in Threads : pc[u] = "insert" /\ key[u] = k
      BY <1>4, <1>6, <2>1 DEF LoadChecked
    <3>2. u # t
      BY <1>6, <2>1, <3>1
    <3> QED BY <1>5, <3>1, <3>2
  <2> QED BY <2>1
<1>8. Cardinality(InFlight)' = Cardinality(InFlight)
  <2>1. /\ Cardinality(InFlight) \in Nat /\ Cardinality(InFlight)' \in Nat
        /\ Cardinality(InFlight)' = Cardinality(InFlight) + 1 - 1
    BY <1>1, <1>2, FlightStep
  <2> QED BY <2>1
<1>9. exiting => txCount > cfg.stopat /\ \E u \in Threads : pc'[u] = "exit"
  <2> SUFFICES ASSUME exiting PROVE txCount > cfg.stopat /\ \E u \in Threads : pc'[u] = "exit"
    OBVIOUS
  <2>1. PICK u \in Threads : pc[u] = "exit"
    BY <1>4 DEF LoadChecked
  <2> QED BY <1>1, <1>4, <1>5, <2>1 DEF LoadChecked
<1>10. LoadChecked'
  <2>1. Threads' = Threads /\ correct' = 0
    BY <1>2, <1>4 DEF Threads, LoadChecked
  <2>2. insertNext' - cfg'.insertstart = txCount' + Cardinality(InFlight)'
    BY <1>2, <1>4, <1>8 DEF LoadChecked
  <2> QED BY <1>2, <1>7, <1>9, <2>1, <2>2 DEF LoadChecked
<1>11. IsFiniteSet(failed')
  BY <1>2, <1>4, FS_AddElement
<1>12. status' = [u \in Threads |-> status'[u]]
  BY <1>3, <1>4
<1> QED BY <1>2, <1>4, <1>10, <1>11, <1>12 DEF CheckInv, Threads

(* fetch_add counts an insert that has returned; whoever counts stop_at_ ends the process. *)
LEMMA CheckTx ==
    ASSUME CtlInv, LoadInv, CheckInv, cfg.workload = "checking", NEW t \in Threads, CountTx(t)
    PROVE  CheckInv'
<1>1. /\ Running /\ pc[t] = "stop" /\ cfg' = cfg /\ phase' = phase /\ txCount' = txCount + 1
      /\ UNCHANGED <<key, insertNext, correct, status, stored, failed>>
  BY DEF CountTx, At, history
<1>2. exiting' = (exiting \/ Stops(txCount))
  BY DEF CountTx
<1>3. PICK l : /\ pc' = [pc EXCEPT ![t] = l] /\ l \in {"exit", "count"}
               /\ Stops(txCount) => l = "exit"
  BY DEF CountTx, Goto
<1>4. pc \in [Threads -> Places] /\ phase = "load"
  <2>1. pc \in [Threads -> Places] /\ pc[t] \in Places
    BY DEF CtlInv
  <2> QED BY <1>1, <2>1, RunningPhase DEF Places
<1>5. LoadChecked /\ txCount \in Nat
  BY <1>4 DEF CheckInv
<1>6. /\ cfg.stopat \in Nat /\ cfg.insertstart \in Nat /\ RecordCount \in Nat /\ insertNext \in Nat
  BY CheckNumbers DEF CtlInv, LoadInv
<1>7. /\ Cardinality(InFlight) \in Nat /\ Cardinality(InFlight)' \in Nat
      /\ Cardinality(InFlight)' = Cardinality(InFlight) - 1
  <2>1. /\ Cardinality(InFlight) \in Nat /\ Cardinality(InFlight)' \in Nat
        /\ Cardinality(InFlight)' = Cardinality(InFlight) + 0 - 1
    BY <1>1, <1>3, <1>4, FlightStep
  <2> QED BY <2>1
<1>8. insertNext - cfg.insertstart = txCount + Cardinality(InFlight)
  BY <1>5 DEF LoadChecked
<1>9. txCount' \in 0 .. RecordCount
  <2>1. PICK n \in Nat : n = Sum(Untaken, Threads)
    BY UntakenSum
  <2>2. insertNext - cfg.insertstart + n = RecordCount
    BY <1>4, <2>1 DEF LoadInv
  <2> QED BY <1>1, <1>5, <1>6, <1>7, <1>8, <2>2
<1>10. \A u \in Threads \ {t} : pc'[u] = pc[u]
  BY <1>3, <1>4
<1>11. exiting' => txCount' > cfg.stopat /\ \E u \in Threads : pc'[u] = "exit"
  <2>1. CASE Stops(txCount)
    BY <1>1, <1>3, <1>4, <1>5, <1>6, <2>1 DEF Stops
  <2>2. CASE ~Stops(txCount)
    <3> SUFFICES ASSUME exiting PROVE txCount' > cfg.stopat /\ \E u \in Threads : pc'[u] = "exit"
      BY <1>2, <2>2
    <3>1. PICK u \in Threads : pc[u] = "exit" /\ txCount > cfg.stopat
      BY <1>5 DEF LoadChecked
    <3> QED BY <1>1, <1>5, <1>6, <1>10, <3>1
  <2> QED BY <2>1, <2>2
<1>12. ASSUME NEW k \in cfg.insertstart .. (insertNext - 1)
       PROVE  k \in Settled \/ \E u \in Threads : pc'[u] = "insert" /\ key[u] = k
  <2>1. CASE k \notin Settled
    <3>1. PICK u \in Threads : pc[u] = "insert" /\ key[u] = k
      BY <1>5, <2>1 DEF LoadChecked
    <3> QED BY <1>1, <1>10, <3>1
  <2> QED BY <2>1
<1>13. LoadChecked'
  <2>1. Threads' = Threads /\ correct' = 0 /\ Settled' = Settled
    BY <1>1, <1>5 DEF Threads, LoadChecked, Settled
  <2>2. insertNext' - cfg'.insertstart = txCount' + Cardinality(InFlight)'
    BY <1>1, <1>5, <1>6, <1>7, <1>8
  <2> QED BY <1>1, <1>11, <1>12, <2>1, <2>2 DEF LoadChecked
<1> QED BY <1>1, <1>4, <1>9, <1>13 DEF CheckInv, Threads

(* A part of an interval has at most as many elements as the interval is long. *)
LEMMA PartSize ==
    ASSUME NEW a \in Nat, NEW b \in Nat, a <= b, NEW S
    PROVE  /\ IsFiniteSet((a .. (b - 1)) \cap S)
           /\ Cardinality((a .. (b - 1)) \cap S) \in Nat
           /\ Cardinality((a .. (b - 1)) \cap S) <= b - a
<1>1. PICK n \in Nat : n = b - a
  OBVIOUS
<1>2. PICK F : F = a .. (b - 1)
  OBVIOUS
<1>3. F = a .. (a + n - 1) /\ a \in Int
  BY <1>1, <1>2
<1>4. IsFiniteSet(F) /\ Cardinality(F) = n
  BY <1>3, IntervalSize, Zenon
<1>5. F \cap S \in SUBSET F
  OBVIOUS
<1>6. IsFiniteSet(F \cap S) /\ Cardinality(F \cap S) <= Cardinality(F)
  BY <1>4, <1>5, FS_Subset
<1>7. Cardinality(F \cap S) \in Nat
  BY <1>6, FS_CardinalityType
<1> QED BY <1>1, <1>2, <1>4, <1>6, <1>7

(* One more number makes one more element, or none. *)
LEMMA PartNext ==
    ASSUME NEW a \in Nat, NEW b \in Nat, a <= b, NEW S
    PROVE  Cardinality((a .. b) \cap S)
             = Cardinality((a .. (b - 1)) \cap S) + IF b \in S THEN 1 ELSE 0
<1>1. PICK P : P = (a .. (b - 1)) \cap S
  OBVIOUS
<1>2. IsFiniteSet(P) /\ Cardinality(P) \in Nat
  BY <1>1, PartSize
<1>3. b \notin P
  BY <1>1
<1>4. (a .. b) \cap S = IF b \in S THEN P \cup {b} ELSE P
  BY <1>1
<1>5. Cardinality(P \cup {b}) = Cardinality(P) + 1
  BY <1>2, <1>3, FS_AddElement
<1>6. CASE b \in S
  BY <1>1, <1>4, <1>5, <1>6
<1>7. CASE b \notin S
  <2>1. (a .. b) \cap S = P
    BY <1>4, <1>7
  <2>2. Cardinality(P) = Cardinality(P) + 0
    BY <1>2
  <2> QED BY <1>1, <1>7, <2>1, <2>2
<1> QED BY <1>6, <1>7

(* The client that takes the next key has found it if it is there. *)
LEMMA CheckNextKey ==
    ASSUME CtlInv, LoadInv, CheckInv, cfg.workload = "checking", NEW t \in Threads, NextToCheck(t)
    PROVE  CheckInv'
<1>1. /\ phase = "run" /\ pc[t] = "idle" /\ left[t] > 0 /\ cfg' = cfg /\ phase' = phase
      /\ key' = [key EXCEPT ![t] = insertNext] /\ insertNext' = insertNext + 1
      /\ pc' = [pc EXCEPT ![t] = "read"]
      /\ UNCHANGED <<stored, failed, status, txCount, correct, left>>
  BY DEF NextToCheck, Ready, At, Goto, history
<1>2. pc \in [Threads -> Places] /\ CheckBase \in Nat /\ insertNext \in Nat /\ cfg.ops \in Nat
  BY CheckNumbers DEF CtlInv, LoadInv
<1>3. RunChecked /\ key = [u \in Threads |-> key[u]] /\ correct \in Nat
  BY <1>1 DEF CheckInv
<1>4. \A u \in Threads \ {t} : pc'[u] = pc[u] /\ key'[u] = key[u] /\ status'[u] = status[u]
  BY <1>1, <1>2, <1>3
<1>5. pc'[t] = "read" /\ key'[t] = insertNext
  BY <1>1, <1>2, <1>3
<1>6. ~Finds(t) /\ (Finds(t)' <=> insertNext \in stored)
  BY <1>1, <1>5 DEF Finds
<1>7. /\ Cardinality(Found) \in Nat /\ Cardinality(Found)' \in Nat
      /\ Cardinality(Found)' = Cardinality(Found)
            + (IF Finds(t)' THEN 1 ELSE 0) - (IF Finds(t) THEN 1 ELSE 0)
  BY <1>1, <1>4, FoundStep
<1>8. /\ insertNext >= CheckBase
      /\ insertNext - CheckBase + Sum(Untaken, Threads) = cfg.ops
      /\ correct + Cardinality(Found) = Cardinality((CheckBase .. (insertNext - 1)) \cap stored)
  BY <1>3 DEF RunChecked
<1>9. Cardinality((CheckBase .. insertNext) \cap stored)
        = Cardinality((CheckBase .. (insertNext - 1)) \cap stored)
            + IF insertNext \in stored THEN 1 ELSE 0
  BY <1>2, <1>8, PartNext
<1>10. insertNext' - 1 = insertNext /\ insertNext' >= CheckBase /\ CheckBase' = CheckBase
  BY <1>1, <1>2, <1>8 DEF CheckBase
<1>11. correct' + Cardinality(Found)'
         = Cardinality((CheckBase .. (insertNext' - 1)) \cap stored)
  <2>1. PICK x \in Nat, y \in Nat : x = Cardinality(Found) /\ y = Cardinality(Found)'
    BY <1>7
  <2>2. PICK c \in Nat : c = Cardinality((CheckBase .. (insertNext - 1)) \cap stored)
    BY <1>2, <1>8, PartSize
  <2>3. PICK d \in {0, 1} : d = IF insertNext \in stored THEN 1 ELSE 0
    OBVIOUS
  <2>4. y = x + d
    BY <1>6, <1>7, <2>1, <2>3
  <2>5. Cardinality((CheckBase .. (insertNext' - 1)) \cap stored) = c + d
    BY <1>9, <1>10, <2>2, <2>3
  <2>6. correct + x = c
    BY <1>8, <2>1, <2>2
  <2> QED BY <1>1, <1>3, <2>1, <2>4, <2>5, <2>6
<1>12. insertNext' - CheckBase + Sum(Untaken, Threads)' = cfg.ops
  <2>1. "read" # "idle"
    OBVIOUS
  <2>2. /\ Sum(Untaken, Threads) \in Nat /\ Sum(Untaken, Threads)' \in Nat
        /\ Sum(Untaken, Threads)' = Sum(Untaken, Threads) - 1
    BY <1>1, <2>1, TakeOne
  <2> QED BY <1>1, <1>2, <1>8, <2>2
<1>13. RunChecked'
  <2>1. CheckedKeys' = CheckedKeys /\ Promised' = Promised
    BY <1>1 DEF CheckedKeys, Promised
  <2> QED BY <1>1, <1>3, <1>10, <1>11, <1>12, <2>1 DEF RunChecked
<1>14. key' = [u \in Threads |-> key'[u]]
  BY <1>1, <1>3
<1> QED BY <1>1, <1>13, <1>14 DEF CheckInv, Threads

(* A step of the check that takes no key moves one from found to correct, or nothing. *)
LEMMA CheckStep ==
    ASSUME CtlInv, LoadInv, CheckInv, cfg.workload = "checking", phase = "run",
           NEW t \in Threads, NEW l, pc[t] # "idle", pc' = [pc EXCEPT ![t] = l],
           IF l = "idle" THEN left' = [left EXCEPT ![t] = @ - 1] ELSE left' = left,
           UNCHANGED <<cfg, phase, key, insertNext, stored, failed, txCount>>,
           status' = [u \in Threads |-> status'[u]],
           \A u \in Threads \ {t} : status'[u] = status[u],
           Finds(t)' => Finds(t),
           correct' = correct + (IF Finds(t) THEN 1 ELSE 0) - (IF Finds(t)' THEN 1 ELSE 0)
    PROVE  CheckInv'
<1>1. /\ pc \in [Threads -> Places] /\ CheckBase \in Nat /\ insertNext \in Nat /\ cfg.ops \in Nat
  BY CheckNumbers DEF CtlInv, LoadInv
<1>2. RunChecked /\ correct \in Nat
  BY DEF CheckInv
<1>3. /\ insertNext >= CheckBase
      /\ insertNext - CheckBase + Sum(Untaken, Threads) = cfg.ops
      /\ correct + Cardinality(Found) = Cardinality((CheckBase .. (insertNext - 1)) \cap stored)
  BY <1>2 DEF RunChecked
<1>4. Sum(Untaken, Threads)' = Sum(Untaken, Threads)
  BY UntakenKept
<1>5. /\ Cardinality(Found) \in Nat /\ Cardinality(Found)' \in Nat
      /\ Cardinality(Found)' = Cardinality(Found)
            + (IF Finds(t)' THEN 1 ELSE 0) - (IF Finds(t) THEN 1 ELSE 0)
  <2>1. \A u \in Threads \ {t} : pc'[u] = pc[u] /\ key'[u] = key[u] /\ status'[u] = status[u]
    BY <1>1
  <2> QED BY <2>1, FoundStep
<1>6. PICK x \in Nat, y \in Nat, a \in Int, b \in Int :
        /\ x = Cardinality(Found) /\ y = Cardinality(Found)'
        /\ a = (IF Finds(t) THEN 1 ELSE 0) /\ b = (IF Finds(t)' THEN 1 ELSE 0)
  BY <1>5
<1>7. y = x + b - a /\ correct' = correct + a - b
  BY <1>5, <1>6
<1>8. correct' + Cardinality(Found)' = correct + Cardinality(Found)
  BY <1>2, <1>6, <1>7
<1>9. correct' \in 0 .. cfg.ops
  <2>1. correct' \in Nat
    <3>1. a >= b
      BY <1>6
    <3> QED BY <1>2, <1>6, <1>7, <3>1
  <2>2. PICK n \in Nat : n = Sum(Untaken, Threads)
    BY UntakenSum
  <2>3. PICK c \in Nat : /\ c = Cardinality((CheckBase .. (insertNext - 1)) \cap stored)
                         /\ c <= insertNext - CheckBase
    BY <1>1, <1>3, PartSize
  <2> QED BY <1>1, <1>2, <1>3, <1>6, <1>8, <2>1, <2>2, <2>3
<1>10. RunChecked'
  <2>1. CheckedKeys' = CheckedKeys /\ Promised' = Promised /\ CheckBase' = CheckBase
    BY DEF CheckedKeys, Promised, CheckBase
  <2> QED BY <1>2, <1>3, <1>4, <1>8, <2>1 DEF RunChecked
<1> QED BY <1>9, <1>10 DEF CheckInv, Threads

(* A read finds the key that is there, CountCorrect counts it, Count ends the operation. *)
LEMMA CheckRead ==
    ASSUME CtlInv, LoadInv, CheckInv, cfg.workload = "checking", phase = "run",
           NEW t \in Threads, DbCall(t) \/ CountCorrect(t) \/ Count(t)
    PROVE  CheckInv'
<1>1. /\ pc \in [Threads -> Places] /\ pc[t] \in {"idle", "read", "correct", "count"}
  <2>1. pc \in [Threads -> Places] /\ pc[t] \in Places
    BY DEF CtlInv
  <2> QED BY <2>1 DEF Places
<1>2. /\ key = [u \in Threads |-> key[u]] /\ status = [u \in Threads |-> status[u]]
      /\ correct \in Nat
  BY DEF CheckInv
<1>3. CASE DbCall(t)
  <2>1. pc[t] = "read"
    BY <1>1, <1>3 DEF DbCall
  <2>2. /\ UNCHANGED <<cfg, phase, key, insertNext, stored, failed, txCount, left, correct>>
        /\ pc' = [pc EXCEPT ![t] = "correct"]
    BY <1>3, <2>1 DEF DbCall, AfterCall, Goto, procVars
  <2>3. PICK s : /\ s = IF key[t] \in stored THEN "ok" ELSE "notfound"
                 /\ status' = [status EXCEPT ![t] = s]
    BY <1>3, <2>1 DEF DbCall, Outcomes, KeptStatus
  <2>4. /\ pc'[t] = "correct" /\ status'[t] = s /\ status' = [u \in Threads |-> status'[u]]
        /\ \A u \in Threads \ {t} : status'[u] = status[u]
    BY <1>1, <1>2, <2>2, <2>3
  <2>5. Finds(t)' <=> Finds(t)
    BY <2>1, <2>3, <2>4 DEF Finds
  <2>6. correct' = correct + (IF Finds(t) THEN 1 ELSE 0) - (IF Finds(t)' THEN 1 ELSE 0)
    BY <1>2, <2>2, <2>5
  <2>7. "correct" # "idle"
    OBVIOUS
  <2> QED BY <2>1, <2>2, <2>4, <2>5, <2>6, <2>7, CheckStep
<1>4. CASE CountCorrect(t)
  <2>1. /\ UNCHANGED <<cfg, phase, key, insertNext, stored, failed, txCount, left, status>>
        /\ pc[t] = "correct" /\ pc' = [pc EXCEPT ![t] = "count"]
        /\ correct' = correct + IF status[t] = "ok" THEN 1 ELSE 0
    BY <1>4 DEF CountCorrect, At, Goto, history
  <2>2. pc'[t] = "count"
    BY <1>1, <2>1
  <2>3. ~Finds(t)' /\ (Finds(t) <=> status[t] = "ok")
    BY <2>1, <2>2 DEF Finds
  <2>4. correct' = correct + (IF Finds(t) THEN 1 ELSE 0) - (IF Finds(t)' THEN 1 ELSE 0)
    BY <1>2, <2>1, <2>3
  <2>5. "count" # "idle"
    OBVIOUS
  <2> QED BY <1>2, <2>1, <2>3, <2>4, <2>5, CheckStep
<1>5. CASE Count(t)
  <2>1. /\ UNCHANGED <<cfg, phase, key, insertNext, stored, failed, txCount, status, correct>>
        /\ pc[t] = "count" /\ pc' = [pc EXCEPT ![t] = "idle"]
        /\ left' = [left EXCEPT ![t] = @ - 1]
    BY <1>5 DEF Count, At, Goto, procVars, history
  <2>2. pc'[t] = "idle"
    BY <1>1, <2>1
  <2>3. ~Finds(t)' /\ ~Finds(t)
    BY <2>1, <2>2 DEF Finds
  <2>4. correct' = correct + (IF Finds(t) THEN 1 ELSE 0) - (IF Finds(t)' THEN 1 ELSE 0)
    BY <1>2, <2>1, <2>3
  <2> QED BY <1>2, <2>1, <2>3, <2>4, CheckStep
<1> QED BY <1>3, <1>4, <1>5

(* Ending an operation of the load leaves the keys as they are. *)
LEMMA CheckLoadCount ==
    ASSUME CtlInv, LoadInv, CheckInv, cfg.workload = "checking", phase = "load",
           NEW t \in Threads, Count(t)
    PROVE  CheckInv'
<1>1. /\ UNCHANGED <<cfg, phase, key, insertNext, stored, failed, txCount, status, correct, exiting>>
      /\ pc[t] = "count" /\ pc' = [pc EXCEPT ![t] = "idle"]
  BY DEF Count, At, Goto, procVars, history
<1>2. pc \in [Threads -> Places] /\ LoadChecked
  BY DEF CtlInv, CheckInv
<1>3. \A u \in Threads : pc'[u] # pc[u] => pc[u] = "count"
  BY <1>1, <1>2
<1>4. ASSUME NEW k \in cfg.insertstart .. (insertNext - 1)
      PROVE  k \in Settled \/ \E u \in Threads : pc'[u] = "insert" /\ key[u] = k
  <2>1. CASE k \notin Settled
    <3>1. PICK u \in Threads : pc[u] = "insert" /\ key[u] = k
      BY <1>2, <2>1 DEF LoadChecked
    <3> QED BY <1>3, <3>1
  <2> QED BY <2>1
<1>5. exiting => txCount > cfg.stopat /\ \E u \in Threads : pc'[u] = "exit"
  <2> SUFFICES ASSUME exiting PROVE txCount > cfg.stopat /\ \E u \in Threads : pc'[u] = "exit"
    OBVIOUS
  <2>1. PICK u \in Threads : pc[u] = "exit"
    BY <1>2 DEF LoadChecked
  <2> QED BY <1>2, <1>3, <2>1 DEF LoadChecked
<1>6. Cardinality(InFlight)' = Cardinality(InFlight)
  <2>1. /\ Cardinality(InFlight) \in Nat /\ Cardinality(InFlight)' \in Nat
        /\ Cardinality(InFlight)' = Cardinality(InFlight) + 0 - 0
    BY <1>1, <1>2, FlightStep
  <2> QED BY <2>1
<1>7. LoadChecked'
  <2>1. Threads' = Threads /\ Settled' = Settled
    BY <1>1 DEF Threads, Settled
  <2> QED BY <1>1, <1>2, <1>4, <1>5, <1>6, <2>1 DEF LoadChecked
<1> QED BY <1>1, <1>7 DEF CheckInv, Threads

(* A check begins with every key of the load settled, or with a promise of how many are. *)
LEMMA CheckBegins ==
    ASSUME CtlInv, LoadInv, CheckInv, cfg.workload = "checking", EndPhase \/ EndProcess
    PROVE  CheckInv'
<1>1. /\ UNCHANGED <<cfg, stored, failed>> /\ phase' = NextPhase /\ pc' = Each("idle")
      /\ key' = Each(0) /\ status' = Each("none") /\ left' = Quotas(NextPhase)
  BY DEF EndPhase, EndProcess, StartThreads
<1>2. /\ cfg.ops \in Nat /\ cfg.insertstart \in Nat /\ RecordCount \in Nat /\ CheckBase \in Nat
      /\ cfg \in Scenarios
  BY CheckNumbers DEF CtlInv
<1>3. /\ key' = [t \in Threads |-> key'[t]] /\ status' = [t \in Threads |-> status'[t]]
      /\ Threads' = Threads /\ IsFiniteSet(failed')
  BY <1>1 DEF Each, CheckInv, Threads
<1>4. \/ txCount' = txCount /\ correct' = correct
      \/ txCount' = 0 /\ correct' = 0
  BY DEF EndPhase, EndProcess, procVars
<1>5. txCount' \in 0 .. RecordCount /\ correct' \in 0 .. cfg.ops
  <2>1. txCount \in 0 .. RecordCount /\ correct \in 0 .. cfg.ops
    BY DEF CheckInv
  <2> QED BY <1>2, <1>4, <2>1
<1>6. phase' # "load"
  BY <1>1 DEF NextPhase
<1>7. ASSUME phase' = "run" PROVE RunChecked'
  <2>1. phase = "load" /\ (cfg.mode = "restart" \/ (cfg.mode = "both" /\ ~exiting))
    BY <1>1, <1>7 DEF NextPhase
  <2>2. correct = 0 /\ correct' = 0
    <3>1. correct = 0
      BY <2>1 DEF CheckInv, LoadChecked
    <3> QED BY <1>4, <3>1
  <2>3. exiting \/ PhaseDone
    BY DEF EndPhase, EndProcess
  <2>4. insertNext' = CheckBase
    <3>1. CASE cfg.mode = "restart"
      <4>1. insertNext' = cfg.insertstart
        BY <2>1, <3>1 DEF EndPhase, EndProcess
      <4> QED BY <1>2, <3>1, <4>1 DEF CheckBase
    <3>2. CASE cfg.mode = "both"
      <4>1. PhaseDone /\ insertNext' = insertNext
        BY <2>1, <3>2 DEF EndPhase, EndProcess, procVars
      <4>2. insertNext - cfg.insertstart + Sum(Untaken, Threads) = RecordCount /\ insertNext \in Nat
        BY <2>1 DEF LoadInv
      <4>3. Sum(Untaken, Threads) = 0
        BY <4>1, UntakenDone
      <4> QED BY <1>2, <3>2, <4>1, <4>2, <4>3 DEF CheckBase
    <3> QED BY <2>1, <3>1, <3>2
  <2>5. Sum(Untaken, Threads)' = cfg.ops
    <3>1. Sum(Untaken, Threads)' = Total(NextPhase)
      BY <1>1, <1>2, UntakenNew
    <3>2. Total(NextPhase) = cfg.ops
      BY <1>1, <1>7 DEF Total
    <3> QED BY <3>1, <3>2
  <2>6. Cardinality(Found)' = 0
    <3>1. \A t \in Threads : pc'[t] = "idle"
      BY <1>1 DEF Each
    <3>2. Found' = {}
      BY <1>3, <3>1 DEF Found
    <3>3. Cardinality(Found') = 0
      BY <3>2, FS_EmptySet
    <3> QED BY <3>3
  <2>7. Cardinality((CheckBase .. (CheckBase - 1)) \cap stored) = 0
    <3>1. (CheckBase .. (CheckBase - 1)) \cap stored = {}
      BY <1>2
    <3> QED BY <3>1, FS_EmptySet
  <2>8. CheckedKeys' = CheckedKeys /\ Promised' = Promised /\ CheckBase' = CheckBase
    BY <1>1 DEF CheckedKeys, Promised, CheckBase
  <2>9. Cardinality(CheckedKeys \cap stored) >= Promised - Cardinality(failed)
    BY <2>1, <2>3, LoadSettles
  <2>10. insertNext' >= CheckBase' /\ insertNext' - CheckBase' + Sum(Untaken, Threads)' = cfg'.ops
    BY <1>1, <1>2, <2>4, <2>5, <2>8
  <2>11. correct' + Cardinality(Found)' = Cardinality((CheckBase' .. (insertNext' - 1)) \cap stored')
    BY <1>1, <2>2, <2>4, <2>6, <2>7, <2>8
  <2> QED BY <1>1, <2>8, <2>9, <2>10, <2>11 DEF RunChecked
<1> QED BY <1>1, <1>3, <1>5, <1>6, <1>7 DEF CheckInv

(* Nobody but a checking client counts inserts and correct keys. *)
LEMMA CheckIdle ==
    ASSUME CtlInv, CheckInv, cfg.workload # "checking", [Next]_vars PROVE CheckInv'
<1>1. txCount = 0 /\ correct = 0
  BY DEF CheckInv
<1>2. cfg.workload \in {"core", "tracepeek", "pureinsert"}
  BY ScenarioFacts DEF CtlInv
<1>3. ASSUME NEW t \in Threads PROVE ~CountTx(t) /\ ~CountCorrect(t)
  <2>1. pc[t] \in Places /\ phase \in {"load", "run", "over", "crashed"}
    BY DEF CtlInv
  <2>2. pc[t] \notin {"stop", "correct"}
    BY <1>2, <2>1 DEF Places, Pcs
  <2> QED BY <2>2 DEF CountTx, CountCorrect, At
<1>4. cfg' = cfg /\ (UNCHANGED <<txCount, correct>> \/ (txCount' = 0 /\ correct' = 0))
  <2>1. ASSUME NEW t \in Threads, ChooseOp(t) \/ PeekKey(t) \/ PeekOp(t)
        PROVE  cfg' = cfg /\ UNCHANGED <<txCount, correct>>
    BY <2>1 DEF ChooseOp, PeekKey, PeekOp, procVars
  <2>2. ASSUME NEW t \in Threads,
               DrawRandom(t) \/ DrawSequential(t) \/ ReadLast(t) \/ DrawLatest(t) \/ CheckKey(t)
        PROVE  cfg' = cfg /\ UNCHANGED <<txCount, correct>>
    BY <2>2 DEF DrawRandom, DrawSequential, ReadLast, DrawLatest, CheckKey, procVars
  <2>3. ASSUME NEW t \in Threads,
               LoadKey(t) \/ TakeKey(t) \/ ReplayKey(t) \/ ReplayCrash(t) \/ NextToCheck(t)
        PROVE  cfg' = cfg /\ UNCHANGED <<txCount, correct>>
    BY <2>3 DEF LoadKey, TakeKey, ReplayKey, ReplayCrash, NextToCheck, procVars
  <2>4. ASSUME NEW t \in Threads, DbCall(t) \/ Acknowledge(t) \/ Count(t)
        PROVE  cfg' = cfg /\ UNCHANGED <<txCount, correct>>
    BY <2>4 DEF DbCall, Acknowledge, Count, procVars
  <2>5. CASE InitThreadCrash \/ EndPhase \/ EndProcess \/ UNCHANGED vars
    BY <2>5 DEF InitThreadCrash, EndPhase, EndProcess, StartThreads, vars, procVars
  <2> QED BY <1>3, <2>1, <2>2, <2>3, <2>4, <2>5, NextSplit DEF Step
<1> QED BY <1>1, <1>4 DEF CheckInv

(* Every step keeps the counts of a check. *)
LEMMA NextCheck == ASSUME CtlInv, LoadInv, CheckInv, [Next]_vars PROVE CheckInv'
<1>1. CASE cfg.workload # "checking"
  BY <1>1, CheckIdle
<1>2. CASE cfg.workload = "checking"
  <2>1. ASSUME NEW t \in Threads, Step(t) PROVE CheckInv'
    <3>1. phase \in {"load", "run"}
      <4>1. Running
        BY <1>2, <2>1, CheckingSteps
           DEF LoadKey, NextToCheck, DbCall, CountTx, CountCorrect, Count, Ready, At
      <4> QED BY <4>1, RunningPhase
    <3>2. CASE LoadKey(t) \/ NextToCheck(t) \/ CountTx(t)
      BY <1>2, <3>2, CheckLoadKey, CheckNextKey, CheckTx
    <3>3. CASE phase = "run" /\ (DbCall(t) \/ CountCorrect(t) \/ Count(t))
      BY <1>2, <3>3, CheckRead
    <3>4. CASE phase = "load" /\ (DbCall(t) \/ Count(t))
      BY <1>2, <3>4, CheckInsert, CheckLoadCount
    <3>5. ~(phase = "load" /\ CountCorrect(t))
      <4>1. pc[t] \in Places
        BY DEF CtlInv
      <4> QED BY <1>2, <4>1 DEF Places, CountCorrect, At
    <3> QED BY <1>2, <2>1, <3>1, <3>2, <3>3, <3>4, <3>5, CheckingSteps
  <2>2. CASE EndPhase \/ EndProcess
    BY <1>2, <2>2, CheckBegins
  <2>3. CASE InitThreadCrash \/ UNCHANGED vars
    <3>1. ~InitThreadCrash
      BY <1>2 DEF InitThreadCrash, NullReader
    <3>2. UNCHANGED <<cfg, phase, key, status, failed, stored, txCount, correct, insertNext, pc, left,
                      exiting>>
      BY <2>3, <3>1 DEF vars, threadVars, procVars, history
    <3>3. /\ Threads' = Threads /\ InFlight' = InFlight /\ Found' = Found /\ Untaken' = Untaken
          /\ Settled' = Settled /\ CheckBase' = CheckBase /\ CheckedKeys' = CheckedKeys
          /\ Promised' = Promised
      BY <3>2 DEF Threads, InFlight, Found, Untaken, Settled, CheckBase, CheckedKeys, Promised
    <3>4. (LoadChecked => LoadChecked') /\ (RunChecked => RunChecked')
      BY <3>2, <3>3 DEF LoadChecked, RunChecked
    <3> QED BY <3>2, <3>3, <3>4 DEF CheckInv
  <2> QED BY <2>1, <2>2, <2>3, NextSplit
<1> QED BY <1>1, <1>2

-----------------------------------------------------------------------------
(* The theorems. *)

(***************************************************************************)
(* ZipfianGenerator::Next: whoever extends zeta_n_, and with however old a *)
(* number of items others come to mutex_, every term is added once.        *)
(***************************************************************************)
THEOREM ZetaIsExact == Spec => []ZetaExact
<1>1. ZetaInv => ZetaExact
  BY DEF ZetaInv
<1> QED BY <1>1, InitZeta, NextZeta, PTL DEF Spec

(***************************************************************************)
(* DoTransaction and ClientThread: between operations oks is the number of *)
(* calls that DBWrapper measured as successful, without the reads of       *)
(* read-modify-writes.                                                     *)
(***************************************************************************)
THEOREM OksAreMeasured == Spec => []OksMatchMeasured
<1>1. OksInv => OksMatchMeasured
  <2> SUFFICES ASSUME OksInv, Accounted, NEW t \in Threads, pc[t] = "idle"
               PROVE  oks[t] = measured[t] - rmwReads[t]
    BY DEF OksMatchMeasured, Accounted
  <2>1. oks[t] + Uncounted(t) = measured[t] - rmwReads[t] /\ oks[t] \in Int
    BY DEF OksInv, Accounted
  <2>2. Uncounted(t) = 0
    BY DEF Uncounted, Called
  <2> QED BY <2>1, <2>2
<1> QED BY <1>1, InitCtl, NextCtl, InitOks, NextOks, PTL DEF Spec

(***************************************************************************)
(* DoInsert and TransactionInsert: with insertstart 0 no key is given to   *)
(* db.Insert twice, by the load, by the transactions or by one of each.    *)
(***************************************************************************)
THEOREM InsertsAreDistinct == Spec => []InsertsDistinct
<1>1. LoadInv => InsertsDistinct
  BY DEF LoadInv, InsertsDistinct
<1> QED BY <1>1, InitCtl, NextCtl, InitLoad, NextLoad, PTL DEF Spec

(***************************************************************************)
(* NextTransactionKeyNum: unless the window of the counter was overrun,    *)
(* every key that is read, scanned or updated was inserted before, or its  *)
(* insert has failed, for every distribution and number of threads.        *)
(***************************************************************************)
THEOREM KeysAreInserted == Spec => []KeysWereInserted
<1>1. CtlInv /\ KeyInv => KeysWereInserted
  <2> SUFFICES ASSUME CtlInv, KeyInv, cfg.insertstart = 0, cfg.workload # "checking", ~overrun,
                      NEW t \in Threads, pc[t] \in Reading
               PROVE  key[t] \in stored \cup failed
    BY DEF KeysWereInserted, Reading
  <2>1. cfg.workload \in {"core", "tracepeek", "pureinsert"}
    BY ScenarioFacts DEF CtlInv
  <2>2. pc[t] \in Places
    BY DEF CtlInv
  <2>3. cfg.workload # "pureinsert"
    BY <2>2 DEF Places, Reading
  <2>4. KeyOf(t)
    BY <2>1, <2>3 DEF KeyInv, Loaded
  <2> QED BY <2>4 DEF KeyOf, Settled
<1> QED BY <1>1, InitCtl, NextCtl, InitZeta, NextZeta, InitLoad, NextLoad, InitKey, NextKey, PTL
        DEF Spec

(***************************************************************************)
(* PureInsertWorkload: a client replays its own files in order, and only   *)
(* those, if no record is in two files; a wild read needs files of         *)
(* different lengths or a client without operations.                       *)
(***************************************************************************)
THEOREM TraceIsReplayed == Spec /\ []DistinctRecords => []TraceReplayed
<1>1. ReplayInv /\ CtlInv /\ LoadInv /\ DistinctRecords => TraceReplayed
  <2> SUFFICES ASSUME ReplayInv, CtlInv, LoadInv, DistinctRecords PROVE TraceReplayed
    OBVIOUS
  <2>1. ASSUME NEW t \in Threads
        PROVE  \E u \in Nat : ReplayState(cfg.trace, t, reader[t], replayed[t], u)
    <3>1. CASE cfg.workload = "pureinsert"
      BY <3>1, UntakenNat DEF ReplayInv
    <3>2. CASE cfg.workload # "pureinsert"
      <4>1. reader[t] = NoReader /\ replayed[t] = <<>>
        BY <3>2 DEF ReplayInv, Each
      <4> QED BY <4>1, NoReaderState
    <3> QED BY <3>1, <3>2
  <2>2. ASSUME NEW t \in Threads, SameLength(reader[t].workloads)
        PROVE  /\ Len(replayed[t]) <= Len(reader[t].workloads) * reader[t].len
               /\ \A i \in DOMAIN reader[t].workloads, j \in 1 .. reader[t].len :
                    (i - 1) * reader[t].len + j <= Len(replayed[t])
                    => replayed[t][(i - 1) * reader[t].len + j] = reader[t].workloads[i][j]
    <3>1. PICK u \in Nat : ReplayState(cfg.trace, t, reader[t], replayed[t], u)
      BY <2>1
    <3>2. PICK r \in ReaderStates, s \in Seq(Int) :
            r = reader[t] /\ s = replayed[t] /\ InOrder(r, s, u)
      BY <2>2, <3>1 DEF ReplayState
    <3>3. PICK a \in Nat, b \in Nat : a = Len(s) /\ b = Len(r.workloads) * r.len
      <4>1. r.workloads \in Seq(Seq(Nat)) /\ r.len \in Nat
        BY DEF ReaderStates
      <4> QED BY <4>1, NatTimes
    <3>4. a + u <= b
      BY <3>2, <3>3 DEF InOrder
    <3>5. a <= b
      BY <3>4
    <3> QED BY <3>2, <3>3, <3>5 DEF InOrder
  <2>3. ASSUME NEW t \in Threads, NEW u \in Threads, t # u
        PROVE  Range(replayed[t]) \cap Range(replayed[u]) \subseteq {Garbage}
    <3>1. PICK a : ReplayState(cfg.trace, t, reader[t], replayed[t], a)
      BY <2>1
    <3>2. PICK b : ReplayState(cfg.trace, u, reader[u], replayed[u], b)
      BY <2>1
    <3> QED BY <2>3, <3>1, <3>2, ReplayedApart
  <2>4. phase = "crashed" => Wild
    BY DEF ReplayInv, CtlInv
  <2> QED BY <2>2, <2>3, <2>4 DEF TraceReplayed, Wild
<1> QED BY <1>1, InitCtl, NextCtl, InitLoad, NextLoad, InitReplay, NextReplay, PTL DEF Spec

(***************************************************************************)
(* CheckingWorkload: correct_count_ ends as the number of the checked keys *)
(* that are in the database, however the clients share them; and after a   *)
(* load that stopped itself, or ended, it is no less than what the load    *)
(* had settled for certain, for every number of clients and stop_at_.      *)
(***************************************************************************)
THEOREM CheckFindsTheRest == Spec => []CheckedCount
<1>1. CtlInv /\ LoadInv /\ CheckInv => CheckedCount
  <2> SUFFICES ASSUME CtlInv, LoadInv, CheckInv, cfg.workload = "checking",
                      cfg.mode \in {"run", "restart"}, phase = "run", PhaseDone
               PROVE  /\ correct = Cardinality(CheckedKeys \cap stored)
                      /\ cfg.mode = "restart" => correct >= Promised - Cardinality(failed)
    BY DEF CheckedCount, CheckedKeys, Promised
  <2>1. RunChecked /\ correct \in Nat
    BY DEF CheckInv
  <2>2. cfg.insertstart \in Nat /\ cfg.ops \in Nat /\ insertNext \in Nat
    BY CheckNumbers DEF CtlInv, LoadInv
  <2>3. CheckBase = cfg.insertstart
    BY <2>2 DEF CheckBase
  <2>4. insertNext - 1 = cfg.insertstart + cfg.ops - 1
    <3>1. Sum(Untaken, Threads) = 0
      BY UntakenDone
    <3>2. insertNext - CheckBase + Sum(Untaken, Threads) = cfg.ops
      BY <2>1 DEF RunChecked
    <3> QED BY <2>2, <2>3, <3>1, <3>2
  <2>5. Cardinality(Found) = 0
    <3>1. Found = {}
      BY DEF Found, PhaseDone
    <3> QED BY <3>1, FS_EmptySet
  <2>6. correct + Cardinality(Found) = Cardinality((CheckBase .. (insertNext - 1)) \cap stored)
    BY <2>1 DEF RunChecked
  <2>7. correct = Cardinality(CheckedKeys \cap stored)
    BY <2>1, <2>3, <2>4, <2>5, <2>6 DEF CheckedKeys
  <2> QED BY <2>1, <2>7 DEF RunChecked
<1> QED BY <1>1, InitCtl, NextCtl, InitLoad, NextLoad, InitCheck, NextCheck, PTL DEF Spec

(***************************************************************************)
(* The types, and with them what bounds the counts: no client counts more  *)
(* operations than its share, tx_count_ stays within recordcount and       *)
(* correct_count_ within operationcount, Last() below the counter; only an *)
(* operation with a proportion above 0 is ever chosen.                     *)
(***************************************************************************)
THEOREM WorkloadTypes == Spec => []WTypeOK
<1>1. CtlInv /\ LoadInv /\ CheckInv /\ TypeInv => WTypeOK
  <2> SUFFICES ASSUME CtlInv, LoadInv, CheckInv, TypeInv PROVE WTypeOK
    OBVIOUS
  <2>1. cfg \in Scenarios /\ phase \in {"load", "run", "over", "crashed"}
    BY DEF CtlInv
  <2>2. stored \subseteq Int /\ insertNext \in Nat /\ limit < counter
    BY DEF TypeInv, LoadInv
  <2>3. txCount \in 0 .. RecordCount /\ correct \in 0 .. cfg.ops
    BY <2>1, CheckNumbers DEF CheckInv
  <2>4. ASSUME NEW t \in Threads
        PROVE  /\ left[t] \in Nat /\ (pc[t] # "idle" => left[t] > 0)
               /\ phase \in {"load", "run"} => oks[t] + left[t] <= ThreadOps(Total(phase), t)
               /\ pc[t] = "exit" => exiting
               /\ op[t] \in Transactions => cfg.weights[op[t]] > 0
    BY DEF LoadInv, TypeInv, Quota
  <2> QED BY <2>1, <2>2, <2>3, <2>4 DEF WTypeOK
<1> QED BY <1>1, InitCtl, NextCtl, InitZeta, NextZeta, InitLoad, NextLoad, InitReplay, NextReplay,
        InitCheck, NextCheck, InitType, NextType, PTL DEF Spec
=============================================================================
