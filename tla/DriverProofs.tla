---------------------------- MODULE DriverProofs ----------------------------
(***************************************************************************)
(* The driver's safety properties, and those of what its clients share,    *)
(* for every number of clients, every count of operations, every mode and  *)
(* every outcome of an operation.                                          *)
(*                                                                         *)
(*   1. what OpsDone computes: a sum over the clients (SumLemmas)          *)
(*   2. facts about the clients' locals and about one turn of the loop     *)
(*   3. DriverInv holds initially and every step preserves it, one lemma   *)
(*      for each of its parts                                              *)
(*   4. the driver's theorems                                              *)
(*   5. RefCountedDb: the references to the shared handle of the embedded  *)
(*      stores are balanced, and it is live for as long as the code's      *)
(*      guard in Init can keep it so                                       *)
(*   6. ErpcHandle: as long as in each phase every Init comes before the   *)
(*      first Cleanup, the clients' Rpc objects have distinct ids on a     *)
(*      live Nexus, and behind the lock there is one Nexus, which the      *)
(*      last Cleanup deletes                                               *)
(*                                                                         *)
(* Every step of 5 and 6 is a step of the driver, so DriverInv holds and   *)
(* says where each client's DB object is when a handle is opened, closed.  *)
(***************************************************************************)
EXTENDS RefCountedDb, ErpcHandle, SumLemmas

(* 1. Sums over the clients. *)

(* There are N clients. *)
LEMMA ClientsFinite == IsFiniteSet(Clients) /\ Cardinality(Clients) = N
<1>1. 0 \in Int /\ N - 1 \in Int /\ ~(0 > N - 1) /\ N - 1 - 0 + 1 = N
  BY CountAssumption
<1> QED BY <1>1, FS_Interval, Zenon DEF Clients

Done == [c \in Clients |-> cl[c].i]

(* The library's sum of an expression is Sum of the function it denotes. *)
LEMMA OpsDoneIsSum == OpsDone = Sum(Done, Clients)
<1> DEFINE T(f, s) == IF s = {} THEN 0
                      ELSE LET x == CHOOSE x \in s : TRUE IN cl[x].i + f[s \ {x}]
           P(f) == f = [s \in SUBSET Clients |-> T(f, s)]
           h == CHOOSE f : P(f)
<1>1. OpsDone = h[Clients]
  BY Zenon DEF OpsDone, MapThenSumSet, MapThenFoldSet
<1>2. ASSUME NEW f PROVE P(f) <=> Adds(Done, f, Clients)
  <2>1. ASSUME NEW s \in SUBSET Clients PROVE T(f, s) = Term(Done, f, s)
    <3>1. CASE s = {}
      BY <3>1 DEF Term
    <3>2. CASE s # {}
      <4> DEFINE x == CHOOSE x \in s : TRUE
      <4>1. x \in Clients
        BY <3>2, PickOne
      <4> HIDE DEF x
      <4>2. Done[x] = cl[x].i
        BY <4>1 DEF Done
      <4> QED BY <3>2, <4>2, Zenon DEF Term, x
    <3> QED BY <3>1, <3>2
  <2> HIDE DEF T
  <2> QED BY <2>1 DEF Adds
<1>3. \E f : P(f)
  <2> HIDE DEF P
  <2> QED BY <1>2, AddsExists, ClientsFinite
<1>4. P(h)
  <2> HIDE DEF P
  <2> QED BY <1>3, Zenon DEF h
<1>5. Adds(Done, h, Clients)
  <2> HIDE DEF P, h
  <2> QED BY <1>2, <1>4
<1>6. PICK f : Adds(Done, f, Clients) /\ Sum(Done, Clients) = f[Clients]
  BY SumEq, ClientsFinite
<1> HIDE DEF h
<1>7. h[Clients] = f[Clients]
  BY <1>5, <1>6, AddsUnique, ClientsFinite
<1> QED BY <1>1, <1>6, <1>7

-----------------------------------------------------------------------------
(* 2. The clients. *)

(* A client's share of the operations is a natural. *)
LEMMA ThreadOpsNat == ASSUME TypeOK, NEW c \in Clients PROVE ThreadOps(c) \in Nat
<1>1. N \in Nat /\ N > 0 /\ Total \in Nat /\ c \in Nat
  BY CountAssumption DEF Total, Clients
<1>2. Total \div N \in Nat /\ Total % N \in Nat
  BY <1>1
<1> QED BY <1>1, <1>2 DEF ThreadOps

(* So is what the clients have done. *)
LEMMA OpsDoneNat == ASSUME TypeOK PROVE OpsDone \in Nat
<1>1. \A c \in Clients : Done[c] \in Nat
  BY DEF TypeOK, Locals, Done
<1> QED BY <1>1, OpsDoneIsSum, ClientsFinite, SumNat

(* The clients' shares are all of the phase's operations. *)
LEMMA SharesAddUp ==
    ASSUME TypeOK, \A c \in Clients : cl[c].i = ThreadOps(c)
    PROVE  OpsDone = Total
<1>1. N \in Nat /\ N > 0 /\ Total \in Nat
  BY CountAssumption DEF Total
<1>2. PICK q \in Nat, r \in Nat : /\ q = Total \div N /\ r = Total % N
                                /\ r <= N /\ N * q + r = Total
  BY <1>1
<1>3. \A c \in 0 .. (N - 1) : Done[c] = q + (IF c < r THEN 1 ELSE 0)
  BY <1>2 DEF ThreadOps, Clients, Done
<1>4. Sum(Done, 0 .. (N - 1)) = N * q + r
  <2>1. N \in Nat
    BY <1>1
  <2>2. Shares(Done, q, r, N)
    BY <1>2, <1>3 DEF Shares
  <2> QED BY <2>1, <2>2, SumOfShares
<1>5. OpsDone = Sum(Done, 0 .. (N - 1))
  BY OpsDoneIsSum, Zenon DEF Clients
<1> QED BY <1>2, <1>4, <1>5

(* A client that has not counted down a latch keeps it up. *)
LEMMA LatchesUp ==
    ASSUME DriverInv, NEW c \in Clients
    PROVE  /\ cl[c].pc = "thread" => init_latch > 0
           /\ cl[c].pc = "latch" => latch > 0
<1>1. cl[c].pc \in {"thread", "latch"} => mpc # "begin"
  BY DEF DriverInv, LatchesOutliveThreads
<1>2. IsFiniteSet(Waiting) /\ IsFiniteSet(Unfinished)
  BY ClientsFinite, FS_Subset DEF Waiting, Unfinished
<1>3. /\ Cardinality(Waiting) \in Nat /\ (Waiting # {} => Cardinality(Waiting) # 0)
      /\ Cardinality(Unfinished) \in Nat /\ (Unfinished # {} => Cardinality(Unfinished) # 0)
  BY <1>2, FS_CardinalityType, FS_EmptySet
<1>4. init_latch \in Nat /\ latch \in Nat
  BY CountAssumption DEF DriverInv, TypeOK
<1>5. cl[c].pc = "thread" => init_latch > 0
  BY <1>1, <1>3, <1>4 DEF DriverInv, LatchInv, Waiting
<1>6. cl[c].pc = "latch" => latch > 0
  BY <1>1, <1>3, <1>4 DEF DriverInv, LatchInv, Unfinished
<1> QED BY <1>5, <1>6

(* A client that does not run has locals of the right type. *)
LEMMA NoClientType == NoClient \in Locals
BY DEF NoClient, Locals

Pcs == {"none", "init", "thread", "loop", "latch", "returned", "threw"}

(* Moving a client on keeps its locals well typed. *)
LEMMA Moved == ASSUME NEW l \in Locals, NEW p \in Pcs PROVE [l EXCEPT !.pc = p] \in Locals
BY DEF Locals, Pcs

(* Entering the loop keeps the type of a client's locals. *)
LEMMA Started ==
    ASSUME NEW l \in Locals, NEW b \in BOOLEAN
    PROVE  [l EXCEPT !.pc = "loop", !.on = b] \in Locals
BY DEF Locals

(* The fields of a client's locals, one by one. *)
LEMMA LocalsFields ==
    ASSUME NEW l \in Locals
    PROVE  /\ l.i \in Nat /\ l.oks \in Nat /\ l.skipped \in Nat /\ l.on \in BOOLEAN
           /\ SkippedOk(l) \in Nat
BY DEF Locals, SkippedOk

(* Leaving the skip period keeps their type. *)
LEMMA Turned ==
    ASSUME NEW l \in Locals, NEW b \in BOOLEAN, NEW k \in Nat
    PROVE  [l EXCEPT !.on = b, !.skipped = k] \in Locals
BY DEF Locals

(* Counting an operation keeps it. *)
LEMMA Counted ==
    ASSUME NEW l \in Locals, NEW i \in Nat, NEW o \in Nat
    PROVE  [l EXCEPT !.i = i, !.oks = o] \in Locals
BY DEF Locals

(* The options that a client reads are Booleans. *)
LEMMA FlagTypes == ShowStatus \in BOOLEAN /\ Skip \in BOOLEAN /\ (~Skip) \in BOOLEAN
<1>1. ShowStatus \in BOOLEAN /\ Skip \in BOOLEAN
  BY FlagAssumption
<1> QED BY <1>1

(* One turn of the loop is an operation that was executed, or it ends the client or the process. *)
LEMMA IterateCases ==
    ASSUME NEW c \in Clients, TypeOK, Iterate(c)
    PROVE  \E on \in BOOLEAN, e \in {0, 1} :
             LET turn == [cl[c] EXCEPT !.on = on, !.skipped = SkippedOk(cl[c])]
             IN  /\ cl[c].on => on
                 /\ \/ /\ cl' = [cl EXCEPT ![c] = [turn EXCEPT !.i = turn.i + 1, !.oks = turn.oks + e]]
                       /\ good' = [good EXCEPT ![c] = good[c] + (IF on THEN e ELSE 0)]
                       /\ outcome' = outcome
                    \/ UNCHANGED <<cl, good>> /\ outcome' = "exit1"
                    \/ /\ cl' = [cl EXCEPT ![c] = [turn EXCEPT !.pc = "threw"]]
                       /\ UNCHANGED <<good, outcome>>
<1>1. cl[c] \in Locals /\ cl[c].on \in BOOLEAN
  BY LocalsFields DEF TypeOK
<1>2. PICK on \in {TRUE} \cup {cl[c].on}, r \in OpOutcomes :
        LET turn == [cl[c] EXCEPT !.on = on, !.skipped = SkippedOk(cl[c])]
        IN  \/ /\ r \in {"ok", "fail"}
               /\ cl' = [cl EXCEPT ![c] =
                            [turn EXCEPT !.i = @ + 1, !.oks = @ + (IF r = "ok" THEN 1 ELSE 0)]]
               /\ good' = [good EXCEPT ![c] = @ + (IF r = "ok" /\ on THEN 1 ELSE 0)]
               /\ UNCHANGED outcome
            \/ /\ r = "exception"
               /\ outcome' = "exit1"
               /\ UNCHANGED <<cl, good>>
            \/ /\ r = "foreign"
               /\ cl' = [cl EXCEPT ![c] = [turn EXCEPT !.pc = "threw"]]
               /\ UNCHANGED <<good, outcome>>
  BY <1>1 DEF Iterate
<1>3. on \in BOOLEAN /\ (cl[c].on => on)
  BY <1>1
<1> DEFINE e == IF r = "ok" THEN 1 ELSE 0
<1>4. e \in {0, 1} /\ (IF on THEN e ELSE 0) = (IF r = "ok" /\ on THEN 1 ELSE 0)
  BY <1>3
<1> QED BY <1>2, <1>3, <1>4

(* The same, field by field. *)
LEMMA IterateEffect ==
    ASSUME NEW c \in Clients, TypeOK, Iterate(c)
    PROVE  /\ \A d \in Clients : d # c => cl'[d] = cl[d] /\ good'[d] = good[d]
           /\ cl[c].pc = "loop" /\ cl[c].i < ThreadOps(c) /\ cl'[c].pc \in {"loop", "threw"}
           /\ \/ cl'[c] = cl[c] /\ good'[c] = good[c]
              \/ \E on \in BOOLEAN, e, k \in {0, 1} :
                   /\ cl[c].on => on
                   /\ e <= k
                   /\ cl'[c].on = on /\ cl'[c].skipped = SkippedOk(cl[c])
                   /\ cl'[c].i = cl[c].i + k /\ cl'[c].oks = cl[c].oks + e
                   /\ good'[c] = good[c] + (IF on THEN e ELSE 0)
<1>1. PICK on \in BOOLEAN, e \in {0, 1} :
        LET turn == [cl[c] EXCEPT !.on = on, !.skipped = SkippedOk(cl[c])]
        IN  /\ cl[c].on => on
            /\ \/ /\ cl' = [cl EXCEPT ![c] = [turn EXCEPT !.i = turn.i + 1, !.oks = turn.oks + e]]
                  /\ good' = [good EXCEPT ![c] = good[c] + (IF on THEN e ELSE 0)]
                  /\ outcome' = outcome
               \/ UNCHANGED <<cl, good>> /\ outcome' = "exit1"
               \/ /\ cl' = [cl EXCEPT ![c] = [turn EXCEPT !.pc = "threw"]]
                  /\ UNCHANGED <<good, outcome>>
  BY IterateCases
<1> DEFINE turn == [cl[c] EXCEPT !.on = on, !.skipped = SkippedOk(cl[c])]
<1>2. cl[c] \in Locals /\ cl \in [Clients -> Locals] /\ good \in [Clients -> Nat]
  BY DEF TypeOK
<1>3. cl[c].pc = "loop" /\ cl[c].i < ThreadOps(c)
  BY DEF Iterate
<1>4. CASE /\ cl' = [cl EXCEPT ![c] = [turn EXCEPT !.i = turn.i + 1, !.oks = turn.oks + e]]
           /\ good' = [good EXCEPT ![c] = good[c] + (IF on THEN e ELSE 0)]
  <2>1. \A d \in Clients : d # c => cl'[d] = cl[d] /\ good'[d] = good[d]
    BY <1>2, <1>4
  <2>2. good'[c] = good[c] + (IF on THEN e ELSE 0)
    BY <1>2, <1>4
  <2>3. cl'[c] = [turn EXCEPT !.i = turn.i + 1, !.oks = turn.oks + e]
    BY <1>2, <1>4
  <2>4. /\ cl'[c].on = on /\ cl'[c].skipped = SkippedOk(cl[c]) /\ cl'[c].pc = "loop"
        /\ cl'[c].i = cl[c].i + 1 /\ cl'[c].oks = cl[c].oks + e
    BY <1>2, <1>3, <2>3 DEF Locals
  <2>5. e <= 1
    OBVIOUS
  <2> QED BY <1>1, <1>3, <2>1, <2>2, <2>4, <2>5
<1>5. CASE UNCHANGED <<cl, good>>
  BY <1>3, <1>5
<1>6. CASE cl' = [cl EXCEPT ![c] = [turn EXCEPT !.pc = "threw"]] /\ UNCHANGED good
  <2>1. \A d \in Clients : d # c => cl'[d] = cl[d] /\ good'[d] = good[d]
    BY <1>2, <1>6
  <2>2. good'[c] = good[c] /\ good[c] \in Nat
    BY <1>2, <1>6
  <2>3. cl'[c] = [turn EXCEPT !.pc = "threw"]
    BY <1>2, <1>6
  <2>4. /\ cl'[c].on = on /\ cl'[c].skipped = SkippedOk(cl[c]) /\ cl'[c].pc = "threw"
        /\ cl'[c].i = cl[c].i /\ cl'[c].oks = cl[c].oks
        /\ cl[c].i \in Nat /\ cl[c].oks \in Nat
    BY <1>2, <1>3, <2>3 DEF Locals
  <2>5. /\ cl'[c].i = cl[c].i + 0 /\ cl'[c].oks = cl[c].oks + 0
        /\ good'[c] = good[c] + (IF on THEN 0 ELSE 0) /\ 0 <= 0
    BY <2>2, <2>4
  <2> QED BY <1>1, <1>3, <2>1, <2>4, <2>5
<1> QED BY <1>1, <1>4, <1>5, <1>6, SMTT(30)

-----------------------------------------------------------------------------
(* 3. The invariant. *)

(* The invariant holds when the process begins. *)
LEMMA InitInv == Init => DriverInv
<1> SUFFICES ASSUME Init PROVE DriverInv
  OBVIOUS
<1> USE CountAssumption, FlagAssumption DEF Init
<1>1. TypeOK
  <2>1. cl \in [Clients -> Locals]
    BY NoClientType
  <2>2. /\ mode \in Modes /\ reinit \in ReInits /\ done \in BOOLEAN
        /\ phase \in {"load", "txn"} /\ db \in [Clients -> {"closed", "open"}]
        /\ good \in [Clients -> Nat]
    OBVIOUS
  <2>3. /\ mpc \in {"begin", "spawn", "await", "join", "end"}
        /\ next \in 0 .. N /\ sum \in Nat /\ latch \in 0 .. N /\ init_latch \in 0 .. N
        /\ spc \in {"none", "await", "print", "wait", "closed"}
        /\ rpc \in {"none", "wait", "closed"} /\ lines \in Nat
        /\ outcome \in {"running", "exit1", "terminate"} /\ printed \in Nat
    OBVIOUS
  <2> QED BY <2>1, <2>2, <2>3, Zenon DEF TypeOK
<1>2. MainInv
  BY DEF MainInv
<1>3. LatchInv /\ ClientInv
  BY DEF LatchInv, ClientInv, NoClient
<1>4. DbInv
  BY DEF DbInv, InitDb, DoLoad
<1>5. HelperInv /\ LatchesOutliveThreads /\ LastStatusComplete
  BY DEF HelperInv, LatchesOutliveThreads, LastStatusComplete, NoClient
<1> QED BY <1>1, <1>2, <1>3, <1>4, <1>5 DEF DriverInv

(* Every step keeps the types. *)
LEMMA NextType == ASSUME DriverInv, [Next]_vars PROVE TypeOK'
<1> USE CountAssumption, FlagAssumption
<1>0. TypeOK
  BY DEF DriverInv
<1> USE <1>0 DEF TypeOK
<1>1. CASE BeginPhase
  <2>1. cl' \in [Clients -> Locals]
    BY <1>1, NoClientType DEF BeginPhase
  <2>2. /\ latch' \in 0 .. N /\ init_latch' \in 0 .. N /\ next' \in 0 .. N
        /\ good' \in [Clients -> Nat] /\ sum' \in Nat /\ printed' \in Nat
    BY <1>1 DEF BeginPhase, LatchCount
  <2>3. /\ spc' \in {"none", "await", "print", "wait", "closed"} /\ done' \in BOOLEAN
        /\ rpc' \in {"none", "wait", "closed"}
        /\ mpc' \in {"begin", "spawn", "await", "join", "end"}
    BY <1>1 DEF BeginPhase
  <2> QED BY <1>1, <2>1, <2>2, <2>3, Zenon DEF BeginPhase
<1>2. CASE Spawn
  <2>1. next \in Clients
    BY <1>2 DEF Spawn, DriverInv, MainInv, Clients
  <2>2. cl' \in [Clients -> Locals]
    BY <1>2, <2>1, Moved DEF Spawn, Pcs
  <2> QED BY <1>2, <2>2 DEF Spawn
<1>3. CASE AwaitInit
  BY <1>3 DEF AwaitInit
<1>4. CASE Join
  <2>1. next \in Clients
    BY <1>4 DEF Join, Clients
  <2>2. cl[next].skipped <= cl[next].oks /\ cl[next].skipped \in Nat /\ cl[next].oks \in Nat
    BY <1>4, <2>1 DEF Join, DriverInv, ClientInv, Locals
  <2> QED BY <1>4, <2>1, <2>2 DEF Join
<1>5. CASE JoinRethrows
  BY <1>5 DEF JoinRethrows
<1>6. CASE EndPhase
  BY <1>6 DEF EndPhase
<1>7. ASSUME NEW c \in Clients, ClientInit(c) PROVE TypeOK'
  <2>1. cl' \in [Clients -> Locals]
    <3>1. \/ UNCHANGED cl
          \/ \E p \in {"thread", "threw"} : cl' = [cl EXCEPT ![c] = [cl[c] EXCEPT !.pc = p]]
      BY <1>7 DEF ClientInit
    <3>2. \A p \in {"thread", "threw"} : [cl[c] EXCEPT !.pc = p] \in Locals
      BY Moved DEF Pcs
    <3> QED BY <3>1, <3>2
  <2> QED BY <1>7, <2>1 DEF ClientInit
<1>8. ASSUME NEW c \in Clients, ClientReady(c) PROVE TypeOK'
  <2>1. cl' = [cl EXCEPT ![c] = [cl[c] EXCEPT !.pc = "loop", !.on = ~Skip]]
    BY <1>8 DEF ClientReady
  <2>2. [cl[c] EXCEPT !.pc = "loop", !.on = ~Skip] \in Locals
    BY FlagTypes, Started
  <2>3. cl' \in [Clients -> Locals]
    BY <2>1, <2>2
  <2> QED BY <1>8, <2>3, LatchesUp DEF ClientReady, CountedDown
<1>9. ASSUME NEW c \in Clients, Iterate(c) PROVE TypeOK'
  <2>1. PICK on \in BOOLEAN, e \in {0, 1} :
          LET turn == [cl[c] EXCEPT !.on = on, !.skipped = SkippedOk(cl[c])]
          IN  \/ /\ cl' = [cl EXCEPT ![c] = [turn EXCEPT !.i = turn.i + 1, !.oks = turn.oks + e]]
                 /\ good' = [good EXCEPT ![c] = good[c] + (IF on THEN e ELSE 0)]
                 /\ outcome' = outcome
              \/ UNCHANGED <<cl, good>> /\ outcome' = "exit1"
              \/ /\ cl' = [cl EXCEPT ![c] = [turn EXCEPT !.pc = "threw"]]
                 /\ UNCHANGED <<good, outcome>>
    BY <1>9, IterateCases
  <2> DEFINE turn == [cl[c] EXCEPT !.on = on, !.skipped = SkippedOk(cl[c])]
  <2>2. turn \in Locals
    BY LocalsFields, Turned
  <2>3. [turn EXCEPT !.i = turn.i + 1, !.oks = turn.oks + e] \in Locals
    <3> HIDE DEF turn
    <3>1. turn.i + 1 \in Nat /\ turn.oks + e \in Nat
      BY <2>2, LocalsFields
    <3> QED BY <2>2, <3>1, Counted
  <2>4. [turn EXCEPT !.pc = "threw"] \in Locals
    BY <2>2, Moved DEF Pcs
  <2>5. cl' \in [Clients -> Locals]
    BY <2>1, <2>3, <2>4
  <2>6. good' \in [Clients -> Nat] /\ outcome' \in {"running", "exit1", "terminate"}
    BY <2>1
  <2> QED BY <1>9, <2>5, <2>6, SMTT(30) DEF Iterate
<1>10. ASSUME NEW c \in Clients, ClientCleanup(c) PROVE TypeOK'
  <2>1. cl' \in [Clients -> Locals]
    BY <1>10, Moved DEF ClientCleanup, Pcs
  <2> QED BY <1>10, <2>1 DEF ClientCleanup
<1>11. ASSUME NEW c \in Clients, ClientReturn(c) PROVE TypeOK'
  <2>1. cl' \in [Clients -> Locals]
    BY <1>11, Moved DEF ClientReturn, Pcs
  <2> QED BY <1>11, <2>1, LatchesUp DEF ClientReturn, CountedDown
<1>12. CASE StatusStart
  BY <1>12 DEF StatusStart
<1>13. CASE StatusPrint
  BY <1>13, OpsDoneNat DEF StatusPrint
<1>14. CASE StatusWait
  BY <1>14 DEF StatusWait
<1>15. CASE RateWait
  BY <1>15 DEF RateWait, DriverInv, HelperInv
<1>16. CASE UNCHANGED vars
  BY <1>16 DEF vars
<1>17. ASSUME NEW c \in Clients, CleanupThrows(c) PROVE TypeOK'
  BY <1>17 DEF CleanupThrows
<1> QED
  BY <1>1, <1>2, <1>3, <1>4, <1>5, <1>6, <1>7, <1>8, <1>9, <1>10, <1>11, <1>12, <1>13, <1>14,
     <1>15, <1>16, <1>17
  DEF Next, MainStep, ClientStep, StatusStep

(* What a step of a client leaves alone, and where it can be. *)
LEMMA ClientFrame ==
    ASSUME DriverInv, NEW c \in Clients, ClientStep(c)
    PROVE  /\ cl[c].pc \in {"init", "thread", "loop", "latch"}
           /\ cl'[c].pc \in {"init", "thread", "loop", "latch", "returned", "threw"}
           /\ \A d \in Clients : d # c => cl'[d] = cl[d] /\ db'[d] = db[d] /\ good'[d] = good[d]
           /\ UNCHANGED <<mode, reinit, phase, mpc, next, sum, spc, done, rpc, lines, printed>>
           /\ mpc \notin {"begin", "end"}
<1> USE DEF DriverInv, TypeOK
<1>0. cl[c] \in Locals /\ cl[c].pc \in Pcs
  BY DEF Locals, Pcs
<1>1. CASE ClientInit(c)
  BY <1>0, <1>1 DEF ClientInit, LatchesOutliveThreads, Locals
<1>2. CASE ClientReady(c)
  BY <1>0, <1>2, SMTT(30) DEF ClientReady, LatchesOutliveThreads, Locals
<1>3. CASE Iterate(c)
  BY <1>3, IterateEffect DEF Iterate, LatchesOutliveThreads
<1>4. CASE ClientCleanup(c)
  BY <1>0, <1>4 DEF ClientCleanup, LatchesOutliveThreads, Locals
<1>5. CASE ClientReturn(c)
  BY <1>0, <1>5 DEF ClientReturn, LatchesOutliveThreads, Locals
<1>6. CASE CleanupThrows(c)
  BY <1>0, <1>6 DEF CleanupThrows, LatchesOutliveThreads
<1> QED BY <1>1, <1>2, <1>3, <1>4, <1>5, <1>6 DEF ClientStep

(* Every step keeps what is known of main. *)
LEMMA NextMain == ASSUME DriverInv, [Next]_vars PROVE MainInv'
<1> USE CountAssumption, FlagAssumption DEF DriverInv, MainInv, Unfinished, DoLoad, DoTransaction
<1>0. N \in Nat /\ N > 0 /\ next \in 0 .. N /\ \A c \in Clients : c \in Nat /\ c < N
  BY DEF TypeOK, Clients
<1>1. CASE BeginPhase
  BY <1>0, <1>1 DEF BeginPhase, NoClient
<1>2. CASE Spawn
  <2>1. next \in Clients /\ next < N
    BY <1>0, <1>2 DEF Spawn, Clients
  <2>2. /\ cl'[next].pc \in {"init", "thread"}
        /\ \A c \in Clients : c # next => cl'[c] = cl[c]
    BY <1>2, <2>1 DEF Spawn, TypeOK, Locals
  <2>3. \A c \in Clients : c >= next + 1 <=> cl'[c].pc = "none"
    BY <1>0, <1>2, <2>1, <2>2 DEF Spawn
  <2>4. CASE next + 1 < N
    BY <1>2, <2>3, <2>4 DEF Spawn
  <2>5. CASE ~(next + 1 < N)
    <3>1. \A c \in Clients : cl'[c].pc # "none"
      BY <1>0, <2>1, <2>3, <2>5
    <3> QED BY <1>2, <2>5, <3>1 DEF Spawn
  <2> QED BY <2>4, <2>5
<1>3. CASE AwaitInit
  BY <1>0, <1>3 DEF AwaitInit
<1>4. CASE Join
  BY <1>0, <1>4 DEF Join
<1>5. CASE JoinRethrows
  BY <1>5 DEF JoinRethrows
<1>6. CASE EndPhase
  <2>1. \A c \in Clients : cl[c].pc = "returned"
    BY <1>0, <1>6 DEF EndPhase
  <2>2. CASE phase = "load" /\ DoTransaction
    BY <1>6, <2>2 DEF EndPhase
  <2>3. CASE ~(phase = "load" /\ DoTransaction)
    <3>1. mpc' = "end" /\ UNCHANGED <<phase, mode, cl>>
      BY <1>6, <2>3 DEF EndPhase
    <3>2. phase = "txn" \/ ~DoTransaction
      BY <2>3 DEF TypeOK
    <3> QED BY <2>1, <3>1, <3>2
  <2> QED BY <2>2, <2>3
<1>7. ASSUME NEW c \in Clients, ClientStep(c) PROVE MainInv'
  BY <1>0, <1>7, ClientFrame
<1>8. CASE StatusStep
  BY <1>8 DEF StatusStep, StatusStart, StatusPrint, StatusWait
<1>9. CASE RateWait
  BY <1>9 DEF RateWait
<1>10. CASE UNCHANGED vars
  BY <1>10 DEF vars
<1> QED BY <1>1, <1>2, <1>3, <1>4, <1>5, <1>6, <1>7, <1>8, <1>9, <1>10 DEF Next, MainStep

(* Every step keeps the latches at the number of clients still to count them down. *)
LEMMA NextLatch == ASSUME DriverInv, [Next]_vars PROVE LatchInv'
<1> USE DEF DriverInv, LatchInv
<1>0. /\ IsFiniteSet(Waiting) /\ IsFiniteSet(Unfinished)
      /\ Cardinality(Waiting) \in Nat /\ Cardinality(Unfinished) \in Nat
      /\ init_latch \in Nat /\ latch \in Nat
  <2>1. IsFiniteSet(Waiting) /\ IsFiniteSet(Unfinished)
    BY ClientsFinite, FS_Subset DEF Waiting, Unfinished
  <2>2. init_latch \in Nat /\ latch \in Nat
    BY CountAssumption DEF TypeOK
  <2> QED BY <2>1, <2>2, FS_CardinalityType
<1>1. CASE BeginPhase
  <2>1. Waiting' = Clients /\ Unfinished' = Clients
    BY <1>1 DEF BeginPhase, NoClient, Waiting, Unfinished
  <2>2. N \in Nat
    BY CountAssumption
  <2> QED BY <1>1, <2>1, <2>2, ClientsFinite DEF BeginPhase, LatchCount
<1>2. CASE Spawn
  <2>1. next \in Clients /\ cl[next].pc = "none"
    BY <1>2, CountAssumption DEF Spawn, MainInv, TypeOK, Clients
  <2>2. /\ cl'[next].pc \in {"init", "thread"}
        /\ \A c \in Clients : c # next => cl'[c] = cl[c]
    BY <1>2, <2>1 DEF Spawn, TypeOK, Locals
  <2>3. Waiting' = Waiting /\ Unfinished' = Unfinished
    BY <2>1, <2>2 DEF Waiting, Unfinished
  <2> QED BY <1>2, <2>3 DEF Spawn
<1>3. CASE AwaitInit \/ Join \/ JoinRethrows \/ EndPhase
  <2>1. UNCHANGED <<cl, latch, init_latch>> /\ (mpc = "begin" => mpc' = "begin")
    BY <1>3 DEF AwaitInit, Join, JoinRethrows, EndPhase
  <2> QED BY <2>1 DEF Waiting, Unfinished
<1>4. ASSUME NEW c \in Clients, ClientInit(c) \/ Iterate(c) \/ ClientCleanup(c) PROVE LatchInv'
  <2>1. ClientStep(c)
    BY <1>4 DEF ClientStep
  <2>2. UNCHANGED <<latch, init_latch>> /\ cl'[c].pc # "returned"
    <3>1. cl[c] \in Locals
      BY DEF TypeOK
    <3>2. CASE ClientInit(c)
      BY <3>1, <3>2, SMTT(30) DEF ClientInit, TypeOK, Locals
    <3>3. CASE Iterate(c)
      BY <3>3, IterateEffect DEF Iterate
    <3>4. CASE ClientCleanup(c)
      BY <3>1, <3>4 DEF ClientCleanup, TypeOK, Locals
    <3> QED BY <1>4, <3>2, <3>3, <3>4
  <2>3. cl'[c].pc \in {"init", "thread"} => cl[c].pc = "init"
    <3>1. cl[c] \in Locals
      BY DEF TypeOK
    <3>2. CASE ClientInit(c)
      BY <3>2, SMTT(30) DEF ClientInit
    <3>3. CASE Iterate(c)
      BY <3>3, IterateEffect DEF Iterate
    <3>4. CASE ClientCleanup(c)
      BY <3>1, <3>4 DEF ClientCleanup, TypeOK, Locals
    <3> QED BY <1>4, <3>2, <3>3, <3>4
  <2>4. Waiting' \subseteq Waiting /\ Unfinished' = Unfinished
    BY <2>1, <2>2, <2>3, ClientFrame DEF Waiting, Unfinished
  <2>5. Cardinality(Waiting') \in Nat /\ Cardinality(Waiting') <= Cardinality(Waiting)
    BY <1>0, <2>4, FS_Subset, FS_CardinalityType
  <2> QED BY <1>0, <2>1, <2>2, <2>4, <2>5, ClientFrame
<1>5. ASSUME NEW c \in Clients, ClientReady(c) PROVE LatchInv'
  <2>1. ClientStep(c)
    BY <1>5 DEF ClientStep
  <2>2. cl[c].pc = "thread" /\ cl'[c].pc = "loop"
    BY <1>5 DEF ClientReady, TypeOK, Locals
  <2>3. Waiting' = Waiting \ {c} /\ Unfinished' = Unfinished /\ c \in Waiting
    BY <2>1, <2>2, ClientFrame DEF Waiting, Unfinished
  <2>4. Cardinality(Waiting') = Cardinality(Waiting) - 1
    BY <1>0, <2>3, FewerLeft
  <2> QED BY <1>0, <1>5, <2>1, <2>3, <2>4, ClientFrame DEF ClientReady, CountedDown
<1>6. ASSUME NEW c \in Clients, ClientReturn(c) PROVE LatchInv'
  <2>1. ClientStep(c)
    BY <1>6 DEF ClientStep
  <2>2. cl[c].pc = "latch" /\ cl'[c].pc = "returned"
    BY <1>6 DEF ClientReturn, TypeOK, Locals
  <2>3. Waiting' = Waiting /\ Unfinished' = Unfinished \ {c} /\ c \in Unfinished
    BY <2>1, <2>2, ClientFrame DEF Waiting, Unfinished
  <2>4. Cardinality(Unfinished') = Cardinality(Unfinished) - 1
    BY <1>0, <2>3, FewerLeft
  <2> QED BY <1>0, <1>6, <2>1, <2>3, <2>4, ClientFrame DEF ClientReturn, CountedDown
<1>7. CASE StatusStep \/ RateWait \/ UNCHANGED vars
  <2>1. UNCHANGED <<cl, latch, init_latch, mpc>>
    BY <1>7 DEF StatusStep, StatusStart, StatusPrint, StatusWait, RateWait, vars
  <2> QED BY <2>1 DEF Waiting, Unfinished
<1>8. ASSUME NEW c \in Clients, CleanupThrows(c) PROVE LatchInv'
  <2>1. UNCHANGED <<cl, latch, init_latch, mpc>>
    BY <1>8 DEF CleanupThrows
  <2> QED BY <2>1 DEF Waiting, Unfinished
<1> QED BY <1>1, <1>2, <1>3, <1>4, <1>5, <1>6, <1>7, <1>8 DEF Next, MainStep, ClientStep

(* Every step keeps what is known of a client's counters. *)
LEMMA NextClient == ASSUME DriverInv, [Next]_vars PROVE ClientInv'
<1> USE DEF DriverInv
<1> DEFINE Counts(l, g) ==
             /\ l.skipped <= l.oks
             /\ IF l.on THEN l.oks - l.skipped = g
                ELSE g = 0 /\ l.oks - l.skipped \in {0, 1}
           Holds(c, l, g) ==
             /\ Counts(l, g)
             /\ l.pc \in {"none", "init", "thread"} => l = [NoClient EXCEPT !.pc = l.pc] /\ g = 0
             /\ l.pc \in {"latch", "returned"} => l.i = ThreadOps(c)
             /\ l.i <= ThreadOps(c)
<1>a. /\ \A c \in Clients : Counts(cl[c], good[c])
      /\ mpc # "begin" => \A c \in Clients : Holds(c, cl[c], good[c])
  BY DEF ClientInv, Waiting
<1>b. ASSUME \/ UNCHANGED phase /\ \A c \in Clients : Holds(c, cl'[c], good'[c])
             \/ mpc' = "begin" /\ \A c \in Clients : Counts(cl'[c], good'[c])
      PROVE  ClientInv'
  BY <1>b DEF ClientInv, Waiting, ThreadOps, Total
<1>c. \A c \in Clients : ThreadOps(c) \in Nat
  BY ThreadOpsNat
<1>d. \A c \in Clients, p \in {"none", "init", "thread"} :
        Holds(c, [NoClient EXCEPT !.pc = p], 0)
  BY <1>c DEF NoClient
<1>e. ASSUME UNCHANGED <<phase, cl, good>>, mpc = "begin" => mpc' = "begin" PROVE ClientInv'
  BY <1>a, <1>b, <1>e
<1>1. CASE BeginPhase
  <2>1. NoClient = [NoClient EXCEPT !.pc = "none"]
    BY DEF NoClient
  <2> QED BY <1>1, <1>b, <1>d, <2>1 DEF BeginPhase
<1>2. CASE Spawn
  <2>1. next \in Clients /\ cl[next].pc = "none"
    BY <1>2, CountAssumption DEF Spawn, MainInv, TypeOK, Clients
  <2>2. PICK p \in {"init", "thread"} : cl' = [cl EXCEPT ![next].pc = p]
    BY <1>2 DEF Spawn
  <2>3. cl[next] = [NoClient EXCEPT !.pc = "none"] /\ good[next] = 0
    BY <1>2, <1>a, <2>1 DEF Spawn
  <2>4. cl'[next] = [NoClient EXCEPT !.pc = p]
    BY <2>1, <2>2, <2>3 DEF TypeOK, NoClient
  <2>5. \A c \in Clients : c # next => cl'[c] = cl[c]
    BY <2>1, <2>2 DEF TypeOK
  <2>6. Holds(next, cl'[next], good'[next])
    <3>1. good'[next] = 0 /\ p \in {"none", "init", "thread"}
      BY <1>2, <2>3 DEF Spawn
    <3> HIDE DEF Holds
    <3> QED BY <1>d, <2>1, <2>4, <3>1
  <2>7. mpc # "begin" /\ UNCHANGED <<phase, good>>
    BY <1>2 DEF Spawn
  <2> HIDE DEF Holds
  <2> QED BY <1>a, <1>b, <2>5, <2>6, <2>7
<1>3. CASE AwaitInit \/ Join \/ JoinRethrows
  BY <1>3, <1>e DEF AwaitInit, Join, JoinRethrows
<1>4. CASE EndPhase
  <2>1. UNCHANGED <<cl, good>> /\ mpc # "begin" /\ (mpc' # "begin" => UNCHANGED phase)
    BY <1>4 DEF EndPhase
  <2> HIDE DEF Holds, Counts
  <2> QED BY <1>a, <1>b, <2>1
<1>5. ASSUME NEW c \in Clients, ClientStep(c) PROVE ClientInv'
  <2>1. mpc # "begin" /\ UNCHANGED phase
    BY <1>5, ClientFrame
  <2>2. \A d \in Clients : d # c => cl'[d] = cl[d] /\ good'[d] = good[d]
    BY <1>5, ClientFrame
  <2>3. SUFFICES Holds(c, cl'[c], good'[c])
    <3> HIDE DEF Holds
    <3> QED BY <1>a, <1>b, <2>1, <2>2, <2>3
  <2>4. /\ Holds(c, cl[c], good[c])
        /\ cl \in [Clients -> Locals] /\ cl[c] \in Locals /\ good[c] \in Nat
        /\ ThreadOps(c) \in Nat
        /\ cl[c].i \in Nat /\ cl[c].oks \in Nat /\ cl[c].skipped \in Nat
    BY <1>a, <1>c, <2>1, LocalsFields DEF TypeOK
  <2>5. CASE ClientInit(c)
    <3>1. UNCHANGED good
      BY <2>5 DEF ClientInit
    <3>2. CASE UNCHANGED cl
      BY <2>4, <3>1, <3>2
    <3>3. CASE \E p \in {"thread", "threw"} : cl' = [cl EXCEPT ![c].pc = p]
      <4>1. PICK p \in {"thread", "threw"} : cl' = [cl EXCEPT ![c].pc = p]
        BY <3>3
      <4>2. cl[c] = [NoClient EXCEPT !.pc = "init"] /\ good[c] = 0
        BY <2>4, <2>5 DEF ClientInit
      <4>3. cl'[c] = [NoClient EXCEPT !.pc = p]
        BY <2>4, <4>1, <4>2 DEF NoClient
      <4> QED BY <2>4, <3>1, <4>2, <4>3 DEF NoClient
    <3> QED BY <2>5, <3>2, <3>3 DEF ClientInit
  <2>6. CASE ClientReady(c)
    <3>1. cl[c] = [NoClient EXCEPT !.pc = "thread"] /\ good[c] = 0 /\ good' = good
      BY <2>4, <2>6 DEF ClientReady
    <3>2. cl'[c] = [cl[c] EXCEPT !.pc = "loop", !.on = ~Skip]
      BY <2>4, <2>6 DEF ClientReady
    <3>3. /\ cl'[c].pc = "loop" /\ cl'[c].i = 0 /\ cl'[c].oks = 0 /\ cl'[c].skipped = 0
      BY <3>1, <3>2 DEF NoClient
    <3> QED BY <2>4, <3>1, <3>3
  <2>7. CASE Iterate(c)
    <3>1. cl[c].pc = "loop" /\ cl[c].i < ThreadOps(c) /\ cl'[c].pc \in {"loop", "threw"}
      BY <2>7, IterateEffect
    <3>2. CASE cl'[c] = cl[c] /\ good'[c] = good[c]
      BY <2>4, <3>2
    <3>3. CASE \E on \in BOOLEAN, e, k \in {0, 1} :
                 /\ cl[c].on => on
                 /\ e <= k
                 /\ cl'[c].on = on /\ cl'[c].skipped = SkippedOk(cl[c])
                 /\ cl'[c].i = cl[c].i + k /\ cl'[c].oks = cl[c].oks + e
                 /\ good'[c] = good[c] + (IF on THEN e ELSE 0)
      <4>1. PICK on \in BOOLEAN, e \in {0, 1}, k \in {0, 1} :
               /\ cl[c].on => on
               /\ e <= k
               /\ cl'[c].on = on /\ cl'[c].skipped = SkippedOk(cl[c])
               /\ cl'[c].i = cl[c].i + k /\ cl'[c].oks = cl[c].oks + e
               /\ good'[c] = good[c] + (IF on THEN e ELSE 0)
        BY <3>3
      <4>2. cl'[c].i <= ThreadOps(c)
        BY <2>4, <3>1, <4>1
      <4>3. CASE cl[c].on
        <5>1. /\ cl'[c].on /\ cl'[c].skipped = cl[c].skipped
              /\ good'[c] = good[c] + e
          BY <4>1, <4>3 DEF SkippedOk
        <5>2. cl[c].skipped <= cl[c].oks /\ cl[c].oks - cl[c].skipped = good[c]
          BY <2>4, <4>3
        <5>3. cl'[c].skipped <= cl'[c].oks /\ cl'[c].oks - cl'[c].skipped = good'[c]
          BY <2>4, <4>1, <5>1, <5>2
        <5> QED BY <3>1, <4>2, <5>1, <5>3
      <4>4. CASE ~cl[c].on
        <5>1. /\ cl'[c].skipped = cl[c].oks /\ good[c] = 0
              /\ cl'[c].oks = cl[c].oks + e
          BY <2>4, <4>1, <4>4 DEF SkippedOk
        <5>2. cl'[c].skipped <= cl'[c].oks /\ cl'[c].oks - cl'[c].skipped = e
          BY <2>4, <5>1
        <5>3. good'[c] = IF on THEN e ELSE 0
          BY <4>1, <5>1
        <5> QED BY <3>1, <4>1, <4>2, <5>2, <5>3
      <4> QED BY <4>3, <4>4
    <3> QED BY <2>7, <3>2, <3>3, IterateEffect
  <2>8. CASE ClientCleanup(c)
    <3>1. /\ cl'[c].pc = "latch" /\ cl'[c].i = cl[c].i /\ cl'[c].oks = cl[c].oks
          /\ cl'[c].skipped = cl[c].skipped /\ cl'[c].on = cl[c].on /\ good' = good
          /\ cl[c].i >= ThreadOps(c)
      BY <2>4, <2>8 DEF ClientCleanup, Locals
    <3> QED BY <2>4, <3>1
  <2>9. CASE ClientReturn(c)
    <3>1. /\ cl'[c].pc = "returned" /\ cl'[c].i = cl[c].i /\ cl'[c].oks = cl[c].oks
          /\ cl'[c].skipped = cl[c].skipped /\ cl'[c].on = cl[c].on /\ good' = good
          /\ cl[c].pc = "latch"
      BY <2>4, <2>9 DEF ClientReturn, Locals
    <3> QED BY <2>4, <3>1
  <2>10. CASE CleanupThrows(c)
    <3>1. UNCHANGED <<cl, good>>
      BY <2>10 DEF CleanupThrows
    <3> QED BY <2>4, <3>1
  <2> QED BY <1>5, <2>5, <2>6, <2>7, <2>8, <2>9, <2>10 DEF ClientStep
<1>6. CASE StatusStep \/ RateWait \/ UNCHANGED vars
  BY <1>6, <1>e DEF StatusStep, StatusStart, StatusPrint, StatusWait, RateWait, vars
<1> QED BY <1>1, <1>2, <1>3, <1>4, <1>5, <1>6 DEF Next, MainStep

(* Every step keeps each database with its client's place in the code. *)
LEMMA NextDb == ASSUME DriverInv, [Next]_vars PROVE DbInv'
<1> USE DEF DriverInv, DbInv, InitDb, CleanupDb, DoLoad, DoTransaction, ReInit
<1>1. CASE BeginPhase
  BY <1>1 DEF BeginPhase, NoClient
<1>2. CASE Spawn
  <2>1. next \in Clients /\ cl[next].pc = "none"
    BY <1>2, CountAssumption DEF Spawn, MainInv, TypeOK, Clients
  <2>2. /\ cl'[next].pc = IF InitDb THEN "init" ELSE "thread"
        /\ \A c \in Clients : c # next => cl'[c] = cl[c]
    BY <1>2, <2>1 DEF Spawn, TypeOK, Locals
  <2>3. UNCHANGED <<db, mode, reinit, phase>> /\ mpc # "begin" /\ mpc' # "begin"
    BY <1>2 DEF Spawn
  <2> QED BY <2>1, <2>2, <2>3
<1>3. CASE AwaitInit \/ Join \/ JoinRethrows
  BY <1>3 DEF AwaitInit, Join, JoinRethrows
<1>4. CASE EndPhase
  <2>1. \A c \in Clients : cl[c].pc = "returned"
    BY <1>4, CountAssumption DEF EndPhase, MainInv, Clients
  <2>2. CASE phase = "load" /\ DoTransaction
    BY <1>4, <2>1, <2>2 DEF EndPhase, MainInv
  <2>3. CASE ~(phase = "load" /\ DoTransaction)
    BY <1>4, <2>1, <2>3 DEF EndPhase
  <2> QED BY <2>2, <2>3
<1>5. ASSUME NEW c \in Clients, ClientStep(c) PROVE DbInv'
  <2>1. /\ mpc \notin {"begin", "end"} /\ UNCHANGED <<mode, reinit, phase, mpc>>
        /\ \A d \in Clients : d # c => cl'[d] = cl[d] /\ db'[d] = db[d]
        /\ cl'[c].pc # "none"
    BY <1>5, ClientFrame
  <2>2. /\ cl'[c].pc = "init" => db'[c] = "closed"
        /\ cl'[c].pc \in {"thread", "loop"} => db'[c] = "open"
        /\ cl'[c].pc \in {"latch", "returned"} => db'[c] = IF CleanupDb THEN "closed" ELSE "open"
    <3>1. CASE ClientInit(c)
      BY <2>1, <3>1 DEF ClientInit, TypeOK, Locals
    <3>2. CASE ClientReady(c)
      BY <2>1, <3>2, SMTT(30) DEF ClientReady, TypeOK, Locals
    <3>3. CASE Iterate(c)
      BY <2>1, <3>3, IterateEffect DEF Iterate
    <3>4. CASE ClientCleanup(c)
      BY <2>1, <3>4 DEF ClientCleanup, TypeOK, Locals
    <3>5. CASE ClientReturn(c)
      BY <2>1, <3>5 DEF ClientReturn, TypeOK, Locals
    <3>6. CASE CleanupThrows(c)
      BY <2>1, <3>6 DEF CleanupThrows
    <3> QED BY <1>5, <3>1, <3>2, <3>3, <3>4, <3>5, <3>6 DEF ClientStep
  <2> QED BY <2>1, <2>2
<1>6. CASE StatusStep \/ RateWait \/ UNCHANGED vars
  BY <1>6 DEF StatusStep, StatusStart, StatusPrint, StatusWait, RateWait, vars
<1> QED BY <1>1, <1>2, <1>3, <1>4, <1>5, <1>6 DEF Next, MainStep

(* Every step keeps the status and rate-file threads with main's place in the code. *)
LEMMA NextHelper == ASSUME DriverInv, [Next]_vars PROVE HelperInv'
<1> USE CountAssumption DEF DriverInv, HelperInv
<1>0. latch \in Nat /\ lines \in Nat /\ RateLines \in Nat /\ done \in BOOLEAN
  BY DEF TypeOK
<1>1. CASE BeginPhase
  BY <1>1 DEF BeginPhase
<1>2. CASE Spawn
  BY <1>0, <1>2 DEF Spawn, MainInv
<1>3. CASE AwaitInit \/ Join \/ JoinRethrows \/ EndPhase
  BY <1>3 DEF AwaitInit, Join, JoinRethrows, EndPhase
<1>4. ASSUME NEW c \in Clients, ClientStep(c) PROVE HelperInv'
  <2>1. UNCHANGED <<done, spc, rpc, lines>>
    BY <1>4, ClientFrame
  <2>2. UNCHANGED latch \/ latch > 0
    BY <1>4, LatchesUp
    DEF ClientStep, ClientInit, ClientReady, Iterate, ClientCleanup, CleanupThrows, ClientReturn
  <2> QED BY <1>0, <2>1, <2>2
<1>5. CASE StatusStep
  BY <1>0, <1>5 DEF StatusStep, StatusStart, StatusPrint, StatusWait
<1>6. CASE RateWait
  BY <1>0, <1>6 DEF RateWait
<1>7. CASE UNCHANGED vars
  BY <1>7 DEF vars
<1> QED BY <1>1, <1>2, <1>3, <1>4, <1>5, <1>6, <1>7 DEF Next, MainStep

(* Main leaves a phase only when no thread uses its latches any more. *)
LEMMA NextOutlive == ASSUME DriverInv, [Next]_vars PROVE LatchesOutliveThreads'
<1> USE DEF DriverInv, LatchesOutliveThreads
<1>1. CASE BeginPhase \/ Spawn
  BY <1>1 DEF BeginPhase, Spawn
<1>2. CASE AwaitInit \/ Join \/ JoinRethrows
  BY <1>2 DEF AwaitInit, Join, JoinRethrows
<1>3. CASE EndPhase
  <2>1. \A c \in Clients : cl[c].pc = "returned"
    BY <1>3, CountAssumption DEF EndPhase, MainInv, Clients
  <2> QED BY <1>3, <2>1 DEF EndPhase, HelpersGone
<1>4. ASSUME NEW c \in Clients, ClientStep(c) PROVE LatchesOutliveThreads'
  BY <1>4, ClientFrame
<1>5. CASE StatusStep
  BY <1>5 DEF StatusStep, StatusStart, StatusPrint, StatusWait
<1>6. CASE RateWait
  BY <1>6 DEF RateWait
<1>7. CASE UNCHANGED vars
  BY <1>7 DEF vars
<1> QED BY <1>1, <1>2, <1>3, <1>4, <1>5, <1>6, <1>7 DEF Next, MainStep

(* When no client is unfinished, every operation of the phase was executed. *)
LEMMA FinishedIsComplete ==
    ASSUME DriverInv, mpc # "begin", Unfinished = {}
    PROVE  OpsDone = Total
<1>1. \A c \in Clients : cl[c].i = ThreadOps(c)
  BY DEF DriverInv, ClientInv, Unfinished
<1> QED BY <1>1, SharesAddUp DEF DriverInv

(* A latch that is open has been counted down by every client. *)
LEMMA OpenLatchIsFinished ==
    ASSUME DriverInv, mpc # "begin", latch = 0
    PROVE  Unfinished = {}
<1>1. IsFiniteSet(Unfinished)
  BY ClientsFinite, FS_Subset DEF Unfinished
<1>2. Cardinality(Unfinished) = 0
  BY DEF DriverInv, LatchInv
<1> QED BY <1>1, <1>2, FS_EmptySet

(* The status thread's last message comes after that. *)
LEMMA NextStatus == ASSUME DriverInv, [Next]_vars PROVE LastStatusComplete'
<1> USE DEF DriverInv, LastStatusComplete, Total
<1>1. CASE BeginPhase
  BY <1>1 DEF BeginPhase
<1>2. CASE Spawn \/ AwaitInit \/ Join \/ JoinRethrows \/ EndPhase
  BY <1>2 DEF Spawn, AwaitInit, Join, JoinRethrows, EndPhase
<1>3. ASSUME NEW c \in Clients, ClientStep(c) PROVE LastStatusComplete'
  BY <1>3, ClientFrame
<1>4. CASE StatusStart \/ StatusWait
  BY <1>4 DEF StatusStart, StatusWait
<1>5. CASE StatusPrint
  <2>1. mpc # "begin"
    BY <1>5 DEF StatusPrint, LatchesOutliveThreads
  <2>2. done => OpsDone = Total
    BY <2>1, OpenLatchIsFinished, FinishedIsComplete DEF HelperInv
  <2>3. spc' = "closed" => done
    BY <1>5 DEF StatusPrint
  <2> QED BY <1>5, <2>2, <2>3 DEF StatusPrint
<1>6. CASE RateWait \/ UNCHANGED vars
  BY <1>6 DEF RateWait, vars
<1> QED BY <1>1, <1>2, <1>3, <1>4, <1>5, <1>6 DEF Next, MainStep, StatusStep

(* All of the invariant is kept. *)
LEMMA NextInv == ASSUME DriverInv, [Next]_vars PROVE DriverInv'
BY NextType, NextMain, NextLatch, NextClient, NextDb, NextHelper, NextOutlive, NextStatus, Zenon
DEF DriverInv

-----------------------------------------------------------------------------
(* 4. The theorems. *)

(***************************************************************************)
(* DriverInv, and with it the types of all of the driver's state, holds in *)
(* every state that main, its clients, the status and the rate thread can  *)
(* reach, however many clients there are.                                  *)
(***************************************************************************)
THEOREM DriverInvariant == Spec => []DriverInv
<1>1. Init => DriverInv
  BY InitInv
<1>2. DriverInv /\ [Next]_vars => DriverInv'
  BY NextInv
<1> QED BY <1>1, <1>2, PTL DEF Spec

(***************************************************************************)
(* Once main has joined every client of a phase, recordcount               *)
(* (operationcount) operations were executed, for every division of them   *)
(* among the threads.                                                      *)
(***************************************************************************)
THEOREM AllOpsAreExecuted == Spec => []AllOpsExecuted
<1>1. DriverInv => AllOpsExecuted
  <2> SUFFICES ASSUME DriverInv, mpc = "join", next = N PROVE OpsDone = Total
    BY DEF AllOpsExecuted
  <2>1. Unfinished = {}
    BY CountAssumption DEF DriverInv, MainInv, Unfinished, Clients
  <2> QED BY <2>1, FinishedIsComplete
<1> QED BY <1>1, DriverInvariant, PTL

(***************************************************************************)
(* The last message of the status thread covers every operation: it prints *)
(* once more after AwaitFor has seen the latch open.                       *)
(***************************************************************************)
THEOREM LastStatusIsComplete == Spec => []LastStatusComplete
<1>1. DriverInv => LastStatusComplete
  BY DEF DriverInv
<1> QED BY <1>1, DriverInvariant, PTL

(***************************************************************************)
(* No thread that holds a pointer to a latch on main's stack is left when  *)
(* main leaves the block the latch lives in.                               *)
(***************************************************************************)
THEOREM LatchesAreOutlived == Spec => []LatchesOutliveThreads
<1>1. DriverInv => LatchesOutliveThreads
  BY DEF DriverInv
<1> QED BY <1>1, DriverInvariant, PTL

(***************************************************************************)
(* ClientThread returns the successful operations after the skip period,   *)
(* or one more if the period never ended.                                  *)
(***************************************************************************)
THEOREM ReturnsAreOpsAfterSkip == Spec => []ReturnsOpsAfterSkip
<1>1. DriverInv => ReturnsOpsAfterSkip
  <2> SUFFICES ASSUME DriverInv, NEW c \in Clients, cl[c].pc = "returned"
               PROVE  /\ cl[c].oks - cl[c].skipped \in {good[c], good[c] + 1}
                      /\ cl[c].on => cl[c].oks - cl[c].skipped = good[c]
    BY DEF ReturnsOpsAfterSkip
  <2>1. good[c] \in Nat /\ cl[c].oks \in Nat /\ cl[c].skipped \in Nat
    BY LocalsFields DEF DriverInv, TypeOK
  <2>2. IF cl[c].on THEN cl[c].oks - cl[c].skipped = good[c]
        ELSE good[c] = 0 /\ cl[c].oks - cl[c].skipped \in {0, 1}
    BY DEF DriverInv, ClientInv
  <2> QED BY <2>1, <2>2
<1> QED BY <1>1, DriverInvariant, PTL

(***************************************************************************)
(* In both phases, and whatever ReInitBeforeTransaction returns, each DB   *)
(* object is initialised before it is used, not twice in a row, and is     *)
(* cleaned up in the end.                                                  *)
(***************************************************************************)
THEOREM DbsAreBracketed == Spec => []DbBracketed
<1>1. DriverInv => DbBracketed
  <2> SUFFICES ASSUME DriverInv PROVE DbBracketed
    OBVIOUS
  <2>1. \A c \in Clients : /\ cl[c].pc = "init" => db[c] = "closed"
                           /\ cl[c].pc = "loop" => db[c] = "open"
    BY DEF DriverInv, DbInv, LatchesOutliveThreads
  <2>2. mpc = "end" => \A c \in Clients : db[c] = "closed"
    BY DEF DriverInv, DbInv, MainInv, Unfinished, CleanupDb
  <2> QED BY <2>1, <2>2 DEF DbBracketed
<1> QED BY <1>1, DriverInvariant, PTL

-----------------------------------------------------------------------------
(* 5. The shared handle of the embedded stores. *)

OpenDbs == {c \in Clients : db[c] = "open"}

(***************************************************************************)
(* The inductive invariant: the count is that of the open DB objects, a    *)
(* handle nobody counts is not live, one that somebody counts is live      *)
(* unless a pointer guard was fooled by a dangling pointer, and the        *)
(* pointer is null only until the first Init.                              *)
(***************************************************************************)
RcInv ==
    /\ guard \in {"pointer", "count"} /\ handle \in {"null", "live", "freed"}
    /\ ref_cnt = Cardinality(OpenDbs)
    /\ ref_cnt = 0 => handle # "live"
    /\ guard = "count" \/ ~reopened => (ref_cnt # 0 => handle = "live")
    /\ handle = "null" => ref_cnt = 0 /\ \A c \in Clients : cl[c].pc \in {"none", "init"}

-----------------------------------------------------------------------------
(* With a shared handle the driver takes its own steps and no others. *)
LEMMA RcStepIsDriverStep == [RcNext]_allvars => [Next]_vars
<1> SUFFICES ASSUME [RcNext]_allvars PROVE [Next]_vars
  OBVIOUS
<1>1. CASE MainStep
  BY <1>1 DEF Next
<1>2. ASSUME NEW c \in Clients,
             \/ DbInit(c) \/ DbCleanup(c)
             \/ ClientReady(c) \/ Iterate(c) \/ CleanupThrows(c) \/ ClientReturn(c)
      PROVE  Next
  BY <1>2 DEF Next, ClientStep, DbInit, DbCleanup
<1>3. CASE UNCHANGED allvars
  BY <1>3 DEF allvars
<1> QED BY <1>1, <1>2, <1>3 DEF RcNext

(* The open DB objects can be counted. *)
LEMMA OpenDbsFinite ==
    IsFiniteSet(OpenDbs) /\ Cardinality(OpenDbs) \in Nat /\ (Cardinality(OpenDbs) = 0 <=> OpenDbs = {})
<1>1. IsFiniteSet(OpenDbs)
  BY ClientsFinite, FS_Subset DEF OpenDbs
<1> QED BY <1>1, FS_CardinalityType, FS_EmptySet

(* The invariant holds when the process begins. *)
LEMMA RcInitInv == RcInit => RcInv
<1> SUFFICES ASSUME RcInit PROVE RcInv
  OBVIOUS
<1>1. OpenDbs = {}
  BY DEF RcInit, Init, OpenDbs
<1>2. Cardinality(OpenDbs) = 0
  BY <1>1, FS_EmptySet
<1>3. guard \in {"pointer", "count"}
  BY GuardAssumption DEF RcInit
<1>4. \A c \in Clients : cl[c].pc = "none"
  BY DEF RcInit, Init, NoClient
<1> QED BY <1>2, <1>3, <1>4 DEF RcInit, RcInv

(* Every Init and Cleanup keeps the invariant, and so does what leaves the handle alone. *)
LEMMA RcNextInv == ASSUME DriverInv, RcInv, [RcNext]_allvars PROVE RcInv'
<1> USE DEF RcInv
<1>0. ref_cnt \in Nat
  BY OpenDbsFinite
<1>1. ASSUME UNCHANGED <<db, rcvars>>,
             handle = "null" => \A c \in Clients : cl'[c].pc \in {"none", "init"}
      PROVE  RcInv'
  BY <1>1 DEF OpenDbs, rcvars
<1>2. CASE MainStep /\ UNCHANGED rcvars
  <2>1. UNCHANGED db
    BY <1>2 DEF MainStep, BeginPhase, Spawn, AwaitInit, Join, JoinRethrows, EndPhase
  <2>2. ASSUME handle = "null", NEW c \in Clients PROVE cl'[c].pc \in {"none", "init"}
    <3>1. OpenDbs = {}
      BY <2>2, OpenDbsFinite
    <3>2. CASE BeginPhase
      BY <3>2 DEF BeginPhase, NoClient
    <3>3. CASE Spawn
      <4>1. next \in Clients /\ cl[next].pc = "none"
        BY <3>3, CountAssumption DEF Spawn, DriverInv, MainInv, TypeOK, Clients
      <4>2. InitDb
        BY <3>1, <4>1 DEF DriverInv, DbInv, OpenDbs
      <4> QED BY <2>2, <3>3, <4>1, <4>2 DEF Spawn, DriverInv, TypeOK, Locals
    <3>4. CASE AwaitInit \/ Join \/ JoinRethrows \/ EndPhase
      BY <2>2, <3>4 DEF AwaitInit, Join, JoinRethrows, EndPhase
    <3> QED BY <1>2, <3>2, <3>3, <3>4 DEF MainStep
  <2> QED BY <1>1, <1>2, <2>1, <2>2
<1>3. ASSUME NEW c \in Clients, DbInit(c) PROVE RcInv'
  <2>1. ClientInit(c) /\ ClientStep(c)
    BY <1>3 DEF DbInit, ClientStep
  <2>2. cl[c].pc = "init" /\ db[c] = "closed"
    BY <2>1, ClientFrame DEF ClientInit, DriverInv, DbInv
  <2>3. CASE db'[c] = "open"
    <3>1. OpenDbs' = OpenDbs \cup {c} /\ c \notin OpenDbs
      BY <2>1, <2>2, <2>3, ClientFrame DEF OpenDbs
    <3>2. Cardinality(OpenDbs') = Cardinality(OpenDbs) + 1
      BY <3>1, OpenDbsFinite, FS_AddElement
    <3>3. /\ ref_cnt' = ref_cnt + 1 /\ guard' = guard
          /\ handle' = IF AlreadyOpen THEN handle ELSE "live"
          /\ reopened' = (reopened \/ handle = "freed")
      BY <1>3, <2>3 DEF DbInit, Taken
    <3>4. handle' # "null"
      BY <3>3 DEF AlreadyOpen
    <3>5. guard' = "count" \/ ~reopened' => handle' = "live"
      BY <3>3 DEF AlreadyOpen
    <3>6. handle' \in {"null", "live", "freed"} /\ ref_cnt' # 0 /\ ref_cnt' = Cardinality(OpenDbs')
      BY <1>0, <3>2, <3>3
    <3> QED BY <3>3, <3>4, <3>5, <3>6
  <2>4. CASE db'[c] # "open"
    <3>1. UNCHANGED rcvars
      BY <1>3, <2>4 DEF DbInit
    <3>2. UNCHANGED <<db, cl>>
      BY <2>1, <2>4, GuardAssumption DEF ClientInit, DriverInv, TypeOK
    <3> QED BY <1>1, <3>1, <3>2
  <2> QED BY <2>3, <2>4
<1>4. ASSUME NEW c \in Clients, DbCleanup(c) PROVE RcInv'
  <2>1. ClientCleanup(c) /\ ClientStep(c)
    BY <1>4 DEF DbCleanup, ClientStep
  <2>2. cl[c].pc = "loop" /\ db[c] = "open" /\ handle # "null"
    BY <2>1, ClientFrame DEF ClientCleanup, DriverInv, DbInv
  <2>3. CASE CleanupDb
    <3>1. OpenDbs' = OpenDbs \ {c} /\ c \in OpenDbs
      <4>1. db'[c] = "closed"
        BY <2>1, <2>3 DEF ClientCleanup, DriverInv, TypeOK
      <4> QED BY <2>1, <2>2, <4>1, ClientFrame DEF OpenDbs
    <3>2. Cardinality(OpenDbs') = Cardinality(OpenDbs) - 1
      BY <3>1, OpenDbsFinite, FewerLeft
    <3>3. /\ ref_cnt' = ref_cnt - 1 /\ UNCHANGED <<guard, reopened>>
          /\ handle' = IF ref_cnt - 1 = 0 THEN "freed" ELSE handle
      BY <1>4, <2>3 DEF DbCleanup, Closes
    <3>4. ref_cnt' = Cardinality(OpenDbs') /\ ref_cnt # 0 /\ handle' # "null"
      BY <2>2, <3>1, <3>2, <3>3, OpenDbsFinite
    <3> QED BY <1>0, <3>3, <3>4
  <2>4. CASE ~CleanupDb
    <3>1. UNCHANGED <<db, rcvars>>
      BY <1>4, <2>1, <2>4 DEF DbCleanup, ClientCleanup
    <3> QED BY <1>1, <2>2, <3>1
  <2> QED BY <2>3, <2>4
<1>5. ASSUME NEW c \in Clients, UNCHANGED rcvars,
             ClientReady(c) \/ Iterate(c) \/ CleanupThrows(c) \/ ClientReturn(c)
      PROVE  RcInv'
  <2>1. UNCHANGED db
    BY <1>5 DEF ClientReady, Iterate, CleanupThrows, ClientReturn
  <2>2. handle # "null"
    BY <1>5 DEF ClientReady, Iterate, CleanupThrows, ClientReturn
  <2> QED BY <1>1, <1>5, <2>1, <2>2
<1>6. CASE UNCHANGED allvars
  BY <1>1, <1>6 DEF allvars, vars
<1> QED BY <1>2, <1>3, <1>4, <1>5, <1>6 DEF RcNext

-----------------------------------------------------------------------------
(***************************************************************************)
(* The invariants of the driver and of the handle, together.               *)
(***************************************************************************)
THEOREM RcInvariant == RcSpec => [](DriverInv /\ RcInv)
<1>1. RcInit => DriverInv /\ RcInv
  BY InitInv, RcInitInv DEF RcInit
<1>2. DriverInv /\ RcInv /\ [RcNext]_allvars => (DriverInv /\ RcInv)'
  BY NextInv, RcNextInv, RcStepIsDriverStep
<1> QED BY <1>1, <1>2, PTL DEF RcSpec

(***************************************************************************)
(* From the first Init on, the handle of a DB object that is open is live: *)
(* for a guard on the count always, for a guard on the pointer as long as  *)
(* no Init follows the Cleanup that closed it.                             *)
(***************************************************************************)
THEOREM HandleIsLiveUnlessReopened == RcSpec => []HandleLiveUnlessReopened
<1>1. RcInv => HandleLiveUnlessReopened
  <2> SUFFICES ASSUME RcInv, guard = "count" \/ ~reopened, NEW c \in Clients, db[c] = "open"
               PROVE  handle = "live"
    BY DEF HandleLiveUnlessReopened, HandleLive
  <2>1. OpenDbs # {}
    BY DEF OpenDbs
  <2> QED BY <2>1, OpenDbsFinite DEF RcInv
<1> QED BY <1>1, RcInvariant, PTL

(***************************************************************************)
(* ref_cnt_ counts the open DB objects through both phases, and when main  *)
(* is through, the last Cleanup has closed the handle.                     *)
(***************************************************************************)
THEOREM ReferencesAreBalanced == RcSpec => []ReferencesBalanced
<1>1. DriverInv /\ RcInv => ReferencesBalanced
  <2> SUFFICES ASSUME DriverInv, RcInv PROVE ReferencesBalanced
    OBVIOUS
  <2>1. ref_cnt = Cardinality({c \in Clients : db[c] = "open"})
    BY DEF RcInv, OpenDbs
  <2>2. ASSUME mpc = "end" PROVE handle = "freed"
    <3>1. \A c \in Clients : cl[c].pc = "returned" /\ db[c] = "closed"
      BY <2>2 DEF DriverInv, MainInv, DbInv, Unfinished, CleanupDb
    <3>2. OpenDbs = {}
      BY <3>1 DEF OpenDbs
    <3>3. 0 \in Clients
      BY CountAssumption DEF Clients
    <3>4. handle # "null"
      BY <3>1, <3>3 DEF RcInv
    <3> QED BY <3>2, <3>4, OpenDbsFinite DEF RcInv
  <2> QED BY <2>1, <2>2 DEF ReferencesBalanced
<1> QED BY <1>1, RcInvariant, PTL

-----------------------------------------------------------------------------
(* 6. The eRPC end point. *)

(* uint8_t counts to 256: with more clients than that, ids repeat. *)
EnoughIds == IdRange > 1 /\ N <= IdRange

Epcs == {"idle", "id", "nexus", "create", "rpc", "count", "drop", "null"}

(* The clients that global_rpc_id_ counts, and those that close the Nexus. *)
Holders == {c \in Clients : \/ epc[c] \in {"nexus", "create", "rpc", "count"}
                            \/ epc[c] = "idle" /\ db[c] = "open"}
Closing == {c \in Clients : epc[c] \in {"drop", "null"}}

(* No Cleanup of the phase has begun. *)
Growing == \A c \in Clients : ~InCleanup(c) /\ (Cleaned(c) => mpc = "begin")

EType ==
    /\ made \in Nat /\ nexus \in 0 .. made
    /\ epc \in [Clients -> Epcs]
    /\ rpc_obj \in [Clients -> [id : Nat, nexus : Nat]]

(* Where a client is in Init and Cleanup, and where the driver has it. *)
LinkInv ==
    /\ \A c \in Clients : /\ InInit(c) => cl[c].pc = "init"
                          /\ InCleanup(c) =>
                               cl[c].pc = "loop" /\ cl[c].i >= ThreadOps(c) /\ CleanupDb
    /\ locked => \A c, d \in Clients : InInit(c) /\ InInit(d) => c = d

CountInv == global_rpc_id = Cardinality(Holders) % IdRange

(* Ids are given out upwards while no Cleanup gives one back. *)
IdInv ==
    /\ (\E c \in Clients : InInit(c)) => Growing
    /\ \A c, d \in Holders :
         epc[c] # "count" /\ epc[d] # "count" /\ rpc_obj[c].id = rpc_obj[d].id => c = d
    /\ Growing => \A c \in Holders : rpc_obj[c].id < Cardinality(Holders)

(* Only the last client closes the Nexus, and only a Nexus nobody uses. *)
NexusInv ==
    /\ Closing # {} => Holders = {} /\ nexus # 0
    /\ \A c, d \in Closing : c = d
    /\ nexus # 0 => Holders # {} \/ Closing # {}
    /\ \A c \in Holders : epc[c] \notin {"nexus", "create"} => nexus # 0
    /\ deleted \subseteq 1 .. made
    /\ nexus \in deleted => \E c \in Clients : epc[c] = "null"
    /\ \A c \in Clients : HasRpc(c) =>
         epc[c] = "idle" /\ db[c] = "open" /\ rpc_obj[c].nexus \notin deleted

(* Behind the lock each Nexus is deleted before another one is made. *)
LockInv ==
    locked =>
        /\ \A c \in Clients : /\ HasRpc(c) => rpc_obj[c].nexus = nexus
                              /\ epc[c] = "create" => nexus = 0
        /\ nexus \in {0, made}
        /\ deleted = IF nexus = 0 \/ \E c \in Clients : epc[c] = "null"
                     THEN 1 .. made ELSE 1 .. (made - 1)

ErpcInv == /\ EType /\ LinkInv /\ CountInv
           /\ ~mixed => IdInv /\ NexusInv /\ LockInv

-----------------------------------------------------------------------------
(* 6.1 What the steps do. *)

(* Over eRPC the driver takes its own steps and no others. *)
LEMMA EStepIsDriverStep == [ENext]_nexusvars => [Next]_vars
<1> SUFFICES ASSUME [ENext]_nexusvars PROVE [Next]_vars
  OBVIOUS
<1>1. CASE MainStep
  BY <1>1 DEF Next
<1>2. ASSUME NEW c \in Clients,
             \/ EnterInit(c) \/ TakeId(c) \/ TestNexus(c) \/ CreateNexus(c) \/ DeleteRpc(c)
             \/ DeleteNexus(c)
      PROVE  UNCHANGED vars
  BY <1>2 DEF EnterInit, TakeId, TestNexus, CreateNexus, DeleteRpc, DeleteNexus
<1>3. ASSUME NEW c \in Clients,
             \/ CreateRpc(c) \/ NullNexus(c) \/ SkipCleanup(c) \/ ClientReady(c) \/ Iterate(c)
             \/ ClientReturn(c)
      PROVE  Next
  BY <1>3 DEF Next, ClientStep, CreateRpc, NullNexus, SkipCleanup
<1>4. ASSUME NEW c \in Clients, CountDownId(c) PROVE [Next]_vars
  <2>1. UNCHANGED vars \/ ClientCleanup(c)
    BY <1>4 DEF CountDownId
  <2> QED BY <2>1 DEF Next, ClientStep
<1>5. CASE UNCHANGED nexusvars
  BY <1>5 DEF nexusvars
<1> QED BY <1>1, <1>2, <1>3, <1>4, <1>5 DEF ENext

(* Client c goes from p to q, and nobody else moves. *)
Moves(c, p, q) ==
    /\ epc[c] = p /\ epc'[c] = q
    /\ \A d \in Clients \ {c} : epc'[d] = epc[d]
    /\ epc' \in [Clients -> Epcs]

(* A step of one client's Init or Cleanup. *)
LEMMA Moving ==
    ASSUME EType, NEW c \in Clients, NEW q \in Epcs, epc' = [epc EXCEPT ![c] = q]
    PROVE  Moves(c, epc[c], q)
BY DEF EType, Moves

(* A driver that stands still keeps what the invariant takes from it. *)
LEMMA StandStill ==
    ASSUME UNCHANGED vars
    PROVE  /\ UNCHANGED <<cl, db, mpc>>
           /\ CleanupDb' = CleanupDb /\ \A c \in Clients : ThreadOps(c)' = ThreadOps(c)
           /\ \A c \in Clients : Cleaned(c)' = Cleaned(c)
BY DEF vars, CleanupDb, DoTransaction, ReInit, ThreadOps, Total, Cleaned

(* A client begins Init, behind the lock if there is one. *)
LEMMA EnterEffect ==
    ASSUME DriverInv, EType, NEW c \in Clients, EnterInit(c)
    PROVE  /\ UNCHANGED <<vars, locked, global_rpc_id, nexus, made, deleted, rpc_obj>>
           /\ Moves(c, "idle", "id") /\ cl[c].pc = "init" /\ db[c] = "closed"
           /\ Holders' = Holders /\ Closing' = Closing
           /\ locked => \A d \in Clients : ~InInit(d)
           /\ ~mixed' => ~mixed /\ \A d \in Clients : ~InCleanup(d) /\ ~Cleaned(d)
<1>1. /\ UNCHANGED <<vars, locked, global_rpc_id, nexus, made, deleted, rpc_obj>>
      /\ cl[c].pc = "init" /\ epc[c] = "idle" /\ epc' = [epc EXCEPT ![c] = "id"]
      /\ locked => \A d \in Clients : ~InInit(d)
  BY DEF EnterInit, Idle, MayEnter
<1>2. Moves(c, "idle", "id")
  BY <1>1, Moving DEF Epcs
<1>3. db[c] = "closed"
  <2>1. mpc # "begin"
    BY <1>1 DEF DriverInv, LatchesOutliveThreads
  <2> QED BY <1>1, <2>1 DEF DriverInv, DbInv
<1>4. db' = db
  BY <1>1 DEF vars
<1>5. Holders' = Holders /\ Closing' = Closing
  BY <1>2, <1>3, <1>4 DEF Holders, Closing, Moves
<1>6. ~mixed' => ~mixed /\ \A d \in Clients : ~InCleanup(d) /\ ~Cleaned(d)
  BY DEF EnterInit
<1> QED BY <1>1, <1>2, <1>3, <1>5, <1>6

(* It takes the counter for its id and counts itself. *)
LEMMA TakeEffect ==
    ASSUME EType, NEW c \in Clients, TakeId(c)
    PROVE  /\ UNCHANGED <<vars, locked, nexus, made, deleted, mixed>>
           /\ Moves(c, "id", "nexus")
           /\ Holders' = Holders \cup {c} /\ c \notin Holders /\ Closing' = Closing
           /\ rpc_obj' = [rpc_obj EXCEPT ![c].id = global_rpc_id]
           /\ global_rpc_id' = (global_rpc_id + 1) % IdRange
<1>1. /\ UNCHANGED <<vars, locked, nexus, made, deleted, mixed>>
      /\ epc[c] = "id" /\ epc' = [epc EXCEPT ![c] = "nexus"]
      /\ rpc_obj' = [rpc_obj EXCEPT ![c].id = global_rpc_id]
      /\ global_rpc_id' = (global_rpc_id + 1) % IdRange
  BY DEF TakeId, NextId
<1>2. Moves(c, "id", "nexus")
  BY <1>1, Moving DEF Epcs
<1>3. db' = db
  BY <1>1 DEF vars
<1>4. Holders' = Holders \cup {c} /\ c \notin Holders /\ Closing' = Closing
  BY <1>2, <1>3 DEF Holders, Closing, Moves
<1> QED BY <1>1, <1>2, <1>4

(* It looks for a Nexus. *)
LEMMA TestEffect ==
    ASSUME EType, NEW c \in Clients, TestNexus(c)
    PROVE  /\ UNCHANGED <<vars, locked, global_rpc_id, nexus, made, deleted, rpc_obj, mixed>>
           /\ Moves(c, "nexus", IF nexus = 0 THEN "create" ELSE "rpc")
           /\ Holders' = Holders /\ Closing' = Closing
<1> DEFINE q == IF nexus = 0 THEN "create" ELSE "rpc"
<1>1. /\ UNCHANGED <<vars, locked, global_rpc_id, nexus, made, deleted, rpc_obj, mixed>>
      /\ epc[c] = "nexus" /\ epc' = [epc EXCEPT ![c] = q]
  BY DEF TestNexus
<1>2. q \in {"create", "rpc"}
  OBVIOUS
<1> HIDE DEF q
<1>3. Moves(c, "nexus", q)
  BY <1>1, <1>2, Moving DEF Epcs
<1>4. db' = db
  BY <1>1 DEF vars
<1>5. Holders' = Holders /\ Closing' = Closing
  BY <1>2, <1>3, <1>4 DEF Holders, Closing, Moves
<1> QED BY <1>1, <1>3, <1>5 DEF q

(* It makes one. *)
LEMMA CreateEffect ==
    ASSUME EType, NEW c \in Clients, CreateNexus(c)
    PROVE  /\ UNCHANGED <<vars, locked, global_rpc_id, deleted, rpc_obj, mixed>>
           /\ made' = made + 1 /\ nexus' = made + 1
           /\ Moves(c, "create", "rpc")
           /\ Holders' = Holders /\ Closing' = Closing /\ c \in Holders
<1>1. /\ UNCHANGED <<vars, locked, global_rpc_id, deleted, rpc_obj, mixed>>
      /\ made' = made + 1 /\ nexus' = made + 1
      /\ epc[c] = "create" /\ epc' = [epc EXCEPT ![c] = "rpc"]
  BY DEF CreateNexus
<1>2. Moves(c, "create", "rpc")
  BY <1>1, Moving DEF Epcs
<1>3. db' = db
  BY <1>1 DEF vars
<1>4. Holders' = Holders /\ Closing' = Closing /\ c \in Holders
  BY <1>2, <1>3 DEF Holders, Closing, Moves
<1> QED BY <1>1, <1>2, <1>4

(* ClientInit and ClientCleanup, as far as the invariant is concerned. *)
LEMMA CreateRpcEffect ==
    ASSUME DriverInv, EType, NEW c \in Clients, CreateRpc(c)
    PROVE  /\ UNCHANGED <<mpc, locked, global_rpc_id, nexus, made, deleted, mixed>>
           /\ CleanupDb' = CleanupDb /\ \A d \in Clients : ThreadOps(d)' = ThreadOps(d)
           /\ cl[c].pc = "init" /\ cl'[c].pc = "thread" /\ db'[c] = "open"
           /\ \A d \in Clients \ {c} : cl'[d] = cl[d] /\ db'[d] = db[d]
           /\ Moves(c, "rpc", "idle")
           /\ rpc_obj' = [rpc_obj EXCEPT ![c].nexus = nexus]
           /\ Holders' = Holders /\ Closing' = Closing /\ c \in Holders
<1>1. /\ UNCHANGED <<mpc, mode, reinit, phase, locked, global_rpc_id, nexus, made, deleted, mixed>>
      /\ epc[c] = "rpc" /\ epc' = [epc EXCEPT ![c] = "idle"] /\ cl[c].pc = "init"
      /\ rpc_obj' = [rpc_obj EXCEPT ![c].nexus = nexus]
  BY DEF CreateRpc, ClientInit
<1>2. db' = [db EXCEPT ![c] = "open"] /\ cl' = [cl EXCEPT ![c].pc = "thread"]
  BY ErpcAssumption DEF CreateRpc, ClientInit
<1>3. cl \in [Clients -> Locals] /\ db \in [Clients -> {"closed", "open"}]
  BY DEF DriverInv, TypeOK
<1>4. /\ cl'[c].pc = "thread" /\ db'[c] = "open"
      /\ \A d \in Clients \ {c} : cl'[d] = cl[d] /\ db'[d] = db[d]
  BY <1>2, <1>3 DEF Locals
<1>5. Moves(c, "rpc", "idle")
  BY <1>1, Moving DEF Epcs
<1>6. Holders' = Holders /\ Closing' = Closing /\ c \in Holders
  BY <1>4, <1>5 DEF Holders, Closing, Moves
<1>7. CleanupDb' = CleanupDb /\ \A d \in Clients : ThreadOps(d)' = ThreadOps(d)
  BY <1>1 DEF CleanupDb, DoTransaction, ReInit, ThreadOps, Total
<1> QED BY <1>1, <1>4, <1>5, <1>6, <1>7

(* A client begins Cleanup and deletes its Rpc. *)
LEMMA DeleteRpcEffect ==
    ASSUME DriverInv, EType, NEW c \in Clients, DeleteRpc(c)
    PROVE  /\ UNCHANGED <<vars, locked, global_rpc_id, nexus, made, deleted>>
           /\ Moves(c, "idle", "count")
           /\ cl[c].pc = "loop" /\ cl[c].i >= ThreadOps(c) /\ CleanupDb /\ db[c] = "open"
           /\ rpc_obj' = [rpc_obj EXCEPT ![c] = NoRpc]
           /\ Holders' = Holders /\ Closing' = Closing /\ c \in Holders
           /\ ~mixed' => ~mixed /\ \A d \in Clients : ~InInit(d)
<1>1. /\ UNCHANGED <<vars, locked, global_rpc_id, nexus, made, deleted>>
      /\ cl[c].pc = "loop" /\ cl[c].i >= ThreadOps(c) /\ CleanupDb
      /\ epc[c] = "idle" /\ epc' = [epc EXCEPT ![c] = "count"]
      /\ rpc_obj' = [rpc_obj EXCEPT ![c] = NoRpc]
  BY DEF DeleteRpc, Idle
<1>2. Moves(c, "idle", "count")
  BY <1>1, Moving DEF Epcs
<1>3. db[c] = "open"
  <2>1. mpc # "begin"
    BY <1>1 DEF DriverInv, LatchesOutliveThreads
  <2> QED BY <1>1, <2>1 DEF DriverInv, DbInv
<1>4. db' = db
  BY <1>1 DEF vars
<1>5. Holders' = Holders /\ Closing' = Closing /\ c \in Holders
  BY <1>2, <1>3, <1>4 DEF Holders, Closing, Moves
<1>6. ~mixed' => ~mixed /\ \A d \in Clients : ~InInit(d)
  BY DEF DeleteRpc
<1> QED BY <1>1, <1>2, <1>3, <1>5, <1>6

(* The driver's part of a Cleanup that returns. *)
Leaves(c) ==
    /\ UNCHANGED mpc /\ CleanupDb' = CleanupDb /\ \A d \in Clients : ThreadOps(d)' = ThreadOps(d)
    /\ cl'[c].pc = "latch" /\ db'[c] = "closed"
    /\ \A d \in Clients \ {c} : cl'[d] = cl[d] /\ db'[d] = db[d]

(* A client that cleans up closes its database and goes on to return. *)
LEMMA Leaving ==
    ASSUME DriverInv, NEW c \in Clients, ClientCleanup(c), CleanupDb
    PROVE  Leaves(c)
<1>1. /\ UNCHANGED <<mpc, mode, reinit, phase>>
      /\ db' = [db EXCEPT ![c] = "closed"] /\ cl' = [cl EXCEPT ![c].pc = "latch"]
  BY DEF ClientCleanup
<1>2. cl \in [Clients -> Locals] /\ db \in [Clients -> {"closed", "open"}]
  BY DEF DriverInv, TypeOK
<1>3. /\ cl'[c].pc = "latch" /\ db'[c] = "closed"
      /\ \A d \in Clients \ {c} : cl'[d] = cl[d] /\ db'[d] = db[d]
  BY <1>1, <1>2 DEF Locals
<1>4. CleanupDb' = CleanupDb /\ \A d \in Clients : ThreadOps(d)' = ThreadOps(d)
  BY <1>1 DEF CleanupDb, DoTransaction, ReInit, ThreadOps, Total
<1> QED BY <1>1, <1>3, <1>4 DEF Leaves

(* It counts itself out, and was the last one. *)
LEMMA LastEffect ==
    ASSUME EType, NEW c \in Clients, CountDownId(c), WasLast
    PROVE  /\ UNCHANGED <<vars, locked, nexus, made, deleted, rpc_obj, mixed>>
           /\ global_rpc_id' = (global_rpc_id - 1) % IdRange
           /\ Moves(c, "count", "drop")
           /\ Holders' = Holders \ {c} /\ c \in Holders /\ Closing' = Closing \cup {c}
<1>1. /\ UNCHANGED <<vars, locked, nexus, made, deleted, rpc_obj, mixed>>
      /\ global_rpc_id' = (global_rpc_id - 1) % IdRange
      /\ epc[c] = "count" /\ epc' = [epc EXCEPT ![c] = "drop"]
  BY DEF CountDownId
<1>2. Moves(c, "count", "drop")
  BY <1>1, Moving DEF Epcs
<1>3. db' = db
  BY <1>1 DEF vars
<1>4. Holders' = Holders \ {c} /\ c \in Holders /\ Closing' = Closing \cup {c}
  BY <1>2, <1>3 DEF Holders, Closing, Moves
<1> QED BY <1>1, <1>2, <1>4

(* It counts itself out, and others are left. *)
LEMMA CountDownEffect ==
    ASSUME DriverInv, EType, LinkInv, NEW c \in Clients, CountDownId(c), ~WasLast
    PROVE  /\ UNCHANGED <<locked, nexus, made, deleted, rpc_obj, mixed>> /\ Leaves(c)
           /\ global_rpc_id' = (global_rpc_id - 1) % IdRange
           /\ Moves(c, "count", "idle")
           /\ Holders' = Holders \ {c} /\ c \in Holders /\ Closing' = Closing
<1>1. /\ UNCHANGED <<locked, nexus, made, deleted, rpc_obj, mixed>> /\ ClientCleanup(c)
      /\ global_rpc_id' = (global_rpc_id - 1) % IdRange
      /\ epc[c] = "count" /\ epc' = [epc EXCEPT ![c] = "idle"]
  BY DEF CountDownId
<1>2. Moves(c, "count", "idle")
  BY <1>1, Moving DEF Epcs
<1>3. Leaves(c)
  BY <1>1, Leaving DEF LinkInv, InCleanup
<1>4. Holders' = Holders \ {c} /\ c \in Holders /\ Closing' = Closing
  BY <1>2, <1>3 DEF Holders, Closing, Moves, Leaves
<1> QED BY <1>1, <1>2, <1>3, <1>4

(* The last one deletes the Nexus. *)
LEMMA DropEffect ==
    ASSUME EType, NEW c \in Clients, DeleteNexus(c)
    PROVE  /\ UNCHANGED <<vars, locked, global_rpc_id, nexus, made, rpc_obj, mixed>>
           /\ deleted' = deleted \cup {nexus}
           /\ Moves(c, "drop", "null")
           /\ Holders' = Holders /\ Closing' = Closing /\ c \in Closing
<1>1. /\ UNCHANGED <<vars, locked, global_rpc_id, nexus, made, rpc_obj, mixed>>
      /\ deleted' = deleted \cup {nexus}
      /\ epc[c] = "drop" /\ epc' = [epc EXCEPT ![c] = "null"]
  BY DEF DeleteNexus
<1>2. Moves(c, "drop", "null")
  BY <1>1, Moving DEF Epcs
<1>3. db' = db
  BY <1>1 DEF vars
<1>4. Holders' = Holders /\ Closing' = Closing /\ c \in Closing
  BY <1>2, <1>3 DEF Holders, Closing, Moves
<1> QED BY <1>1, <1>2, <1>4

(* It sets the pointer to null, and is through. *)
LEMMA NullEffect ==
    ASSUME DriverInv, EType, LinkInv, NEW c \in Clients, NullNexus(c)
    PROVE  /\ UNCHANGED <<locked, global_rpc_id, made, deleted, rpc_obj, mixed>> /\ Leaves(c)
           /\ nexus' = 0
           /\ Moves(c, "null", "idle")
           /\ Holders' = Holders /\ Closing' = Closing \ {c} /\ c \in Closing
<1>1. /\ UNCHANGED <<locked, global_rpc_id, made, deleted, rpc_obj, mixed>> /\ ClientCleanup(c)
      /\ nexus' = 0
      /\ epc[c] = "null" /\ epc' = [epc EXCEPT ![c] = "idle"]
  BY DEF NullNexus
<1>2. Moves(c, "null", "idle")
  BY <1>1, Moving DEF Epcs
<1>3. Leaves(c)
  BY <1>1, Leaving DEF LinkInv, InCleanup
<1>4. Holders' = Holders /\ Closing' = Closing \ {c} /\ c \in Closing
  BY <1>2, <1>3 DEF Holders, Closing, Moves, Leaves
<1> QED BY <1>1, <1>2, <1>3, <1>4

-----------------------------------------------------------------------------
(* 6.2 Steps of the driver alone. *)

(* A step that leaves the end point alone keeps the invariant if clients stay where they were. *)
LEMMA QuietStep ==
    ASSUME ErpcInv, UNCHANGED <<evars, db>>,
           \A c \in Clients : InInit(c) => cl'[c].pc = "init",
           \A c \in Clients : InCleanup(c) =>
               cl'[c].pc = "loop" /\ cl'[c].i >= ThreadOps(c)' /\ CleanupDb',
           (\E c \in Clients : InInit(c)) /\ Growing => Growing',
           Growing' => Growing \/ Holders = {}
    PROVE  ErpcInv'
<1>1. /\ UNCHANGED <<locked, global_rpc_id, nexus, made, deleted, rpc_obj, epc, mixed>>
      /\ db' = db
  BY DEF evars
<1>2. Holders' = Holders /\ Closing' = Closing
  BY <1>1 DEF Holders, Closing
<1>3. \A c \in Clients : InInit(c)' = InInit(c) /\ InCleanup(c)' = InCleanup(c)
  BY <1>1 DEF InInit, InCleanup
<1>4. \A c \in Clients : HasRpc(c)' = HasRpc(c)
  BY <1>1 DEF HasRpc
<1>5. EType'
  BY <1>1 DEF ErpcInv, EType
<1>6. LinkInv'
  BY <1>1, <1>3 DEF ErpcInv, LinkInv
<1>7. CountInv'
  BY <1>1, <1>2 DEF ErpcInv, CountInv
<1>8. ASSUME ~mixed PROVE IdInv'
  <2>1. IdInv
    BY <1>8 DEF ErpcInv
  <2>2. (\E c \in Clients : InInit(c)') => Growing'
    BY <1>3, <2>1 DEF IdInv
  <2>3. Growing' => \A c \in Holders' : rpc_obj'[c].id < Cardinality(Holders')
    BY <1>1, <1>2, <2>1 DEF IdInv
  <2>4. \A c, d \in Holders' :
          epc'[c] # "count" /\ epc'[d] # "count" /\ rpc_obj'[c].id = rpc_obj'[d].id => c = d
    BY <1>1, <1>2, <2>1 DEF IdInv
  <2> QED BY <2>2, <2>3, <2>4 DEF IdInv
<1>9. ASSUME ~mixed PROVE NexusInv'
  BY <1>1, <1>2, <1>4, <1>9 DEF ErpcInv, NexusInv
<1>10. ASSUME ~mixed PROVE LockInv'
  BY <1>1, <1>4, <1>10 DEF ErpcInv, LockInv
<1> QED BY <1>1, <1>5, <1>6, <1>7, <1>8, <1>9, <1>10 DEF ErpcInv

(* Main's steps are of that kind. *)
LEMMA MainQuiet ==
    ASSUME DriverInv, ErpcInv, MainStep, UNCHANGED evars PROVE ErpcInv'
<1>0. /\ \A c \in Clients : /\ InInit(c) => cl[c].pc = "init"
                            /\ InCleanup(c) =>
                                 cl[c].pc = "loop" /\ cl[c].i >= ThreadOps(c) /\ CleanupDb
      /\ epc \in [Clients -> Epcs]
  BY DEF ErpcInv, LinkInv, EType
<1>01. UNCHANGED db
  BY DEF MainStep, BeginPhase, Spawn, AwaitInit, Join, JoinRethrows, EndPhase
<1>02. \A c \in Clients : InInit(c)' = InInit(c) /\ InCleanup(c)' = InCleanup(c)
  BY DEF InInit, InCleanup, evars
<1>03. \A c \in Clients : ~InInit(c) /\ ~InCleanup(c) => epc[c] = "idle"
  BY <1>0 DEF InInit, InCleanup, Epcs
<1>1. CASE BeginPhase
  <2>1. mpc = "begin"
    BY <1>1 DEF BeginPhase
  <2>2. \A c \in Clients : cl[c].pc \in {"none", "returned"}
    BY <2>1 DEF DriverInv, LatchesOutliveThreads
  <2>3. \A c \in Clients : ~InInit(c) /\ ~InCleanup(c)
    BY <1>0, <2>2
  <2>4. Growing
    BY <2>1, <2>3 DEF Growing
  <2> QED BY <1>01, <2>3, <2>4, QuietStep
<1>2. CASE Spawn
  <2>1. /\ mpc = "spawn" /\ mpc' \in {"spawn", "await"} /\ UNCHANGED <<mode, reinit, phase>>
        /\ cl' = [cl EXCEPT ![next].pc = IF InitDb THEN "init" ELSE "thread"]
    BY <1>2 DEF Spawn
  <2>2. next \in Clients /\ cl[next].pc = "none" /\ cl \in [Clients -> Locals]
    BY <2>1, CountAssumption DEF DriverInv, MainInv, TypeOK, Clients
  <2>3. CleanupDb' = CleanupDb /\ \A c \in Clients : ThreadOps(c)' = ThreadOps(c)
    BY <2>1 DEF CleanupDb, DoTransaction, ReInit, ThreadOps, Total
  <2>4. /\ \A c \in Clients \ {next} : cl'[c] = cl[c]
        /\ cl'[next].pc \in {"init", "thread"}
    BY <2>1, <2>2 DEF Locals
  <2>5. ~InInit(next) /\ ~InCleanup(next)
    BY <1>0, <2>2
  <2>6. \A c \in Clients : Cleaned(c)' <=> Cleaned(c)
    BY <2>2, <2>3, <2>4 DEF Cleaned
  <2>7. Growing' <=> Growing
    BY <1>02, <2>1, <2>6 DEF Growing
  <2>8. \A c \in Clients : InInit(c) => cl'[c].pc = "init"
    BY <1>0, <2>4, <2>5
  <2>9. \A c \in Clients : InCleanup(c) =>
          cl'[c].pc = "loop" /\ cl'[c].i >= ThreadOps(c)' /\ CleanupDb'
    BY <1>0, <2>3, <2>4, <2>5
  <2> QED BY <1>01, <2>7, <2>8, <2>9, QuietStep
<1>3. CASE AwaitInit \/ Join \/ JoinRethrows
  <2>1. /\ mpc \in {"await", "join"} /\ mpc' \in {"await", "join"}
        /\ UNCHANGED <<mode, reinit, phase, cl>>
    BY <1>3 DEF AwaitInit, Join, JoinRethrows
  <2>2. CleanupDb' = CleanupDb /\ \A c \in Clients : ThreadOps(c)' = ThreadOps(c)
    BY <2>1 DEF CleanupDb, DoTransaction, ReInit, ThreadOps, Total
  <2>3. \A c \in Clients : Cleaned(c)' <=> Cleaned(c)
    BY <2>1, <2>2 DEF Cleaned
  <2>4. Growing' <=> Growing
    BY <1>02, <2>1, <2>3 DEF Growing
  <2>5. \A c \in Clients : InCleanup(c) =>
          cl'[c].pc = "loop" /\ cl'[c].i >= ThreadOps(c)' /\ CleanupDb'
    BY <1>0, <2>1, <2>2
  <2>6. \A c \in Clients : InInit(c) => cl'[c].pc = "init"
    BY <1>0, <2>1
  <2> QED BY <1>01, <2>4, <2>5, <2>6, QuietStep
<1>4. CASE EndPhase
  <2>1. mpc = "join" /\ next = N
    BY <1>4 DEF EndPhase
  <2>2. \A c \in Clients : cl[c].pc = "returned"
    BY <2>1, CountAssumption DEF DriverInv, MainInv, Clients
  <2>3. \A c \in Clients : ~InInit(c) /\ ~InCleanup(c)
    BY <1>0, <2>2
  <2>4. Growing \/ Holders = {}
    <3>1. CASE ~CleanupDb
      BY <2>3, <3>1 DEF Growing, Cleaned
    <3>2. CASE CleanupDb
      <4>1. \A c \in Clients : db[c] = "closed"
        BY <2>1, <2>2, <3>2 DEF DriverInv, DbInv
      <4> QED BY <1>03, <2>3, <4>1 DEF Holders
    <3> QED BY <3>1, <3>2
  <2> QED BY <1>01, <2>3, <2>4, QuietStep
<1> QED BY <1>1, <1>2, <1>3, <1>4 DEF MainStep

(* So are a client's outside Init and Cleanup. *)
LEMMA ClientQuiet ==
    ASSUME DriverInv, ErpcInv, NEW c \in Clients, UNCHANGED evars,
           ClientReady(c) \/ Iterate(c) \/ ClientReturn(c) \/ (~CleanupDb /\ ClientCleanup(c))
    PROVE  ErpcInv'
<1>0. \A d \in Clients : /\ InInit(d) => cl[d].pc = "init"
                         /\ InCleanup(d) =>
                              cl[d].pc = "loop" /\ cl[d].i >= ThreadOps(d) /\ CleanupDb
  BY DEF ErpcInv, LinkInv
<1>01. UNCHANGED <<db, mpc, mode, reinit, phase>> /\ cl[c].pc \in {"thread", "loop", "latch"}
  BY DEF ClientReady, Iterate, ClientReturn, ClientCleanup
<1>02. ~InInit(c)
  BY <1>0, <1>01
<1>03. ~InCleanup(c)
  <2>1. CASE Iterate(c)
    <3>1. cl[c].i < ThreadOps(c) /\ cl[c].i \in Nat /\ ThreadOps(c) \in Nat
      BY <2>1, ThreadOpsNat DEF Iterate, DriverInv, TypeOK, Locals
    <3> QED BY <1>0, <3>1
  <2>2. CASE ClientReady(c) \/ ClientReturn(c) \/ (~CleanupDb /\ ClientCleanup(c))
    BY <1>0, <2>2 DEF ClientReady, ClientReturn
  <2> QED BY <2>1, <2>2
<1>1. \A d \in Clients \ {c} : cl'[d] = cl[d]
  <2>1. ClientStep(c)
    BY DEF ClientStep
  <2> QED BY <2>1, ClientFrame
<1>2. CleanupDb' = CleanupDb /\ \A d \in Clients : ThreadOps(d)' = ThreadOps(d)
  BY <1>01 DEF CleanupDb, DoTransaction, ReInit, ThreadOps, Total
<1>3. Cleaned(c)' <=> Cleaned(c)
  <2>0. cl \in [Clients -> Locals]
    BY DEF DriverInv, TypeOK
  <2>1. CASE Iterate(c)
    <3>1. cl[c].pc = "loop" /\ cl'[c].pc \in {"loop", "threw"}
      BY <2>1, IterateEffect DEF DriverInv
    <3> QED BY <3>1 DEF Cleaned
  <2>2. CASE ClientReady(c)
    <3>1. cl[c].pc = "thread" /\ cl'[c].pc = "loop"
      BY <2>0, <2>2 DEF ClientReady, Locals
    <3> QED BY <3>1 DEF Cleaned
  <2>3. CASE ClientReturn(c)
    <3>1. cl[c].pc = "latch" /\ cl'[c].pc = "returned"
      BY <2>0, <2>3 DEF ClientReturn, Locals
    <3> QED BY <1>2, <3>1 DEF Cleaned
  <2>4. CASE ~CleanupDb
    BY <1>2, <2>4 DEF Cleaned
  <2> QED BY <2>1, <2>2, <2>3, <2>4
<1>4. \A d \in Clients : Cleaned(d)' <=> Cleaned(d)
  <2> SUFFICES ASSUME NEW d \in Clients, d # c PROVE Cleaned(d)' <=> Cleaned(d)
    BY <1>3
  <2> QED BY <1>1, <1>2 DEF Cleaned
<1>5. \A d \in Clients : InInit(d)' = InInit(d) /\ InCleanup(d)' = InCleanup(d)
  BY DEF InInit, InCleanup, evars
<1>6. Growing' <=> Growing
  BY <1>01, <1>4, <1>5 DEF Growing
<1>7. \A d \in Clients : InInit(d) => cl'[d].pc = "init"
  BY <1>0, <1>02, <1>1
<1>8. \A d \in Clients : InCleanup(d) =>
        cl'[d].pc = "loop" /\ cl'[d].i >= ThreadOps(d)' /\ CleanupDb'
  BY <1>0, <1>03, <1>1, <1>2
<1> QED BY <1>01, <1>6, <1>7, <1>8, QuietStep

-----------------------------------------------------------------------------
(* 6.3 Steps of Init and Cleanup. *)

(* The counter wraps only at its range. *)
LEMMA Mods ==
    ASSUME NEW R \in Nat, R > 1
    PROVE  /\ \A x \in Nat : x < R => x % R = x
           /\ R % R = 0 /\ (0 - 1) % R = R - 1
<1>1. ASSUME NEW x \in Nat, x < R PROVE x % R = x
  BY <1>1
<1>2. R % R = 0
  OBVIOUS
<1>3. (0 - 1) % R = R - 1
  OBVIOUS
<1> QED BY <1>1, <1>2, <1>3

(* global_rpc_id_ counts the holders. *)
LEMMA HoldersFinite ==
    /\ IsFiniteSet(Holders) /\ Cardinality(Holders) \in 0 .. N
    /\ (Cardinality(Holders) = 0 <=> Holders = {})
<1>1. IsFiniteSet(Holders) /\ Cardinality(Holders) <= Cardinality(Clients)
  BY ClientsFinite, FS_Subset DEF Holders
<1>2. Cardinality(Holders) \in Nat /\ (Cardinality(Holders) = 0 <=> Holders = {})
  BY <1>1, FS_CardinalityType, FS_EmptySet
<1> QED BY <1>1, <1>2, ClientsFinite, CountAssumption

(* With enough ids the id taken is the number of clients counted. *)
LEMMA OneMore ==
    ASSUME EnoughIds, CountInv, NEW c \in Clients, Holders' = Holders \cup {c}, c \notin Holders,
           global_rpc_id' = (global_rpc_id + 1) % IdRange
    PROVE  /\ CountInv' /\ global_rpc_id = Cardinality(Holders)
           /\ Cardinality(Holders') = Cardinality(Holders) + 1
<1>1. Cardinality(Holders') = Cardinality(Holders) + 1
  BY HoldersFinite, FS_AddElement
<1>2. Cardinality(Holders') <= N
  <2>1. IsFiniteSet(Clients) /\ Cardinality(Clients) = N
    BY ClientsFinite
  <2>2. Holders' \subseteq Clients
    BY DEF Holders
  <2> QED BY <2>1, <2>2, FS_Subset
<1>3. Cardinality(Holders) \in Nat /\ N \in Nat /\ IdRange \in Nat /\ IdRange > 1
  BY HoldersFinite, CountAssumption, ErpcAssumption DEF EnoughIds
<1>4. Cardinality(Holders) < IdRange
  BY <1>1, <1>2, <1>3 DEF EnoughIds
<1>5. Cardinality(Holders) % IdRange = Cardinality(Holders)
  BY <1>3, <1>4, Mods
<1> QED BY <1>1, <1>5 DEF CountInv

(* The client that finds the counter at 0 is the last one. *)
LEMMA OneLess ==
    ASSUME EnoughIds, CountInv, NEW c \in Clients, Holders' = Holders \ {c}, c \in Holders,
           global_rpc_id' = (global_rpc_id - 1) % IdRange
    PROVE  /\ CountInv' /\ (WasLast <=> Holders' = {})
<1>1. Cardinality(Holders') = Cardinality(Holders) - 1 /\ Cardinality(Holders) # 0
  BY HoldersFinite, FewerLeft
<1>2. IdRange \in Nat /\ IdRange > 1 /\ N \in Nat /\ N <= IdRange
  BY CountAssumption, ErpcAssumption DEF EnoughIds
<1>3. PICK k \in Nat : k = Cardinality(Holders) /\ k > 0 /\ k <= IdRange
  BY <1>1, <1>2, HoldersFinite
<1>4. (Holders' = {}) <=> (k = 1)
  <2>1. Cardinality(Holders') = 0 <=> Holders' = {}
    <3>1. IsFiniteSet(Holders')
      BY HoldersFinite, FS_Subset
    <3> QED BY <3>1, FS_EmptySet
  <2> QED BY <1>1, <1>3, <2>1
<1>5. CASE k < IdRange
  <2>1. global_rpc_id = k
    BY <1>2, <1>3, <1>5, Mods DEF CountInv
  <2> QED BY <1>1, <1>3, <1>4, <2>1 DEF CountInv, WasLast
<1>6. CASE k = IdRange
  <2>1. global_rpc_id = 0
    BY <1>2, <1>3, <1>6, Mods DEF CountInv
  <2>2. global_rpc_id' = IdRange - 1
    BY <1>2, <2>1, Mods
  <2>3. (k - 1) % IdRange = k - 1
    <3>1. k - 1 \in Nat /\ k - 1 < IdRange
      BY <1>2, <1>3
    <3> QED BY <1>2, <3>1, Mods
  <2> QED BY <1>1, <1>2, <1>3, <1>4, <1>6, <2>1, <2>2, <2>3 DEF CountInv, WasLast
<1> QED BY <1>2, <1>3, <1>5, <1>6

(* What ErpcInv says when no Init of the phase was late. *)
LEMMA Phased ==
    ASSUME ErpcInv, ~mixed PROVE IdInv /\ NexusInv /\ LockInv
BY DEF ErpcInv

(* Beginning Init keeps the invariant. *)
LEMMA EnterInv ==
    ASSUME DriverInv, ErpcInv, NEW c \in Clients, EnterInit(c) PROVE ErpcInv'
<1>0. EType /\ LinkInv /\ CountInv
  BY DEF ErpcInv
<1>1. /\ UNCHANGED <<vars, locked, global_rpc_id, nexus, made, deleted, rpc_obj>>
      /\ Moves(c, "idle", "id") /\ cl[c].pc = "init" /\ db[c] = "closed"
      /\ Holders' = Holders /\ Closing' = Closing
      /\ locked => \A d \in Clients : ~InInit(d)
      /\ ~mixed' => ~mixed /\ \A d \in Clients : ~InCleanup(d) /\ ~Cleaned(d)
  BY <1>0, EnterEffect
<1>2. /\ UNCHANGED <<cl, db, mpc>> /\ CleanupDb' = CleanupDb
      /\ \A d \in Clients : ThreadOps(d)' = ThreadOps(d) /\ Cleaned(d)' = Cleaned(d)
  BY <1>1, StandStill
<1>3. /\ InInit(c)' /\ ~InCleanup(c)'
      /\ \A d \in Clients \ {c} : InInit(d)' = InInit(d) /\ InCleanup(d)' = InCleanup(d)
  BY <1>1 DEF Moves, InInit, InCleanup
<1>4. EType'
  BY <1>0, <1>1 DEF EType, Moves
<1>5. LinkInv'
  BY <1>0, <1>1, <1>2, <1>3 DEF LinkInv
<1>6. CountInv'
  BY <1>0, <1>1 DEF CountInv
<1>7. ASSUME ~mixed' PROVE IdInv' /\ NexusInv' /\ LockInv'
  <2>1. IdInv /\ NexusInv /\ LockInv
    BY <1>1, <1>7, Phased
  <2>2. Growing /\ Growing'
    BY <1>1, <1>2, <1>3, <1>7 DEF Growing
  <2>3. IdInv'
    <3>1. \A d \in Holders : epc[d] # "count" => epc'[d] # "count"
      BY <1>1 DEF Moves, Holders
    <3>2. \A d \in Holders : epc'[d] # "count" => epc[d] # "count"
      BY <1>1 DEF Moves, Holders
    <3> QED BY <1>1, <2>1, <2>2, <3>1, <3>2 DEF IdInv
  <2>4. \A d \in Clients : HasRpc(d)' = HasRpc(d)
    BY <1>1 DEF HasRpc
  <2>5. \A d \in Clients : (epc'[d] = "null" <=> epc[d] = "null")
                        /\ (epc'[d] = "create" <=> epc[d] = "create")
    BY <1>1 DEF Moves
  <2>6. c \notin Holders
    BY <1>1 DEF Holders, Moves
  <2>7. \A d \in Clients \ {c} : epc'[d] = epc[d]
    BY <1>1 DEF Moves
  <2>8. ~HasRpc(c)
    BY <1>1, <2>1 DEF NexusInv
  <2>9. NexusInv'
    BY <1>1, <1>2, <2>1, <2>4, <2>5, <2>6, <2>7, <2>8 DEF NexusInv, Holders
  <2>10. LockInv'
    BY <1>1, <2>1, <2>4, <2>5 DEF LockInv
  <2> QED BY <2>3, <2>9, <2>10
<1> QED BY <1>4, <1>5, <1>6, <1>7 DEF ErpcInv

(* The steps of an Init that is under way. *)
LEMMA InitGrows ==
    ASSUME ErpcInv, ~mixed, NEW c \in Clients, InInit(c)
    PROVE  /\ Growing /\ \A d \in Clients : ~InCleanup(d)
           /\ Closing = {}
<1>1. Growing
  BY Phased DEF IdInv
<1>2. \A d \in Clients : ~InCleanup(d)
  BY <1>1 DEF Growing
<1> QED BY <1>1, <1>2 DEF Closing, InCleanup

(* Taking an id keeps the invariant: it is above all that were given out. *)
LEMMA TakeInv ==
    ASSUME EnoughIds, DriverInv, ErpcInv, NEW c \in Clients, TakeId(c) PROVE ErpcInv'
<1>0. EType /\ LinkInv /\ CountInv
  BY DEF ErpcInv
<1>1. /\ UNCHANGED <<vars, locked, nexus, made, deleted, mixed>>
      /\ Moves(c, "id", "nexus")
      /\ Holders' = Holders \cup {c} /\ c \notin Holders /\ Closing' = Closing
      /\ rpc_obj' = [rpc_obj EXCEPT ![c].id = global_rpc_id]
      /\ global_rpc_id' = (global_rpc_id + 1) % IdRange
  BY <1>0, TakeEffect
<1>2. /\ UNCHANGED <<cl, db, mpc>> /\ CleanupDb' = CleanupDb
      /\ \A d \in Clients : ThreadOps(d)' = ThreadOps(d) /\ Cleaned(d)' = Cleaned(d)
  BY <1>1, StandStill
<1>3. \A d \in Clients : InInit(d)' = InInit(d) /\ InCleanup(d)' = InCleanup(d)
  BY <1>1 DEF Moves, InInit, InCleanup
<1>4. /\ CountInv' /\ global_rpc_id = Cardinality(Holders)
      /\ Cardinality(Holders') = Cardinality(Holders) + 1
  BY <1>0, <1>1, OneMore
<1>5. Cardinality(Holders) \in Nat
  BY HoldersFinite
<1>6. /\ rpc_obj' \in [Clients -> [id : Nat, nexus : Nat]]
      /\ rpc_obj'[c].id = Cardinality(Holders) /\ rpc_obj'[c].nexus = rpc_obj[c].nexus
      /\ \A d \in Clients \ {c} : rpc_obj'[d] = rpc_obj[d]
  BY <1>0, <1>1, <1>4, <1>5 DEF EType
<1>7. EType'
  BY <1>0, <1>1, <1>6 DEF EType, Moves
<1>8. LinkInv'
  BY <1>0, <1>1, <1>2, <1>3 DEF LinkInv
<1>9. ASSUME ~mixed PROVE IdInv' /\ NexusInv' /\ LockInv'
  <2>1. IdInv /\ NexusInv /\ LockInv
    BY <1>9, Phased
  <2>2. InInit(c)
    BY <1>1 DEF Moves, InInit
  <2>3. Growing /\ Closing = {} /\ \A d \in Clients : ~InCleanup(d)
    BY <1>9, <2>2, InitGrows
  <2>4. Growing'
    BY <1>2, <1>3, <2>3 DEF Growing
  <2>5. \A d \in Holders : d \in Clients \ {c} /\ rpc_obj'[d] = rpc_obj[d] /\ epc'[d] = epc[d]
    BY <1>1, <1>6 DEF Moves, Holders
  <2>6. \A d \in Holders' : rpc_obj'[d].id < Cardinality(Holders')
    <3> SUFFICES ASSUME NEW d \in Holders' PROVE rpc_obj'[d].id < Cardinality(Holders')
      OBVIOUS
    <3>1. CASE d = c
      BY <1>4, <1>5, <1>6, <3>1
    <3>2. CASE d # c
      <4>1. d \in Holders
        BY <1>1, <3>2
      <4>2. rpc_obj[d].id \in Nat /\ rpc_obj[d].id < Cardinality(Holders)
        BY <1>0, <2>1, <2>3, <2>5, <4>1 DEF IdInv, EType
      <4> QED BY <1>4, <1>5, <2>5, <4>1, <4>2
    <3> QED BY <3>1, <3>2
  <2>7. \A d \in Holders : rpc_obj'[d].id # rpc_obj'[c].id
    BY <1>0, <1>5, <1>6, <2>1, <2>3, <2>5 DEF IdInv, EType
  <2>8. \A d, e \in Holders' :
          epc'[d] # "count" /\ epc'[e] # "count" /\ rpc_obj'[d].id = rpc_obj'[e].id => d = e
    BY <1>1, <2>1, <2>5, <2>7 DEF IdInv
  <2>9. IdInv'
    BY <2>4, <2>6, <2>8 DEF IdInv
  <2>10. \A d \in Clients : HasRpc(d)' = HasRpc(d) /\ rpc_obj'[d].nexus = rpc_obj[d].nexus
    BY <1>6 DEF HasRpc
  <2>11. /\ \A d \in Clients : (epc'[d] = "null" <=> epc[d] = "null")
                        /\ (epc'[d] = "create" <=> epc[d] = "create")
         /\ epc[c] = "id" /\ epc'[c] = "nexus"
         /\ \A d \in Clients \ {c} : epc'[d] = epc[d]
    BY <1>1 DEF Moves
  <2>12. NexusInv'
    <3>1. ~HasRpc(c)
      BY <2>1, <2>11 DEF NexusInv
    <3>2. \A d \in Holders' : epc'[d] \notin {"nexus", "create"} => nexus # 0
      BY <1>1, <2>1, <2>5, <2>11 DEF NexusInv
    <3> QED BY <1>1, <1>2, <2>1, <2>3, <2>10, <2>11, <3>1, <3>2 DEF NexusInv
  <2>13. LockInv'
    BY <1>1, <2>1, <2>10, <2>11 DEF LockInv
  <2> QED BY <2>9, <2>12, <2>13
<1> QED BY <1>1, <1>4, <1>7, <1>8, <1>9 DEF ErpcInv

(* Looking for the Nexus keeps the invariant. *)
LEMMA TestInv ==
    ASSUME DriverInv, ErpcInv, NEW c \in Clients, TestNexus(c) PROVE ErpcInv'
<1>0. EType /\ LinkInv /\ CountInv
  BY DEF ErpcInv
<1>1. PICK q : /\ q = IF nexus = 0 THEN "create" ELSE "rpc"
               /\ q \in {"create", "rpc"}
  OBVIOUS
<1>2. /\ UNCHANGED <<vars, locked, global_rpc_id, nexus, made, deleted, rpc_obj, mixed>>
      /\ Moves(c, "nexus", q)
      /\ Holders' = Holders /\ Closing' = Closing
  BY <1>0, <1>1, TestEffect
<1>3. /\ UNCHANGED <<cl, db, mpc>> /\ CleanupDb' = CleanupDb
      /\ \A d \in Clients : ThreadOps(d)' = ThreadOps(d) /\ Cleaned(d)' = Cleaned(d)
  BY <1>2, StandStill
<1>4. \A d \in Clients : InInit(d)' = InInit(d) /\ InCleanup(d)' = InCleanup(d)
  BY <1>1, <1>2 DEF Moves, InInit, InCleanup
<1>5. EType'
  BY <1>0, <1>2 DEF EType, Moves
<1>6. LinkInv'
  BY <1>0, <1>2, <1>3, <1>4 DEF LinkInv
<1>7. CountInv'
  BY <1>0, <1>2 DEF CountInv
<1>8. ASSUME ~mixed PROVE IdInv' /\ NexusInv' /\ LockInv'
  <2>1. IdInv /\ NexusInv /\ LockInv
    BY <1>8, Phased
  <2>2. Growing' <=> Growing
    BY <1>3, <1>4 DEF Growing
  <2>3. /\ \A d \in Clients : (epc'[d] = "null" <=> epc[d] = "null")
                           /\ (epc'[d] = "count" <=> epc[d] = "count")
        /\ epc[c] = "nexus" /\ epc'[c] = q
        /\ \A d \in Clients \ {c} : epc'[d] = epc[d]
    BY <1>1, <1>2 DEF Moves
  <2>4. Holders \subseteq Clients
    BY DEF Holders
  <2>5. IdInv'
    BY <1>2, <1>4, <2>1, <2>2, <2>3, <2>4 DEF IdInv
  <2>6. \A d \in Clients : HasRpc(d)' = HasRpc(d)
    BY <1>2 DEF HasRpc
  <2>7. ~HasRpc(c)
    BY <2>1, <2>3 DEF NexusInv
  <2>8. NexusInv'
    BY <1>1, <1>2, <1>3, <2>1, <2>3, <2>4, <2>6, <2>7 DEF NexusInv
  <2>9. LockInv'
    BY <1>1, <1>2, <2>1, <2>3, <2>6 DEF LockInv
  <2> QED BY <2>5, <2>8, <2>9
<1> QED BY <1>2, <1>5, <1>6, <1>7, <1>8 DEF ErpcInv

(* Making a Nexus keeps the invariant. *)
LEMMA CreateInv ==
    ASSUME DriverInv, ErpcInv, NEW c \in Clients, CreateNexus(c) PROVE ErpcInv'
<1>0. EType /\ LinkInv /\ CountInv
  BY DEF ErpcInv
<1>1. /\ UNCHANGED <<vars, locked, global_rpc_id, deleted, rpc_obj, mixed>>
      /\ made' = made + 1 /\ nexus' = made + 1
      /\ Moves(c, "create", "rpc")
      /\ Holders' = Holders /\ Closing' = Closing /\ c \in Holders
  BY <1>0, CreateEffect
<1>2. /\ UNCHANGED <<cl, db, mpc>> /\ CleanupDb' = CleanupDb
      /\ \A d \in Clients : ThreadOps(d)' = ThreadOps(d) /\ Cleaned(d)' = Cleaned(d)
  BY <1>1, StandStill
<1>3. \A d \in Clients : InInit(d)' = InInit(d) /\ InCleanup(d)' = InCleanup(d)
  BY <1>1 DEF Moves, InInit, InCleanup
<1>4. made \in Nat /\ nexus' # 0 /\ EType'
  BY <1>0, <1>1 DEF EType, Moves
<1>5. LinkInv'
  BY <1>0, <1>1, <1>2, <1>3 DEF LinkInv
<1>6. CountInv'
  BY <1>0, <1>1 DEF CountInv
<1>7. ASSUME ~mixed PROVE IdInv' /\ NexusInv' /\ LockInv'
  <2>1. IdInv /\ NexusInv /\ LockInv
    BY <1>7, Phased
  <2>2. Growing' <=> Growing
    BY <1>2, <1>3 DEF Growing
  <2>3. /\ \A d \in Clients : (epc'[d] = "null" <=> epc[d] = "null")
                           /\ (epc'[d] = "count" <=> epc[d] = "count")
        /\ epc[c] = "create" /\ epc'[c] = "rpc"
        /\ \A d \in Clients \ {c} : epc'[d] = epc[d]
    BY <1>1 DEF Moves
  <2>4. Holders \subseteq Clients
    BY DEF Holders
  <2>5. IdInv'
    BY <1>1, <1>3, <2>1, <2>2, <2>3, <2>4 DEF IdInv
  <2>6. InInit(c)
    BY <2>3 DEF InInit
  <2>7. Closing = {} /\ \A d \in Clients : ~InCleanup(d)
    BY <1>7, <2>6, InitGrows
  <2>8. \A d \in Clients : HasRpc(d)' = HasRpc(d)
    BY <1>1 DEF HasRpc
  <2>9. ~HasRpc(c)
    BY <2>1, <2>3 DEF NexusInv
  <2>10. deleted \subseteq 1 .. made /\ deleted \subseteq 1 .. (made + 1) /\ made + 1 \notin deleted
    BY <1>4, <2>1 DEF NexusInv
  <2>11. NexusInv'
    BY <1>1, <1>2, <1>4, <2>1, <2>3, <2>4, <2>7, <2>8, <2>9, <2>10 DEF NexusInv
  <2>12. \A d \in Clients : epc[d] # "null"
    BY <2>7 DEF InCleanup
  <2>13. ASSUME locked PROVE LockInv'
    <3>1. nexus = 0
      BY <2>1, <2>3, <2>13 DEF LockInv
    <3>2. \A d \in Clients : ~HasRpc(d)
      <4> SUFFICES ASSUME NEW d \in Clients, HasRpc(d) PROVE FALSE
        OBVIOUS
      <4>1. rpc_obj[d].nexus = 0
        BY <2>1, <2>13, <3>1 DEF LockInv
      <4> QED BY <4>1 DEF HasRpc
    <3>3. \A d \in Clients : epc'[d] # "create"
      <4> SUFFICES ASSUME NEW d \in Clients, d # c, epc[d] = "create" PROVE FALSE
        BY <2>3
      <4>1. InInit(d) /\ InInit(c)
        BY <2>6 DEF InInit
      <4> QED BY <1>0, <2>13, <4>1 DEF LinkInv
    <3>4. deleted = 1 .. made
      BY <2>1, <2>13, <3>1 DEF LockInv
    <3>5. 1 .. made = 1 .. (made' - 1)
      BY <1>1, <1>4
    <3> QED BY <1>1, <1>4, <2>3, <2>8, <2>12, <3>2, <3>3, <3>4, <3>5 DEF LockInv
  <2>14. LockInv'
    BY <1>1, <2>13 DEF LockInv
  <2> QED BY <2>5, <2>11, <2>14
<1> QED BY <1>1, <1>4, <1>5, <1>6, <1>7 DEF ErpcInv

(* Creating the Rpc keeps the invariant: its Nexus has not been deleted. *)
LEMMA CreateRpcInv ==
    ASSUME DriverInv, ErpcInv, NEW c \in Clients, CreateRpc(c) PROVE ErpcInv'
<1>0. EType /\ LinkInv /\ CountInv
  BY DEF ErpcInv
<1>1. /\ UNCHANGED <<mpc, locked, global_rpc_id, nexus, made, deleted, mixed>>
      /\ CleanupDb' = CleanupDb /\ \A d \in Clients : ThreadOps(d)' = ThreadOps(d)
      /\ cl[c].pc = "init" /\ cl'[c].pc = "thread" /\ db'[c] = "open"
      /\ \A d \in Clients \ {c} : cl'[d] = cl[d] /\ db'[d] = db[d]
      /\ Moves(c, "rpc", "idle")
      /\ rpc_obj' = [rpc_obj EXCEPT ![c].nexus = nexus]
      /\ Holders' = Holders /\ Closing' = Closing /\ c \in Holders
  BY <1>0, CreateRpcEffect
<1>2. \A d \in Clients : Cleaned(d)' <=> Cleaned(d)
  <2>1. Cleaned(c)' <=> Cleaned(c)
    BY <1>1 DEF Cleaned
  <2>2. ASSUME NEW d \in Clients, d # c PROVE Cleaned(d)' <=> Cleaned(d)
    BY <1>1, <2>2 DEF Cleaned
  <2> QED BY <2>1, <2>2
<1>3. /\ InInit(c) /\ ~InInit(c)' /\ ~InCleanup(c) /\ ~InCleanup(c)'
      /\ \A d \in Clients \ {c} : InInit(d)' = InInit(d) /\ InCleanup(d)' = InCleanup(d)
  BY <1>1 DEF Moves, InInit, InCleanup
<1>4. /\ rpc_obj' \in [Clients -> [id : Nat, nexus : Nat]]
      /\ rpc_obj'[c].nexus = nexus
      /\ \A d \in Clients : rpc_obj'[d].id = rpc_obj[d].id
      /\ \A d \in Clients \ {c} : rpc_obj'[d] = rpc_obj[d]
  BY <1>0, <1>1 DEF EType
<1>5. EType'
  BY <1>0, <1>1, <1>4 DEF EType, Moves
<1>6. LinkInv'
  BY <1>0, <1>1, <1>3 DEF LinkInv
<1>7. CountInv'
  BY <1>0, <1>1 DEF CountInv
<1>8. ASSUME ~mixed PROVE IdInv' /\ NexusInv' /\ LockInv'
  <2>1. IdInv /\ NexusInv /\ LockInv
    BY <1>8, Phased
  <2>2. Growing' <=> Growing
    BY <1>1, <1>2, <1>3 DEF Growing
  <2>3. /\ \A d \in Clients : (epc'[d] = "null" <=> epc[d] = "null")
                           /\ (epc'[d] = "count" <=> epc[d] = "count")
                           /\ (epc'[d] = "create" <=> epc[d] = "create")
        /\ epc[c] = "rpc" /\ epc'[c] = "idle"
        /\ \A d \in Clients \ {c} : epc'[d] = epc[d]
    BY <1>1 DEF Moves
  <2>4. Holders \subseteq Clients
    BY DEF Holders
  <2>5. IdInv'
    <3>1. (\E d \in Clients : InInit(d)') => Growing'
      BY <1>3, <2>1, <2>2 DEF IdInv
    <3>2. Growing' => \A d \in Holders' : rpc_obj'[d].id < Cardinality(Holders')
      BY <1>1, <1>4, <2>1, <2>2, <2>4 DEF IdInv
    <3>3. \A d, e \in Holders' :
            epc'[d] # "count" /\ epc'[e] # "count" /\ rpc_obj'[d].id = rpc_obj'[e].id => d = e
      BY <1>1, <1>4, <2>1, <2>3, <2>4 DEF IdInv
    <3> QED BY <3>1, <3>2, <3>3 DEF IdInv
  <2>6. Closing = {} /\ \A d \in Clients : ~InCleanup(d)
    BY <1>3, <1>8, InitGrows
  <2>7. nexus # 0 /\ nexus \notin deleted
    <3>1. \A d \in Clients : epc[d] # "null"
      BY <2>6 DEF InCleanup
    <3> QED BY <1>1, <2>1, <2>3, <3>1 DEF NexusInv
  <2>8. \A d \in Clients \ {c} : HasRpc(d)' = HasRpc(d)
    BY <1>4 DEF HasRpc
  <2>9. NexusInv'
    BY <1>1, <1>4, <2>1, <2>3, <2>4, <2>6, <2>7, <2>8 DEF NexusInv
  <2>10. LockInv'
    BY <1>1, <1>4, <2>1, <2>3, <2>8 DEF LockInv
  <2> QED BY <2>5, <2>9, <2>10
<1> QED BY <1>1, <1>5, <1>6, <1>7, <1>8 DEF ErpcInv

(* Deleting an Rpc keeps the invariant. *)
LEMMA DeleteRpcInv ==
    ASSUME DriverInv, ErpcInv, NEW c \in Clients, DeleteRpc(c) PROVE ErpcInv'
<1>0. EType /\ LinkInv /\ CountInv
  BY DEF ErpcInv
<1>1. /\ UNCHANGED <<vars, locked, global_rpc_id, nexus, made, deleted>>
      /\ Moves(c, "idle", "count")
      /\ cl[c].pc = "loop" /\ cl[c].i >= ThreadOps(c) /\ CleanupDb /\ db[c] = "open"
      /\ rpc_obj' = [rpc_obj EXCEPT ![c] = NoRpc]
      /\ Holders' = Holders /\ Closing' = Closing /\ c \in Holders
      /\ ~mixed' => ~mixed /\ \A d \in Clients : ~InInit(d)
  BY <1>0, DeleteRpcEffect
<1>2. /\ UNCHANGED <<cl, db, mpc>> /\ CleanupDb' = CleanupDb
      /\ \A d \in Clients : ThreadOps(d)' = ThreadOps(d) /\ Cleaned(d)' = Cleaned(d)
  BY <1>1, StandStill
<1>3. /\ InCleanup(c)' /\ ~InInit(c)'
      /\ \A d \in Clients \ {c} : InInit(d)' = InInit(d) /\ InCleanup(d)' = InCleanup(d)
  BY <1>1 DEF Moves, InInit, InCleanup
<1>4. /\ rpc_obj' \in [Clients -> [id : Nat, nexus : Nat]]
      /\ rpc_obj'[c].nexus = 0
      /\ \A d \in Clients \ {c} : rpc_obj'[d] = rpc_obj[d]
  BY <1>0, <1>1 DEF EType, NoRpc
<1>5. EType'
  BY <1>0, <1>1, <1>4 DEF EType, Moves
<1>6. LinkInv'
  BY <1>0, <1>1, <1>2, <1>3 DEF LinkInv
<1>7. CountInv'
  BY <1>0, <1>1 DEF CountInv
<1>8. ASSUME ~mixed' PROVE IdInv' /\ NexusInv' /\ LockInv'
  <2>1. IdInv /\ NexusInv /\ LockInv
    BY <1>1, <1>8, Phased
  <2>2. /\ \A d \in Clients : (epc'[d] = "null" <=> epc[d] = "null")
                           /\ (epc'[d] = "create" <=> epc[d] = "create")
        /\ epc[c] = "idle" /\ epc'[c] = "count"
        /\ \A d \in Clients \ {c} : epc'[d] = epc[d]
    BY <1>1 DEF Moves
  <2>3. Holders \subseteq Clients
    BY DEF Holders
  <2>4. ~Growing' /\ \A d \in Clients : ~InInit(d)'
    BY <1>1, <1>3, <1>8 DEF Growing
  <2>5. \A d, e \in Holders' :
          epc'[d] # "count" /\ epc'[e] # "count" /\ rpc_obj'[d].id = rpc_obj'[e].id => d = e
    BY <1>1, <1>4, <2>1, <2>2, <2>3 DEF IdInv
  <2>6. IdInv'
    BY <2>4, <2>5 DEF IdInv
  <2>7. ~HasRpc(c)' /\ \A d \in Clients \ {c} : HasRpc(d)' = HasRpc(d)
    BY <1>4 DEF HasRpc
  <2>8. NexusInv'
    BY <1>1, <1>2, <1>4, <2>1, <2>2, <2>3, <2>7 DEF NexusInv
  <2>9. LockInv'
    BY <1>1, <1>4, <2>1, <2>2, <2>7 DEF LockInv
  <2> QED BY <2>6, <2>8, <2>9
<1> QED BY <1>5, <1>6, <1>7, <1>8 DEF ErpcInv

(* The steps of a Cleanup that is under way. *)
LEMMA CleanupShrinks ==
    ASSUME ErpcInv, ~mixed, NEW c \in Clients, InCleanup(c)
    PROVE  \A d \in Clients : ~InInit(d)
<1>1. ~Growing
  BY DEF Growing
<1> QED BY <1>1, Phased DEF IdInv

(* A Cleanup that returns leaves its client cleaned. *)
LEMMA LeavesCleaned ==
    ASSUME DriverInv, LinkInv, NEW c \in Clients, InCleanup(c), Leaves(c)
    PROVE  Cleaned(c)' /\ mpc' # "begin"
<1>1. cl[c].pc = "loop" /\ CleanupDb
  BY DEF LinkInv
<1>2. mpc # "begin"
  BY <1>1 DEF DriverInv, LatchesOutliveThreads
<1> QED BY <1>1, <1>2 DEF Leaves, Cleaned

(* The last one's counting down keeps the invariant: nobody uses the Nexus. *)
LEMMA LastInv ==
    ASSUME EnoughIds, DriverInv, ErpcInv, NEW c \in Clients, CountDownId(c), WasLast PROVE ErpcInv'
<1>0. EType /\ LinkInv /\ CountInv
  BY DEF ErpcInv
<1>1. /\ UNCHANGED <<vars, locked, nexus, made, deleted, rpc_obj, mixed>>
      /\ global_rpc_id' = (global_rpc_id - 1) % IdRange
      /\ Moves(c, "count", "drop")
      /\ Holders' = Holders \ {c} /\ c \in Holders /\ Closing' = Closing \cup {c}
  BY <1>0, LastEffect
<1>2. /\ UNCHANGED <<cl, db, mpc>> /\ CleanupDb' = CleanupDb
      /\ \A d \in Clients : ThreadOps(d)' = ThreadOps(d) /\ Cleaned(d)' = Cleaned(d)
  BY <1>1, StandStill
<1>3. /\ InCleanup(c) /\ \A d \in Clients : InInit(d)' = InInit(d) /\ InCleanup(d)' = InCleanup(d)
  BY <1>1 DEF Moves, InInit, InCleanup
<1>4. EType'
  BY <1>0, <1>1 DEF EType, Moves
<1>5. LinkInv'
  BY <1>0, <1>1, <1>2, <1>3 DEF LinkInv
<1>6. CountInv' /\ Holders' = {}
  BY <1>0, <1>1, OneLess
<1>7. ASSUME ~mixed PROVE IdInv' /\ NexusInv' /\ LockInv'
  <2>1. IdInv /\ NexusInv /\ LockInv
    BY <1>7, Phased
  <2>2. /\ \A d \in Clients : (epc'[d] = "null" <=> epc[d] = "null")
                           /\ (epc'[d] = "create" <=> epc[d] = "create")
        /\ epc[c] = "count" /\ epc'[c] = "drop"
        /\ \A d \in Clients \ {c} : epc'[d] = epc[d]
    BY <1>1 DEF Moves
  <2>3. ~Growing' /\ \A d \in Clients : ~InInit(d)'
    BY <1>3, <1>7, CleanupShrinks DEF Growing
  <2>4. IdInv'
    BY <1>6, <2>3 DEF IdInv
  <2>5. \A d \in Clients : HasRpc(d)' = HasRpc(d)
    BY <1>1 DEF HasRpc
  <2>6. nexus # 0 /\ Closing = {} /\ ~HasRpc(c)
    BY <1>1, <2>1, <2>2 DEF NexusInv
  <2>7. NexusInv'
    BY <1>1, <1>2, <1>6, <2>1, <2>2, <2>5, <2>6 DEF NexusInv
  <2>8. LockInv'
    BY <1>1, <2>1, <2>2, <2>5 DEF LockInv
  <2> QED BY <2>4, <2>7, <2>8
<1> QED BY <1>1, <1>4, <1>5, <1>6, <1>7 DEF ErpcInv

(* So does that of a client that others outlive. *)
LEMMA CountDownInv ==
    ASSUME EnoughIds, DriverInv, ErpcInv, NEW c \in Clients, CountDownId(c), ~WasLast
    PROVE  ErpcInv'
<1>0. EType /\ LinkInv /\ CountInv
  BY DEF ErpcInv
<1>1. /\ UNCHANGED <<locked, nexus, made, deleted, rpc_obj, mixed>> /\ Leaves(c)
      /\ global_rpc_id' = (global_rpc_id - 1) % IdRange
      /\ Moves(c, "count", "idle")
      /\ Holders' = Holders \ {c} /\ c \in Holders /\ Closing' = Closing
  BY <1>0, CountDownEffect
<1>2. /\ InCleanup(c) /\ ~InCleanup(c)' /\ ~InInit(c) /\ ~InInit(c)'
      /\ \A d \in Clients \ {c} : InInit(d)' = InInit(d) /\ InCleanup(d)' = InCleanup(d)
  BY <1>1 DEF Moves, InInit, InCleanup
<1>3. EType'
  BY <1>0, <1>1 DEF EType, Moves
<1>4. LinkInv'
  BY <1>0, <1>1, <1>2 DEF LinkInv, Leaves
<1>5. CountInv' /\ Holders' # {}
  BY <1>0, <1>1, OneLess
<1>6. ASSUME ~mixed PROVE IdInv' /\ NexusInv' /\ LockInv'
  <2>1. IdInv /\ NexusInv /\ LockInv
    BY <1>6, Phased
  <2>2. /\ \A d \in Clients : (epc'[d] = "null" <=> epc[d] = "null")
                           /\ (epc'[d] = "create" <=> epc[d] = "create")
        /\ epc[c] = "count" /\ epc'[c] = "idle"
        /\ \A d \in Clients \ {c} : epc'[d] = epc[d]
    BY <1>1 DEF Moves
  <2>3. Holders \subseteq Clients
    BY DEF Holders
  <2>4. ~Growing' /\ \A d \in Clients : ~InInit(d)'
    <3>1. ~Growing'
      BY <1>0, <1>1, <1>2, LeavesCleaned DEF Growing
    <3>2. \A d \in Clients : ~InInit(d)
      BY <1>2, <1>6, CleanupShrinks
    <3> QED BY <1>2, <3>1, <3>2
  <2>5. \A d, e \in Holders' :
          epc'[d] # "count" /\ epc'[e] # "count" /\ rpc_obj'[d].id = rpc_obj'[e].id => d = e
    BY <1>1, <2>1, <2>2, <2>3 DEF IdInv
  <2>6. IdInv'
    BY <2>4, <2>5 DEF IdInv
  <2>7. \A d \in Clients : HasRpc(d)' = HasRpc(d)
    BY <1>1 DEF HasRpc
  <2>8. Closing = {} /\ ~HasRpc(c)
    BY <1>1, <2>1, <2>2 DEF NexusInv
  <2>9. \A d \in Clients \ {c} : db'[d] = db[d]
    BY <1>1 DEF Leaves
  <2>10. NexusInv'
    BY <1>1, <1>5, <2>1, <2>2, <2>3, <2>7, <2>8, <2>9 DEF NexusInv
  <2>11. LockInv'
    BY <1>1, <2>1, <2>2, <2>7 DEF LockInv
  <2> QED BY <2>6, <2>10, <2>11
<1> QED BY <1>1, <1>3, <1>4, <1>5, <1>6 DEF ErpcInv

(* Deleting the Nexus keeps the invariant: nobody has an Rpc on it. *)
LEMMA DropInv ==
    ASSUME DriverInv, ErpcInv, NEW c \in Clients, DeleteNexus(c) PROVE ErpcInv'
<1>0. EType /\ LinkInv /\ CountInv
  BY DEF ErpcInv
<1>1. /\ UNCHANGED <<vars, locked, global_rpc_id, nexus, made, rpc_obj, mixed>>
      /\ deleted' = deleted \cup {nexus}
      /\ Moves(c, "drop", "null")
      /\ Holders' = Holders /\ Closing' = Closing /\ c \in Closing
  BY <1>0, DropEffect
<1>2. /\ UNCHANGED <<cl, db, mpc>> /\ CleanupDb' = CleanupDb
      /\ \A d \in Clients : ThreadOps(d)' = ThreadOps(d) /\ Cleaned(d)' = Cleaned(d)
  BY <1>1, StandStill
<1>3. /\ InCleanup(c) /\ \A d \in Clients : InInit(d)' = InInit(d) /\ InCleanup(d)' = InCleanup(d)
  BY <1>1 DEF Moves, InInit, InCleanup
<1>4. EType'
  BY <1>0, <1>1 DEF EType, Moves
<1>5. LinkInv'
  BY <1>0, <1>1, <1>2, <1>3 DEF LinkInv
<1>6. CountInv'
  BY <1>0, <1>1 DEF CountInv
<1>7. ASSUME ~mixed PROVE IdInv' /\ NexusInv' /\ LockInv'
  <2>1. IdInv /\ NexusInv /\ LockInv
    BY <1>7, Phased
  <2>2. /\ epc[c] = "drop" /\ epc'[c] = "null"
        /\ \A d \in Clients \ {c} : epc'[d] = epc[d]
    BY <1>1 DEF Moves
  <2>3. Holders = {} /\ nexus # 0 /\ \A d \in Closing : d = c
    BY <1>1, <2>1 DEF NexusInv
  <2>4. ~Growing' /\ \A d \in Clients : ~InInit(d)'
    BY <1>3, <1>7, CleanupShrinks DEF Growing
  <2>5. IdInv'
    BY <1>1, <2>3, <2>4 DEF IdInv
  <2>6. \A d \in Clients : ~HasRpc(d)
    BY <2>1, <2>3 DEF NexusInv, Holders
  <2>7. \A d \in Clients : ~HasRpc(d)'
    BY <1>1, <2>6 DEF HasRpc
  <2>8. made \in Nat /\ nexus \in 1 .. made
    BY <1>0, <2>3 DEF EType
  <2>9. deleted' \subseteq 1 .. made'
    BY <1>1, <2>1, <2>8 DEF NexusInv
  <2>10. NexusInv'
    BY <1>1, <2>1, <2>2, <2>3, <2>7, <2>9 DEF NexusInv
  <2>11. ASSUME locked PROVE LockInv'
    <3>1. \A d \in Clients : epc[d] # "null"
      BY <2>2, <2>3 DEF Closing
    <3>2. deleted = 1 .. (made - 1) /\ nexus = made
      BY <2>1, <2>3, <2>11, <3>1 DEF LockInv
    <3>3. deleted' = 1 .. made
      BY <1>1, <2>8, <3>2
    <3>4. \A d \in Clients : epc'[d] # "create"
      <4>1. \A d \in Clients : epc[d] # "create"
        BY <2>3 DEF Holders
      <4> QED BY <2>2, <4>1
    <3> QED BY <1>1, <2>2, <2>7, <3>2, <3>3, <3>4 DEF LockInv
  <2>12. LockInv'
    BY <1>1, <2>11 DEF LockInv
  <2> QED BY <2>5, <2>10, <2>12
<1> QED BY <1>1, <1>4, <1>5, <1>6, <1>7 DEF ErpcInv

(* Setting the pointer to null keeps the invariant. *)
LEMMA NullInv ==
    ASSUME DriverInv, ErpcInv, NEW c \in Clients, NullNexus(c) PROVE ErpcInv'
<1>0. EType /\ LinkInv /\ CountInv
  BY DEF ErpcInv
<1>1. /\ UNCHANGED <<locked, global_rpc_id, made, deleted, rpc_obj, mixed>> /\ Leaves(c)
      /\ nexus' = 0
      /\ Moves(c, "null", "idle")
      /\ Holders' = Holders /\ Closing' = Closing \ {c} /\ c \in Closing
  BY <1>0, NullEffect
<1>2. /\ InCleanup(c) /\ ~InCleanup(c)' /\ ~InInit(c) /\ ~InInit(c)'
      /\ \A d \in Clients \ {c} : InInit(d)' = InInit(d) /\ InCleanup(d)' = InCleanup(d)
  BY <1>1 DEF Moves, InInit, InCleanup
<1>3. made \in Nat /\ EType'
  BY <1>0, <1>1 DEF EType, Moves
<1>4. LinkInv'
  BY <1>0, <1>1, <1>2 DEF LinkInv, Leaves
<1>5. CountInv'
  BY <1>0, <1>1 DEF CountInv
<1>6. ASSUME ~mixed PROVE IdInv' /\ NexusInv' /\ LockInv'
  <2>1. IdInv /\ NexusInv /\ LockInv
    BY <1>6, Phased
  <2>2. /\ epc[c] = "null" /\ epc'[c] = "idle"
        /\ \A d \in Clients \ {c} : epc'[d] = epc[d]
    BY <1>1 DEF Moves
  <2>3. Holders = {} /\ Closing' = {}
    BY <1>1, <2>1 DEF NexusInv
  <2>4. ~Growing' /\ \A d \in Clients : ~InInit(d)'
    <3>1. ~Growing'
      BY <1>0, <1>1, <1>2, LeavesCleaned DEF Growing
    <3>2. \A d \in Clients : ~InInit(d)
      BY <1>2, <1>6, CleanupShrinks
    <3> QED BY <1>2, <3>1, <3>2
  <2>5. IdInv'
    BY <1>1, <2>3, <2>4 DEF IdInv
  <2>6. \A d \in Clients : ~HasRpc(d)
    BY <2>1, <2>3 DEF NexusInv, Holders
  <2>7. \A d \in Clients : ~HasRpc(d)'
    BY <1>1, <2>6 DEF HasRpc
  <2>8. 0 \notin deleted
    BY <1>3, <2>1 DEF NexusInv
  <2>9. NexusInv'
    BY <1>1, <2>1, <2>3, <2>7, <2>8 DEF NexusInv
  <2>10. locked => deleted = 1 .. made
    BY <2>1, <2>2 DEF LockInv
  <2>11. LockInv'
    BY <1>1, <2>7, <2>10 DEF LockInv
  <2> QED BY <2>5, <2>9, <2>11
<1> QED BY <1>1, <1>3, <1>4, <1>5, <1>6 DEF ErpcInv

-----------------------------------------------------------------------------
(* 6.4 The invariant, and the theorems. *)

(* The invariant holds when the process begins. *)
LEMMA EInitInv == EInit => ErpcInv
<1> SUFFICES ASSUME EInit PROVE ErpcInv
  OBVIOUS
<1>1. /\ global_rpc_id = 0 /\ nexus = 0 /\ made = 0 /\ deleted = {}
      /\ rpc_obj = [c \in Clients |-> NoRpc] /\ epc = [c \in Clients |-> "idle"]
      /\ db = [c \in Clients |-> "closed"] /\ mpc = "begin"
  BY DEF EInit, Init
<1>2. \A c \in Clients : epc[c] = "idle" /\ db[c] = "closed" /\ rpc_obj[c].nexus = 0
  BY <1>1 DEF NoRpc
<1>3. Holders = {} /\ Closing = {}
  BY <1>2 DEF Holders, Closing
<1>4. EType
  BY <1>1 DEF EType, NoRpc, Epcs
<1>5. \A c \in Clients : ~InInit(c) /\ ~InCleanup(c) /\ ~HasRpc(c)
  BY <1>2 DEF InInit, InCleanup, HasRpc
<1>6. LinkInv
  BY <1>5 DEF LinkInv
<1>7. CountInv
  <2>1. Cardinality(Holders) = 0
    BY <1>3, FS_EmptySet
  <2>2. 0 % IdRange = 0
    BY ErpcAssumption
  <2> QED BY <1>1, <2>1, <2>2 DEF CountInv
<1>8. IdInv
  BY <1>3, <1>5 DEF IdInv
<1>9. NexusInv
  BY <1>1, <1>3, <1>5 DEF NexusInv
<1>10. LockInv
  BY <1>1, <1>2, <1>5 DEF LockInv
<1> QED BY <1>4, <1>6, <1>7, <1>8, <1>9, <1>10 DEF ErpcInv

(* Every step keeps the invariant. *)
LEMMA ENextInv == ASSUME EnoughIds, DriverInv, ErpcInv, [ENext]_nexusvars PROVE ErpcInv'
<1>1. CASE MainStep /\ UNCHANGED evars
  BY <1>1, MainQuiet
<1>2. ASSUME NEW c \in Clients,
             \/ EnterInit(c) \/ TakeId(c) \/ TestNexus(c) \/ CreateNexus(c) \/ CreateRpc(c)
             \/ DeleteRpc(c) \/ DeleteNexus(c) \/ NullNexus(c)
      PROVE  ErpcInv'
  BY <1>2, EnterInv, TakeInv, TestInv, CreateInv, CreateRpcInv, DeleteRpcInv, DropInv, NullInv
<1>3. ASSUME NEW c \in Clients, CountDownId(c) PROVE ErpcInv'
  BY <1>3, LastInv, CountDownInv
<1>4. ASSUME NEW c \in Clients,
             \/ SkipCleanup(c)
             \/ (ClientReady(c) \/ Iterate(c) \/ ClientReturn(c)) /\ UNCHANGED evars
      PROVE  ErpcInv'
  BY <1>4, ClientQuiet DEF SkipCleanup
<1>5. CASE UNCHANGED nexusvars
  <2>1. UNCHANGED vars /\ UNCHANGED <<evars, db, cl>>
    BY <1>5 DEF nexusvars, vars
  <2>2. /\ UNCHANGED <<cl, db, mpc>> /\ CleanupDb' = CleanupDb
        /\ \A d \in Clients : ThreadOps(d)' = ThreadOps(d) /\ Cleaned(d)' = Cleaned(d)
    BY <2>1, StandStill
  <2>3. \A d \in Clients : InInit(d)' = InInit(d) /\ InCleanup(d)' = InCleanup(d)
    BY <2>1 DEF InInit, InCleanup, evars
  <2>4. Growing' <=> Growing
    BY <2>2, <2>3 DEF Growing
  <2>5. /\ \A c \in Clients : InInit(c) => cl'[c].pc = "init"
        /\ \A c \in Clients : InCleanup(c) =>
             cl'[c].pc = "loop" /\ cl'[c].i >= ThreadOps(c)' /\ CleanupDb'
    BY <2>2 DEF ErpcInv, LinkInv
  <2> QED BY <2>1, <2>4, <2>5, QuietStep
<1> QED BY <1>1, <1>2, <1>3, <1>4, <1>5 DEF ENext

(***************************************************************************)
(* The invariants of the driver and of the end point, together.            *)
(***************************************************************************)
THEOREM ErpcInvariant == ASSUME EnoughIds PROVE ESpec => [](DriverInv /\ ErpcInv)
<1>1. EInit => DriverInv /\ ErpcInv
  BY InitInv, EInitInv DEF EInit
<1>2. DriverInv /\ ErpcInv /\ [ENext]_nexusvars => (DriverInv /\ ErpcInv)'
  BY NextInv, ENextInv, EStepIsDriverStep
<1> QED BY <1>1, <1>2, PTL DEF ESpec

(***************************************************************************)
(* Init and Cleanup of the eRPC bindings: for up to 256 clients, if every  *)
(* Init of a phase comes before its first Cleanup, Rpc objects that exist  *)
(* together have distinct ids and a Nexus that is not deleted.  Where Init *)
(* holds lk_, they share the one Nexus, and when main is through, the ids  *)
(* are given back and every Nexus is deleted.                              *)
(***************************************************************************)
THEOREM IsSafeIfPhased == ASSUME EnoughIds PROVE ESpec => []SafeIfPhased
<1>1. DriverInv /\ ErpcInv => SafeIfPhased
  <2> SUFFICES ASSUME DriverInv, ErpcInv, ~mixed
               PROVE  /\ IdsDistinct
                      /\ \A c \in Clients : rpc_obj[c].nexus \notin deleted
                      /\ locked => \A c \in Clients : HasRpc(c) => rpc_obj[c].nexus = nexus
                      /\ locked /\ mpc = "end" =>
                           nexus = 0 /\ global_rpc_id = 0 /\ deleted = 1 .. made
    BY DEF SafeIfPhased
  <2>0. EType /\ LinkInv /\ CountInv /\ IdInv /\ NexusInv /\ LockInv
    BY DEF ErpcInv
  <2>1. IdsDistinct
    <3>1. \A c \in Clients : HasRpc(c) => c \in Holders /\ epc[c] # "count"
      BY <2>0 DEF NexusInv, Holders
    <3> QED BY <2>0, <3>1 DEF IdsDistinct, IdInv
  <2>2. \A c \in Clients : rpc_obj[c].nexus \notin deleted
    <3>1. 0 \notin deleted
      BY <2>0 DEF NexusInv, EType
    <3> QED BY <2>0, <3>1 DEF NexusInv, HasRpc
  <2>3. locked => \A c \in Clients : HasRpc(c) => rpc_obj[c].nexus = nexus
    BY <2>0 DEF LockInv
  <2>4. ASSUME locked, mpc = "end" PROVE nexus = 0 /\ global_rpc_id = 0 /\ deleted = 1 .. made
    <3>1. \A c \in Clients : cl[c].pc = "returned" /\ db[c] = "closed"
      BY <2>4 DEF DriverInv, MainInv, DbInv, Unfinished, CleanupDb
    <3>2. \A c \in Clients : epc[c] = "idle"
      BY <2>0, <3>1 DEF LinkInv, InInit, InCleanup, EType, Epcs
    <3>3. Holders = {} /\ Closing = {}
      BY <3>1, <3>2 DEF Holders, Closing
    <3>4. nexus = 0
      BY <2>0, <3>3 DEF NexusInv
    <3>5. global_rpc_id = 0
      <4>1. Cardinality(Holders) = 0
        BY <3>3, FS_EmptySet
      <4>2. 0 % IdRange = 0
        BY ErpcAssumption
      <4> QED BY <2>0, <4>1, <4>2 DEF CountInv
    <3>6. deleted = 1 .. made
      BY <2>0, <2>4, <3>4 DEF LockInv
    <3> QED BY <3>4, <3>5, <3>6
  <2> QED BY <2>1, <2>2, <2>3, <2>4
<1> QED BY <1>1, ErpcInvariant, PTL
=============================================================================
