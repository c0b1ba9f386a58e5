------------------------------ MODULE Workload ------------------------------
(***************************************************************************)
(* What the clients do with a database: CoreWorkload and the workloads     *)
(* derived from it (CheckingWorkload, TracePeek, PureInsertWorkload), over *)
(* the two phases of a process and, for CheckingWorkload, over two         *)
(* processes, of which the first stops itself in the middle of its load.   *)
(*                                                                         *)
(* Operations are chosen by op_chooser_, keys by key_chooser_; the keys of *)
(* inserting transactions come from the acknowledged counter, used here as *)
(* AckPrefix describes it (AckCounter implements it).  Random numbers are  *)
(* any number of their range.  Keys are identified by their numbers, of    *)
(* which BuildKeyName makes distinct names.                                *)
(***************************************************************************)
EXTENDS Integers, Sequences, FiniteSetsExt, SequencesExt, InsertTrace

CONSTANTS
    NumThreads,    \* threadcount
    RecordCount,   \* recordcount: operations of the load phase
    W,             \* the window of the acknowledged counter
    Scenarios      \* the configurations to check, as records:
                   \*   workload, mode ("load", "run", "both": phases of one process;
                   \*   "restart": a process for each phase), ops (operationcount),
                   \*   weights (proportions), dist (requestdistribution), newkeys,
                   \*   minread, maxread (of "sequential"), insertstart,
                   \*   stopat (checkingcount), failures (writes may fail), trace

ASSUME WorkloadAssumption ==
    /\ NumThreads \in Nat \ {0} /\ RecordCount \in Nat \ {0} /\ W \in Nat \ {0}

VARIABLES
    cfg,        \* the scenario
    phase,      \* "load", "run", "over" or "crashed"
    stored,     \* the keys in the database
    \* of the process
    insertNext,   \* insert_key_sequence_
    counter,      \* transaction_insert_key_sequence_, as AckPrefix sees it
    acked, limit, overrun,
    lastOp,       \* op_chooser_.last_
    zeta,         \* how often ZipfianGenerator::zeta_n_ includes each term
    zetaCount,    \* count_for_zeta_
    txCount,      \* tx_count_
    correct,      \* correct_count_
    exiting,      \* exit(1) was called
    \* of each client thread
    pc, op, key, status,
    left,         \* operations still to do
    oks,          \* oks of ClientThread
    seqNext,      \* SequentialGenerator::counter_ (thread_local)
    zipfMax,      \* max of SkewedLatestGenerator::Next
    reader,       \* InsertThreadState
    \* history
    measured,     \* of each client: calls that DBWrapper saw succeed
    rmwReads,     \* and those of them that began a read-modify-write
    replayed,     \* and the keys it took from its trace in this phase
    inserted,     \* keys given to db.Insert, by this process or the one that loaded
    collided,     \* some key was given to db.Insert twice
    failed        \* keys whose insertion failed

prefixVars == <<counter, acked, limit, overrun>>
procVars == <<insertNext, prefixVars, lastOp, zeta, zetaCount, txCount, correct, exiting>>
threadVars == <<pc, op, key, status, left, oks, seqNext, zipfMax, reader>>
history == <<measured, rmwReads, replayed, inserted, collided, failed>>
vars == <<cfg, phase, stored, procVars, threadVars, history>>

Prefix == INSTANCE AckPrefix

Threads == 0 .. (NumThreads - 1)
OpOrder == <<"read", "update", "insert", "scan", "rmw", "rdidx">>
Transactions == Range(OpOrder)

ASSUME ScenarioAssumption ==
    \A s \in Scenarios :
      /\ s.workload \in {"core", "checking", "tracepeek", "pureinsert"}
      /\ s.mode \in {"load", "run", "both", "restart"}
      /\ s.dist \in {"uniform", "zipfian", "latest", "sequential"}
      /\ {s.ops, s.newkeys, s.minread, s.maxread, s.insertstart, s.stopat} \subseteq Nat
      /\ s.weights \in [Transactions -> Nat]

(* Mutation: the share is rounded up for everyone. *)
ThreadOpsUp(total, t) == total \div NumThreads + 1

(* The share of a phase's operations of each client (Driver). *)
ThreadOps(total, t) == total \div NumThreads + IF t < total % NumThreads THEN 1 ELSE 0

(* Every client's files of the trace suffice for its operations in each phase. *)
ASSUME TraceAssumption ==
    \A s \in Scenarios : s.workload = "pureinsert" =>
      /\ s.trace \in Seq(Seq(Nat))
      /\ \A ops \in (IF s.mode = "run" THEN {} ELSE {RecordCount})
                       \cup (IF s.mode = "load" THEN {} ELSE {s.ops}), t \in Threads :
           \E n \in 0 .. (Len(s.trace) \div NumThreads) :
             Records(s.trace, t, NumThreads, n) >= ThreadOps(ops, t)

Total(ph) == CASE ph = "load" -> RecordCount [] ph = "run" -> cfg.ops [] OTHER -> 0

FirstPhase == IF cfg.mode = "run" THEN "run" ELSE "load"
NextPhase ==
    IF /\ phase = "load"
       /\ cfg.mode = "restart" \/ (cfg.mode = "both" /\ ~exiting)      \* exit(1) ends both
    THEN "run" ELSE "over"

MaxTerm == RecordCount + Max({s.ops : s \in Scenarios})

-----------------------------------------------------------------------------
(* CoreWorkload::Init, InitThread *)

(* The operations with a proportion above 0, by their places in the order of AddValue. *)
Added == {i \in DOMAIN OpOrder : cfg.weights[OpOrder[i]] > 0}

FirstOp == IF Added = {} THEN "none" ELSE OpOrder[Min(Added)]

(* zipfian_(basis_.Last()) sums up the terms 1 .. Last(). *)
FirstTerms == IF cfg.dist = "latest" THEN RecordCount - 1 ELSE 0
Zeta(n) == [i \in 1 .. MaxTerm |-> IF i <= n THEN 1 ELSE 0]

Each(v) == [t \in Threads |-> v]
Quotas(ph) == [t \in Threads |-> ThreadOps(Total(ph), t)]
Readers(ph) ==
    [t \in Threads |-> IF cfg.workload = "pureinsert" /\ Total(ph) > 0
                       THEN Reader(cfg.trace, t, NumThreads, ThreadOps(Total(ph), t))
                       ELSE NoReader]

Init ==
    /\ cfg \in Scenarios
    /\ phase = FirstPhase
    /\ stored = IF cfg.mode = "run" /\ cfg.workload # "pureinsert"
                THEN cfg.insertstart .. (cfg.insertstart + RecordCount - 1) ELSE {}
    /\ insertNext = cfg.insertstart
    /\ Prefix!Init
    /\ lastOp = FirstOp /\ zetaCount = FirstTerms /\ zeta = Zeta(FirstTerms)
    /\ txCount = 0 /\ correct = 0 /\ exiting = FALSE
    /\ pc = Each("idle") /\ op = Each("none") /\ key = Each(0) /\ status = Each("none")
    /\ left = Quotas(FirstPhase) /\ reader = Readers(FirstPhase)
    /\ oks = Each(0) /\ seqNext = Each(0) /\ zipfMax = Each(0)
    /\ measured = Each(0) /\ rmwReads = Each(0) /\ replayed = Each(<<>>)
    /\ inserted = stored /\ collided = FALSE /\ failed = {}

-----------------------------------------------------------------------------
(* Threads between phases *)

(* cur_workload = workloads[0], of an empty vector: the process dies. *)
NullReader == cfg.workload = "pureinsert" /\ \E t \in Threads : reader[t].workloads = <<>>

Running == phase \in {"load", "run"} /\ ~NullReader

InitThreadCrash ==
    /\ phase \in {"load", "run"} /\ NullReader
    /\ phase' = "crashed"
    /\ UNCHANGED <<cfg, stored, procVars, threadVars, history>>

PhaseDone == ~exiting /\ \A t \in Threads : pc[t] = "idle" /\ left[t] = 0

(* New threads for the next phase: their local and thread_local variables start anew. *)
StartThreads ==
    /\ phase' = NextPhase
    /\ pc' = Each("idle") /\ op' = Each("none") /\ key' = Each(0) /\ status' = Each("none")
    /\ left' = Quotas(NextPhase) /\ reader' = Readers(NextPhase)
    /\ oks' = Each(0) /\ seqNext' = Each(0) /\ zipfMax' = Each(0)
    /\ measured' = Each(0) /\ rmwReads' = Each(0) /\ replayed' = Each(<<>>)
    /\ UNCHANGED <<cfg, stored, inserted, collided, failed>>

EndPhase ==
    /\ Running /\ PhaseDone /\ ~(cfg.mode = "restart" /\ phase = "load")
    /\ StartThreads
    /\ UNCHANGED procVars

(* exit(1), or the end of main, and another process for the next phase.  The  *)
(* other clients go on until the process is gone; what they were doing is cut *)
(* short.                                                                     *)
EndProcess ==
    /\ Running
    /\ exiting \/ (PhaseDone /\ cfg.mode = "restart" /\ phase = "load")
    /\ StartThreads
    /\ insertNext' = cfg.insertstart
    /\ counter' = RecordCount /\ acked' = {} /\ limit' = RecordCount - 1 /\ overrun' = FALSE
    /\ lastOp' = FirstOp /\ zetaCount' = FirstTerms /\ zeta' = Zeta(FirstTerms)
    /\ txCount' = 0 /\ correct' = 0 /\ exiting' = FALSE

Goto(t, l) == pc' = [pc EXCEPT ![t] = l]
At(t, l) == Running /\ pc[t] = l
Ready(t) == At(t, "idle") /\ left[t] > 0

-----------------------------------------------------------------------------
(* Choosing an operation *)

Upto(i) == MapThenSumSet(LAMBDA j : cfg.weights[OpOrder[j]], Added \cap 1 .. i)

(* Mutation: the first value is what a draw that misses all of them returns. *)
DiscreteNextUnweighted(x) ==
    LET hit == {i \in Added : x < Upto(i)}
    IN  IF hit = {} THEN OpOrder[1] ELSE OpOrder[Min(hit)]

(* DiscreteGenerator::Next.  x = Upto(Len(OpOrder)) stands for a draw of which  *)
(* rounding leaves something after the last value.                            *)
DiscreteNext(x) ==
    LET hit == {i \in Added : x < Upto(i)}
    IN  IF hit = {} THEN lastOp ELSE OpOrder[Min(hit)]

Label(o) == CASE o = "insert" -> "take" [] o = "rdidx" -> "count" [] OTHER -> "draw"

(* DoTransaction: status is not initialised, and the RDIDX case leaves it so. *)
ChooseOp(t) ==
    /\ Ready(t) /\ phase = "run" /\ cfg.workload = "core"
    /\ \E x \in 0 .. Upto(Len(OpOrder)) :
         /\ op' = [op EXCEPT ![t] = DiscreteNext(x)]
         /\ lastOp' = DiscreteNext(x)
    /\ status' = [status EXCEPT ![t] = "uninitialised"]
    /\ Goto(t, Label(op'[t]))
    /\ UNCHANGED <<cfg, phase, stored, insertNext, prefixVars, zeta, zetaCount, txCount, correct,
                   exiting, key, left, oks, seqNext, zipfMax, reader, history>>

(* TracePeek::DoTransaction draws the key first. *)
PeekKey(t) ==
    /\ Ready(t) /\ phase = "run" /\ cfg.workload = "tracepeek"
    /\ op' = [op EXCEPT ![t] = "peek"]
    /\ Goto(t, "draw")
    /\ UNCHANGED <<cfg, phase, stored, procVars, key, status, left, oks, seqNext, zipfMax, reader,
                   history>>

PeekOp(t) ==
    /\ At(t, "peek")
    /\ \E x \in 0 .. Upto(Len(OpOrder)) : lastOp' = DiscreteNext(x)
    /\ status' = [status EXCEPT ![t] = "ok"]
    /\ Goto(t, "count")
    /\ UNCHANGED <<cfg, phase, stored, insertNext, prefixVars, zeta, zetaCount, txCount, correct,
                   exiting, op, key, left, oks, seqNext, zipfMax, reader, history>>

-----------------------------------------------------------------------------
(* NextTransactionKeyNum *)

Drawn(t, k) == key' = [key EXCEPT ![t] = k] /\ Goto(t, "check")

(* UniformGenerator(0, recordcount - 1), ScrambledZipfianGenerator(recordcount + new_keys) *)
RandomKeys == 0 .. (RecordCount - 1 + IF cfg.dist = "zipfian" THEN cfg.newkeys ELSE 0)

DrawRandom(t) ==
    /\ At(t, "draw") /\ cfg.dist \in {"uniform", "zipfian"}
    /\ \E k \in RandomKeys : Drawn(t, k)
    /\ UNCHANGED <<cfg, phase, stored, procVars, op, status, left, oks, seqNext, zipfMax, reader,
                   history>>

(* Mutation: the counter stays at its end. *)
AfterStays(n) == IF n + 1 >= cfg.maxread THEN n ELSE n + 1

(* if (++counter_ >= max_) counter_ = min_ *)
After(n) == IF n + 1 >= cfg.maxread THEN cfg.minread ELSE n + 1

DrawSequential(t) ==
    /\ At(t, "draw") /\ cfg.dist = "sequential"
    /\ LET val == IF seqNext[t] = 0 THEN cfg.minread ELSE seqNext[t]
       IN  Drawn(t, val) /\ seqNext' = [seqNext EXCEPT ![t] = After(val)]
    /\ UNCHANGED <<cfg, phase, stored, procVars, op, status, left, oks, zipfMax, reader, history>>

(* SkewedLatestGenerator::Next: max = basis_.Last() ... *)
ReadLast(t) ==
    /\ At(t, "draw") /\ cfg.dist = "latest"
    /\ zipfMax' = [zipfMax EXCEPT ![t] = limit]
    /\ Goto(t, "zipf")
    /\ UNCHANGED <<cfg, phase, stored, procVars, op, key, status, left, oks, seqNext, reader,
                   history>>

(* Mutation: num is not compared again under the lock. *)
GrowsIfDifferent(num) == num # zetaCount

Grows(num) == num > zetaCount

(* ... and max - zipfian_.Next(max), which first extends zeta_n_, under mutex_. *)
DrawLatest(t) ==
    /\ At(t, "zipf")
    /\ LET num == zipfMax[t]
       IN  /\ zeta' = [i \in 1 .. MaxTerm |->
                         zeta[i] + IF Grows(num) /\ i \in (zetaCount + 1) .. num THEN 1 ELSE 0]
           /\ zetaCount' = IF Grows(num) THEN num ELSE zetaCount
           /\ \E z \in 0 .. (num - 1) : Drawn(t, num - z)
    /\ UNCHANGED <<cfg, phase, stored, insertNext, prefixVars, lastOp, txCount, correct, exiting,
                   op, status, left, oks, seqNext, zipfMax, reader, history>>

(* Mutation: one key beyond the last acknowledged one is taken. *)
AboveLastPlusOne(k) == k > limit + 1

AboveLast(k) == k > limit

CheckKey(t) ==
    /\ At(t, "check")
    /\ Goto(t, IF AboveLast(key[t]) THEN "draw" ELSE IF op[t] = "rmw" THEN "rmwread" ELSE op[t])
    /\ UNCHANGED <<cfg, phase, stored, procVars, op, key, status, left, oks, seqNext, zipfMax,
                   reader, history>>

-----------------------------------------------------------------------------
(* Inserting: where the key comes from *)

GivenToInsert(k) == inserted' = inserted \cup {k} /\ collided' = (collided \/ k \in inserted)

(* DoInsert: insert_key_sequence_->Next() *)
LoadKey(t) ==
    /\ Ready(t) /\ phase = "load" /\ cfg.workload # "pureinsert"
    /\ key' = [key EXCEPT ![t] = insertNext]
    /\ insertNext' = insertNext + 1
    /\ GivenToInsert(insertNext)
    /\ Goto(t, "insert")
    /\ UNCHANGED <<cfg, phase, stored, prefixVars, lastOp, zeta, zetaCount, txCount, correct,
                   exiting, op, status, left, oks, seqNext, zipfMax, reader, measured, rmwReads,
                   replayed, failed>>

(* TransactionInsert: transaction_insert_key_sequence_->Next() *)
TakeKey(t) ==
    /\ At(t, "take")
    /\ Prefix!HandOut
    /\ key' = [key EXCEPT ![t] = counter]
    /\ GivenToInsert(counter)
    /\ Goto(t, "insert")
    /\ UNCHANGED <<cfg, phase, stored, insertNext, lastOp, zeta, zetaCount, txCount, correct,
                   exiting, op, status, left, oks, seqNext, zipfMax, reader, measured, rmwReads,
                   replayed, failed>>

(* PureInsertWorkload::DoInsert, for both phases. *)
ReplayKey(t) ==
    /\ Ready(t) /\ cfg.workload = "pureinsert"
    /\ LET r == Turned(reader[t])
       IN  /\ key' = [key EXCEPT ![t] = KeyAt(r)]
           /\ reader' = [reader EXCEPT ![t] = Advanced(r)]
           /\ replayed' = [replayed EXCEPT ![t] = Append(@, KeyAt(r))]
    /\ Goto(t, "insert")
    /\ UNCHANGED <<cfg, phase, stored, procVars, op, status, left, oks, seqNext, zipfMax, measured,
                   rmwReads, inserted, collided, failed>>

(* A wild read may kill the process instead. *)
ReplayCrash(t) ==
    /\ Ready(t) /\ cfg.workload = "pureinsert"
    /\ KeyAt(Turned(reader[t])) = Garbage
    /\ phase' = "crashed"
    /\ UNCHANGED <<cfg, stored, procVars, threadVars, history>>

(* CheckingWorkload::DoTransaction reads the keys in the order of their insertion. *)
NextToCheck(t) ==
    /\ Ready(t) /\ phase = "run" /\ cfg.workload = "checking"
    /\ key' = [key EXCEPT ![t] = insertNext]
    /\ insertNext' = insertNext + 1
    /\ Goto(t, "read")
    /\ UNCHANGED <<cfg, phase, stored, prefixVars, lastOp, zeta, zetaCount, txCount, correct,
                   exiting, op, status, left, oks, seqNext, zipfMax, reader, history>>

-----------------------------------------------------------------------------
(* The database call, and what follows it *)

(* External: a read or an update needs the record; a write may fail. *)
Outcomes(t) ==
    {IF pc[t] \in {"insert", "scan"} \/ key[t] \in stored THEN "ok" ELSE "notfound"}
      \cup IF cfg.failures /\ pc[t] \in {"insert", "update"} THEN {"error"} ELSE {}

AfterCall(t) ==
    CASE pc[t] = "rmwread" -> "update"
      [] pc[t] = "insert" /\ phase = "run" /\ cfg.workload = "core" -> "ack"
      [] pc[t] = "insert" /\ cfg.workload = "checking" -> "stop"
      [] pc[t] = "read" /\ cfg.workload = "checking" -> "correct"
      [] OTHER -> "count"

(* Mutation: a read-modify-write returns the status of its read. *)
KeptStatusOfRead(t, s) == IF pc[t] = "update" /\ op[t] = "rmw" THEN status[t] ELSE s

(* TransactionReadModifyWrite drops the status of its Read. *)
KeptStatus(t, s) == IF pc[t] = "rmwread" THEN status[t] ELSE s

DbCall(t) ==
    /\ Running /\ pc[t] \in {"insert", "read", "scan", "update", "rmwread"}
    /\ \E s \in Outcomes(t) :
         /\ status' = [status EXCEPT ![t] = KeptStatus(t, s)]
         /\ stored' = IF pc[t] = "insert" /\ s = "ok" THEN stored \cup {key[t]} ELSE stored
         /\ failed' = IF pc[t] = "insert" /\ s # "ok" THEN failed \cup {key[t]} ELSE failed
         /\ measured' = [measured EXCEPT ![t] = @ + IF s = "ok" THEN 1 ELSE 0]
         /\ rmwReads' = [rmwReads EXCEPT ![t] = @ + IF s = "ok" /\ pc[t] = "rmwread" THEN 1 ELSE 0]
    /\ Goto(t, AfterCall(t))
    /\ UNCHANGED <<cfg, phase, procVars, op, key, left, oks, seqNext, zipfMax, reader, replayed,
                   inserted, collided>>

(* TransactionInsert acknowledges the key whatever the status is. *)
Acknowledge(t) ==
    /\ At(t, "ack")
    /\ \E l \in limit .. (counter - 1) : limit' = l /\ Prefix!Acknowledge(key[t])
    /\ Goto(t, "count")
    /\ UNCHANGED <<cfg, phase, stored, insertNext, lastOp, zeta, zetaCount, txCount, correct,
                   exiting, op, key, status, left, oks, seqNext, zipfMax, reader, history>>

(* Mutation: the process stops one insert early. *)
StopsEarly(n) == n + 1 = cfg.stopat

Stops(n) == n = cfg.stopat

(* CheckingWorkload::DoInsert: tx_count_.fetch_add(1) == stop_at_ *)
CountTx(t) ==
    /\ At(t, "stop")
    /\ txCount' = txCount + 1
    /\ exiting' = (exiting \/ Stops(txCount))
    /\ Goto(t, IF Stops(txCount) THEN "exit" ELSE "count")
    /\ UNCHANGED <<cfg, phase, stored, insertNext, prefixVars, lastOp, zeta, zetaCount, correct,
                   op, key, status, left, oks, seqNext, zipfMax, reader, history>>

CountCorrect(t) ==
    /\ At(t, "correct")
    /\ correct' = correct + IF status[t] = "ok" THEN 1 ELSE 0
    /\ Goto(t, "count")
    /\ UNCHANGED <<cfg, phase, stored, insertNext, prefixVars, lastOp, zeta, zetaCount, txCount,
                   exiting, op, key, status, left, oks, seqNext, zipfMax, reader, history>>

(* oks += status == kOK, of whatever an uninitialised status may be. *)
Count(t) ==
    /\ At(t, "count")
    /\ \E ok \in CASE status[t] = "uninitialised" -> {0, 1}
                   [] status[t] = "ok" -> {1}
                   [] OTHER -> {0} :
         oks' = [oks EXCEPT ![t] = @ + ok]
    /\ left' = [left EXCEPT ![t] = @ - 1]
    /\ Goto(t, "idle")
    /\ UNCHANGED <<cfg, phase, stored, procVars, op, key, status, seqNext, zipfMax, reader,
                   history>>

Step(t) ==
    \/ ChooseOp(t) \/ PeekKey(t) \/ PeekOp(t)
    \/ DrawRandom(t) \/ DrawSequential(t) \/ ReadLast(t) \/ DrawLatest(t) \/ CheckKey(t)
    \/ LoadKey(t) \/ TakeKey(t) \/ ReplayKey(t) \/ ReplayCrash(t) \/ NextToCheck(t)
    \/ DbCall(t) \/ Acknowledge(t) \/ CountTx(t) \/ CountCorrect(t) \/ Count(t)

Between == InitThreadCrash \/ EndPhase \/ EndProcess

Next == Between \/ \E t \in Threads : Step(t)

Spec == Init /\ [][Next]_vars

(***************************************************************************)
(* Every client goes on, and main waits for them.  A random generator that *)
(* is asked again and again hits the keys up to Last() some time: each of  *)
(* them has a probability above 0, at every draw.                          *)
(***************************************************************************)
FairSpec ==
    /\ Spec
    /\ WF_vars(Between)
    /\ \A t \in Threads : WF_vars(Step(t)) /\ SF_vars(DrawRandom(t) /\ key'[t] <= limit)

-----------------------------------------------------------------------------
WTypeOK ==
    /\ cfg \in Scenarios /\ phase \in {"load", "run", "over", "crashed"}
    /\ stored \subseteq Int /\ insertNext \in Nat /\ limit < counter
    /\ txCount \in 0 .. RecordCount /\ correct \in 0 .. cfg.ops
    /\ \A t \in Threads :
         /\ left[t] \in Nat /\ (pc[t] # "idle" => left[t] > 0)
         /\ phase \in {"load", "run"} => oks[t] + left[t] <= ThreadOps(Total(phase), t)
         /\ pc[t] = "exit" => exiting
         /\ op[t] \in Transactions /\ Added # {} => cfg.weights[op[t]] > 0

(***************************************************************************)
(* The key of a transaction that reads or updates has been inserted, or    *)
(* its insertion failed, whichever distribution drew it and whoever        *)
(* inserts meanwhile, provided the load began with key 0 and no            *)
(* acknowledgement overran the counter's window.                           *)
(***************************************************************************)
KeysWereInserted ==
    cfg.insertstart = 0 /\ cfg.workload # "checking" /\ ~overrun =>
        \A t \in Threads : pc[t] \in {"read", "scan", "update", "rmwread", "peek"} =>
            key[t] \in stored \cup failed

(***************************************************************************)
(* No key is inserted twice: the keys of the load, divided among clients   *)
(* by one atomic counter, end where those of the transactions, from        *)
(* another counter, begin.  With an insertstart above 0 they overlap.      *)
(***************************************************************************)
InsertsDistinct == cfg.insertstart = 0 => ~collided

(***************************************************************************)
(* The operations a client counts as successful are the database calls     *)
(* that DBWrapper measured as successful, but for the reads that begin a   *)
(* read-modify-write.  TracePeek makes no calls, and what RDIDX counts for *)
(* is undefined.                                                           *)
(***************************************************************************)
OksMatchMeasured ==
    cfg.workload # "tracepeek" /\ cfg.weights["rdidx"] = 0 =>
        \A t \in Threads : pc[t] = "idle" => oks[t] = measured[t] - rmwReads[t]

(***************************************************************************)
(* zeta_n_ is the sum of the terms 1 .. count_for_zeta_, each added once,  *)
(* although clients come with numbers of items that are older than those   *)
(* another client has extended it to.                                      *)
(***************************************************************************)
ZetaExact ==
    \A i \in 1 .. MaxTerm : zeta[i] = IF i <= zetaCount THEN 1 ELSE 0

(***************************************************************************)
(* What a check after an interrupted load finds: correct_count_ is the     *)
(* number of the keys it read that are in the database.  When the process  *)
(* stopped, stop_at_ + 1 inserts had returned, and each other client may   *)
(* have held an earlier key that it had not inserted yet: a check that     *)
(* reads so many keys more finds them all, but for inserts that failed.    *)
(***************************************************************************)
CheckedCount ==
    cfg.workload = "checking" /\ cfg.mode \in {"run", "restart"} /\ phase = "run" /\ PhaseDone =>
        /\ correct = Cardinality((cfg.insertstart .. (cfg.insertstart + cfg.ops - 1)) \cap stored)
        /\ cfg.mode = "restart" =>
             correct >= Min({cfg.stopat + 1, RecordCount, cfg.ops - (NumThreads - 1)})
                          - Cardinality(failed)

SameLength(files) == \A i, j \in DOMAIN files : Len(files[i]) = Len(files[j])

(***************************************************************************)
(* A client whose files are equally long replays their records one after   *)
(* the other, and no two clients replay the same record.  Only if files    *)
(* differ in length, or some client has no operations at all, is anything  *)
(* read through a wild pointer.                                            *)
(***************************************************************************)
TraceReplayed ==
    /\ \A t \in Threads :
         LET files == reader[t].workloads
             len == reader[t].len
         IN  SameLength(files) =>
               /\ Len(replayed[t]) <= Len(files) * len
               /\ \A i \in DOMAIN files, j \in 1 .. len : (i - 1) * len + j <= Len(replayed[t])
                    => replayed[t][(i - 1) * len + j] = files[i][j]
    /\ \A t, u \in Threads : t # u =>
         Range(replayed[t]) \cap Range(replayed[u]) \subseteq {Garbage}
    /\ phase = "crashed" =>
         ~SameLength(cfg.trace) \/ cfg.ops < NumThreads \/ RecordCount < NumThreads

(***************************************************************************)
(* Every workload comes to an end, unless the sequential distribution      *)
(* starts above the last key: then NextTransactionKeyNum draws for ever.   *)
(***************************************************************************)
WorkloadEnds ==
    (cfg.dist = "sequential" => cfg.minread < RecordCount) => <>(phase \in {"over", "crashed"})
=============================================================================
