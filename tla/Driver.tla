------------------------------- MODULE Driver -------------------------------
(***************************************************************************)
(* The benchmark driver: main's load and transaction phases, the client    *)
(* threads it spawns and joins, the status thread and the rate-file        *)
(* thread, synchronised by two count-down latches on main's stack.         *)
(*                                                                         *)
(*   core/ycsbc.cc (main, StatusThread, RateLimitThread), core/client.h,   *)
(*   utils/countdown_latch.h                                               *)
(*                                                                         *)
(* A database operation is its outcome: "ok" (DoInsert or DoTransaction    *)
(* returns true), "fail" (false), "exception" (utils::Exception, caught by *)
(* ClientThread, which calls exit(1)) or "foreign" (any other exception,   *)
(* kept in the client's future).                                           *)
(***************************************************************************)
EXTENDS Integers, FiniteSetsExt

CONSTANTS
    N,                \* threadcount
    RecordCount,      \* recordcount: operations of the load phase
    OperationCount,   \* operationcount: operations of the transaction phase
    Modes,            \* the phases asked for: a subset of {"load", "run", "both"}
    ReInits,          \* what the binding's ReInitBeforeTransaction() may return
    ShowStatus,       \* -s
    Timeds,           \* whether status.interval or status.intervalus is positive
    Skip,             \* secskip > 0
    RateLines,        \* lines of limit.file; 0 if there is none
    InitOutcomes,     \* what db->Init() may do: ok, exception, foreign
    OpOutcomes,       \* what an operation may do
    CleanupOutcomes   \* what db->Cleanup() may do: ok, exception

ASSUME CountAssumption ==
    /\ N \in Nat \ {0}
    /\ RecordCount \in Nat
    /\ OperationCount \in Nat
    /\ RateLines \in Nat
ASSUME FlagAssumption ==
    /\ Modes \subseteq {"load", "run", "both"}     \* else main prints "No operation to do"
    /\ {ReInits, Timeds} \subseteq SUBSET BOOLEAN
    /\ {ShowStatus, Skip} \subseteq BOOLEAN
    /\ InitOutcomes \subseteq {"ok", "exception", "foreign"}
    /\ OpOutcomes \subseteq {"ok", "fail", "exception", "foreign"}
    /\ CleanupOutcomes \subseteq {"ok", "exception"}

VARIABLES
    mode, reinit, timed,   \* the options and the binding, fixed from the start
    phase,        \* the phase main is in: "load" or "txn"
    mpc,          \* where main is in it: begin, spawn, await, join, end
    next,         \* the client main spawns or joins next
    sum,          \* results of the clients joined so far
    latch,        \* latch.count_
    init_latch,   \* init_latch.count_
    cl,           \* the clients: pc and the locals of ClientThread
    db,           \* dbs[i]: "closed" or "open"
    spc, done,    \* the status thread and its local
    rpc, lines,   \* the rate-file thread and the lines it has left
    outcome,      \* running, exit1 or terminate (exception out of main)
    printed,      \* history: operations finished when status was last printed
    good          \* history: ok operations each client did after the skip period

vars == <<mode, reinit, timed, phase, mpc, next, sum, latch, init_latch, cl, db, spc, done, rpc,
          lines, outcome, printed, good>>

Clients == 0 .. (N - 1)
Running == outcome = "running"

DoLoad == mode \in {"load", "both"}
DoTransaction == mode \in {"run", "both"}
ReInit == reinit

Total == IF phase = "load" THEN RecordCount ELSE OperationCount

(* Mutation: the remainder of the division is not dealt out. *)
ThreadOpsNoRemainder(i) == Total \div N

ThreadOps(i) == Total \div N + (IF i < Total % N THEN 1 ELSE 0)

(* The init_db and cleanup_db arguments of ClientThread. *)
InitDb == phase = "load" \/ ~DoLoad \/ ReInit

(* Mutation: the load phase closes the database although transactions follow. *)
CleanupAlways == TRUE

CleanupDb == phase = "txn" \/ ~DoTransaction \/ ReInit

(* Mutation: the latches are one short. *)
LatchCountShort == N - 1

LatchCount == N      \* CountDownLatch latch(num_threads), init_latch(num_threads)

(* Mutation: CountDown returns without decrementing. *)
CountedDownNever(n) == n

CountedDown(n) == n - 1

NoClient == [pc |-> "none", i |-> 0, oks |-> 0, skipped |-> 0, on |-> FALSE]

Init ==
    /\ mode \in Modes
    /\ reinit \in ReInits
    /\ timed \in Timeds
    /\ phase = IF DoLoad THEN "load" ELSE "txn"
    /\ mpc = "begin"
    /\ next = 0
    /\ sum = 0
    /\ latch = 0
    /\ init_latch = 0
    /\ cl = [c \in Clients |-> NoClient]
    /\ db = [c \in Clients |-> "closed"]
    /\ spc = "none"
    /\ done = FALSE
    /\ rpc = "none"
    /\ lines = 0
    /\ outcome = "running"
    /\ printed = 0
    /\ good = [c \in Clients |-> 0]

-----------------------------------------------------------------------------
(* main *)

BeginPhase ==
    /\ Running /\ mpc = "begin"
    /\ latch' = LatchCount
    /\ init_latch' = LatchCount
    /\ cl' = [c \in Clients |-> NoClient]
    /\ spc' = IF ShowStatus THEN "await" ELSE "none"
    /\ done' = FALSE
    /\ rpc' = "none"
    /\ next' = 0
    /\ sum' = 0
    /\ printed' = 0
    /\ good' = [c \in Clients |-> 0]
    /\ mpc' = "spawn"
    /\ UNCHANGED <<mode, reinit, timed, phase, db, lines, outcome>>

Spawn ==
    /\ Running /\ mpc = "spawn"
    /\ cl' = [cl EXCEPT ![next].pc = IF InitDb THEN "init" ELSE "thread"]
    /\ IF next + 1 < N
       THEN next' = next + 1 /\ UNCHANGED <<mpc, rpc, lines>>
       ELSE /\ next' = 0
            /\ mpc' = "await"
            /\ rpc' = IF phase = "txn" /\ RateLines > 0 THEN "wait" ELSE "none"
            /\ lines' = RateLines
    /\ UNCHANGED <<mode, reinit, timed, phase, sum, latch, init_latch, db, spc, done, outcome,
                   printed, good>>

(* init_latch.Await() *)
AwaitInit ==
    /\ Running /\ mpc = "await"
    /\ init_latch <= 0
    /\ mpc' = "join"
    /\ UNCHANGED <<mode, reinit, timed, phase, next, sum, latch, init_latch, cl, db, spc, done,
                   rpc, lines, outcome, printed, good>>

(* sum += n.get(), which rethrows what the client's future holds. *)
Join ==
    /\ Running /\ mpc = "join" /\ next < N
    /\ cl[next].pc = "returned"
    /\ sum' = sum + cl[next].oks - cl[next].skipped
    /\ next' = next + 1
    /\ UNCHANGED <<mode, reinit, timed, phase, mpc, latch, init_latch, cl, db, spc, done, rpc,
                   lines, outcome, printed, good>>

JoinRethrows ==
    /\ Running /\ mpc = "join" /\ next < N
    /\ cl[next].pc = "threw"
    /\ outcome' = "terminate"
    /\ UNCHANGED <<mode, reinit, timed, phase, mpc, next, sum, latch, init_latch, cl, db, spc,
                   done, rpc, lines, printed, good>>

(* Mutation: main does not wait for the status thread. *)
HelpersGoneNoWait == rpc \in {"none", "closed"}

(* status_future.wait(), and the destructor of rlim_future at the block's end. *)
HelpersGone == spc \in {"none", "closed"} /\ rpc \in {"none", "closed"}

EndPhase ==
    /\ Running /\ mpc = "join" /\ next = N
    /\ HelpersGone
    /\ IF phase = "load" /\ DoTransaction
       THEN phase' = "txn" /\ mpc' = "begin"
       ELSE mpc' = "end" /\ UNCHANGED phase
    /\ UNCHANGED <<mode, reinit, timed, next, sum, latch, init_latch, cl, db, spc, done, rpc,
                   lines, outcome, printed, good>>

-----------------------------------------------------------------------------
(* ClientThread *)

ClientInit(c) ==
    /\ Running /\ cl[c].pc = "init"
    /\ \E r \in InitOutcomes :
         \/ /\ r = "ok"
            /\ db' = [db EXCEPT ![c] = "open"]
            /\ cl' = [cl EXCEPT ![c].pc = "thread"]
            /\ UNCHANGED outcome
         \/ /\ r = "exception"
            /\ outcome' = "exit1"
            /\ UNCHANGED <<db, cl>>
         \/ /\ r = "foreign"
            /\ cl' = [cl EXCEPT ![c].pc = "threw"]
            /\ UNCHANGED <<db, outcome>>
    /\ UNCHANGED <<mode, reinit, timed, phase, mpc, next, sum, latch, init_latch, spc, done, rpc,
                   lines, printed, good>>

(* InitThread, init_latch->CountDown() *)
ClientReady(c) ==
    /\ Running /\ cl[c].pc = "thread"
    /\ init_latch' = CountedDown(init_latch)
    /\ cl' = [cl EXCEPT ![c].pc = "loop", ![c].on = ~Skip]
    /\ UNCHANGED <<mode, reinit, timed, phase, mpc, next, sum, latch, db, spc, done, rpc, lines,
                   outcome, printed, good>>

(* Mutation: skipped_ok is not refreshed while skipping. *)
SkippedStale(l) == l.skipped

SkippedOk(l) == IF l.on THEN l.skipped ELSE l.oks

(* One turn of the loop: the skip check, then DoInsert or DoTransaction. *)
Iterate(c) ==
    /\ Running /\ cl[c].pc = "loop" /\ cl[c].i < ThreadOps(c)
    /\ \E on \in {TRUE} \cup {cl[c].on}, r \in OpOutcomes :
         LET turn == [cl[c] EXCEPT !.on = on, !.skipped = SkippedOk(cl[c])]
         IN  \/ /\ r \in {"ok", "fail"}
                /\ cl' = [cl EXCEPT ![c] =
                            [turn EXCEPT !.i = @ + 1, !.oks = @ + (IF r = "ok" THEN 1 ELSE 0)]]
                /\ good' = [good EXCEPT ![c] = @ + (IF r = "ok" /\ on THEN 1 ELSE 0)]
                /\ UNCHANGED outcome
             \/ /\ r = "exception"
                /\ outcome' = "exit1"
                /\ UNCHANGED <<cl, good>>
             \/ /\ r = "foreign"
                /\ cl' = [cl EXCEPT ![c] = [turn EXCEPT !.pc = "threw"]]
                /\ UNCHANGED <<good, outcome>>
    /\ UNCHANGED <<mode, reinit, timed, phase, mpc, next, sum, latch, init_latch, db, spc, done,
                   rpc, lines, printed>>

ClientCleanup(c) ==
    /\ Running /\ cl[c].pc = "loop" /\ cl[c].i >= ThreadOps(c)
    /\ CleanupDb => "ok" \in CleanupOutcomes
    /\ db' = IF CleanupDb THEN [db EXCEPT ![c] = "closed"] ELSE db
    /\ cl' = [cl EXCEPT ![c].pc = "latch"]
    /\ UNCHANGED <<mode, reinit, timed, phase, mpc, next, sum, latch, init_latch, spc, done, rpc,
                   lines, outcome, printed, good>>

(* Cleanup throws utils::Exception, and ClientThread calls exit(1). *)
CleanupThrows(c) ==
    /\ Running /\ cl[c].pc = "loop" /\ cl[c].i >= ThreadOps(c)
    /\ CleanupDb /\ "exception" \in CleanupOutcomes
    /\ outcome' = "exit1"
    /\ UNCHANGED <<mode, reinit, timed, phase, mpc, next, sum, latch, init_latch, cl, db, spc,
                   done, rpc, lines, printed, good>>

(* latch->CountDown(), return oks - skipped_ok *)
ClientReturn(c) ==
    /\ Running /\ cl[c].pc = "latch"
    /\ latch' = CountedDown(latch)
    /\ cl' = [cl EXCEPT ![c].pc = "returned"]
    /\ UNCHANGED <<mode, reinit, timed, phase, mpc, next, sum, init_latch, db, spc, done, rpc,
                   lines, outcome, printed, good>>

-----------------------------------------------------------------------------
(* StatusThread *)

OpsDone == MapThenSumSet(LAMBDA c : cl[c].i, Clients)

StatusStart ==
    /\ Running /\ spc = "await"
    /\ init_latch <= 0
    /\ spc' = "print"
    /\ UNCHANGED <<mode, reinit, timed, phase, mpc, next, sum, latch, init_latch, cl, db, done,
                   rpc, lines, outcome, printed, good>>

(* Mutation: the loop ends as soon as the wait says so, without a last message. *)
StatusPrintDoneFirst ==
    /\ Running /\ spc = "print"
    /\ printed' = IF done THEN printed ELSE OpsDone
    /\ spc' = IF done THEN "closed" ELSE "wait"
    /\ UNCHANGED <<mode, reinit, timed, phase, mpc, next, sum, latch, init_latch, cl, db, done,
                   rpc, lines, outcome, good>>

StatusPrint ==
    /\ Running /\ spc = "print"
    /\ printed' = OpsDone
    /\ spc' = IF done THEN "closed" ELSE "wait"
    /\ UNCHANGED <<mode, reinit, timed, phase, mpc, next, sum, latch, init_latch, cl, db, done,
                   rpc, lines, outcome, good>>

(* latch->AwaitFor(interval) or AwaitForUs(interval_us) returns the predicate,   *)
(* notified or timed out; with neither positive the loop goes on without looking. *)
StatusWait ==
    /\ Running /\ spc = "wait"
    /\ done' = (timed /\ latch <= 0)
    /\ spc' = "print"
    /\ UNCHANGED <<mode, reinit, timed, phase, mpc, next, sum, latch, init_latch, cl, db, rpc,
                   lines, outcome, printed, good>>

(* RateLimitThread: one AwaitFor per line of the file; SetRate is in RateLimiter. *)
RateWait ==
    /\ Running /\ rpc = "wait"
    /\ IF latch <= 0
       THEN rpc' = "closed" /\ UNCHANGED lines
       ELSE /\ lines' = lines - 1
            /\ rpc' = IF lines = 1 THEN "closed" ELSE "wait"
    /\ UNCHANGED <<mode, reinit, timed, phase, mpc, next, sum, latch, init_latch, cl, db, spc,
                   done, outcome, printed, good>>

-----------------------------------------------------------------------------
MainStep == BeginPhase \/ Spawn \/ AwaitInit \/ Join \/ JoinRethrows \/ EndPhase
ClientStep(c) ==
    ClientInit(c) \/ ClientReady(c) \/ Iterate(c) \/ ClientCleanup(c) \/ CleanupThrows(c)
        \/ ClientReturn(c)
StatusStep == StatusStart \/ StatusPrint \/ StatusWait

Next ==
    \/ MainStep
    \/ \E c \in Clients : ClientStep(c)
    \/ StatusStep
    \/ RateWait

Spec == Init /\ [][Next]_vars

(* The operating system runs every thread that is not blocked. *)
FairSpec ==
    /\ Spec
    /\ WF_vars(MainStep)
    /\ \A c \in Clients : WF_vars(ClientStep(c))
    /\ WF_vars(StatusStep)
    /\ WF_vars(RateWait)

-----------------------------------------------------------------------------
Locals == [pc : {"none", "init", "thread", "loop", "latch", "returned", "threw"},
           i : Nat, oks : Nat, skipped : Nat, on : BOOLEAN]

TypeOK ==
    /\ mode \in Modes /\ reinit \in ReInits /\ timed \in Timeds
    /\ phase \in {"load", "txn"}
    /\ mpc \in {"begin", "spawn", "await", "join", "end"}
    /\ next \in 0 .. N
    /\ sum \in Nat
    /\ latch \in 0 .. N
    /\ init_latch \in 0 .. N
    /\ cl \in [Clients -> Locals]
    /\ db \in [Clients -> {"closed", "open"}]
    /\ spc \in {"none", "await", "print", "wait", "closed"}
    /\ done \in BOOLEAN
    /\ rpc \in {"none", "wait", "closed"}
    /\ lines \in Nat
    /\ outcome \in {"running", "exit1", "terminate"}
    /\ printed \in Nat
    /\ good \in [Clients -> Nat]

(***************************************************************************)
(* When main has joined every client of a phase, exactly recordcount       *)
(* (operationcount) operations were executed: the split into thread_ops    *)
(* loses and duplicates none, and no join comes early.                     *)
(***************************************************************************)
AllOpsExecuted == mpc = "join" /\ next = N => OpsDone = Total

(***************************************************************************)
(* What ClientThread returns is the number of successful operations after  *)
(* the skip period.  It is one more when the period never ended and the    *)
(* last operation succeeded: skipped_ok is refreshed before the operation. *)
(***************************************************************************)
ReturnsOpsAfterSkip ==
    \A c \in Clients : cl[c].pc = "returned" =>
        LET counted == cl[c].oks - cl[c].skipped
        IN  counted \in {good[c], good[c] + 1} /\ (cl[c].on => counted = good[c])

(***************************************************************************)
(* The status thread's last message covers every operation of the phase:   *)
(* it prints once more after the latch opened.                             *)
(***************************************************************************)
LastStatusComplete == spc = "closed" /\ mpc # "begin" => printed = Total

(***************************************************************************)
(* Across phases and for both values of ReInitBeforeTransaction, dbs[i] is *)
(* initialised before its first operation, never twice in a row, and is    *)
(* cleaned up by the end.                                                  *)
(***************************************************************************)
DbBracketed ==
    /\ \A c \in Clients :
         /\ cl[c].pc = "init" => db[c] = "closed"
         /\ cl[c].pc = "loop" => db[c] = "open"
    /\ mpc = "end" => \A c \in Clients : db[c] = "closed"

(***************************************************************************)
(* The latches live on main's stack: when a phase's block is left, no      *)
(* client, status or rate thread that points to them is still running.     *)
(***************************************************************************)
LatchesOutliveThreads ==
    mpc \in {"begin", "end"} =>
        /\ \A c \in Clients : cl[c].pc \in {"none", "returned"}
        /\ spc \in {"none", "closed"} /\ rpc \in {"none", "closed"}

(***************************************************************************)
(* Every run of the program is over for good at some time (main finishes,  *)
(* exit(1) is called, or an exception leaves main), unless main waits for  *)
(* ever at one of two places:                                              *)
(*   - in init_latch.Await(), which a client whose Init threw anything but *)
(*     utils::Exception never counted down (client.h:63);                  *)
(*   - in status_future.wait(), when all clients are joined, for a status  *)
(*     thread that has no positive interval to wait for and never looks at *)
(*     the latch (ycsbc.cc:60).                                            *)
(* A client that throws in an operation is no reason: main rethrows it.    *)
(***************************************************************************)
Ended == mpc = "end" \/ ~Running
InitThrew(c) == cl[c].pc = "threw" /\ db[c] = "closed"
StuckInAwait == mpc = "await" /\ \E c \in Clients : InitThrew(c)
StuckInWait == mpc = "join" /\ next = N /\ ShowStatus /\ ~timed
EndsOrStuck == <>[]Ended \/ <>[]StuckInAwait \/ <>[]StuckInWait

-----------------------------------------------------------------------------
(* Why the driver is right, as an invariant that every step preserves. *)

Waiting == {c \in Clients : cl[c].pc \in {"none", "init", "thread"}}
Unfinished == {c \in Clients : cl[c].pc # "returned"}

(* Main and where it leaves its clients and helpers. *)
MainInv ==
    /\ mpc = "spawn" => next < N /\ rpc = "none"
                        /\ \A c \in Clients : c >= next <=> cl[c].pc = "none"
    /\ mpc \in {"await", "join"} => \A c \in Clients : cl[c].pc # "none"
    /\ mpc = "await" => next = 0
    /\ mpc = "join" => \A c \in Clients : c < next => cl[c].pc = "returned"
    /\ mpc = "end" => Unfinished = {}
    /\ phase = "load" => DoLoad
    /\ mpc = "end" => phase = "txn" \/ ~DoTransaction

(* The latches count who has still to count down: exactly, but for an init_latch *)
(* that a client whose Init threw left up.                                       *)
LatchInv ==
    mpc # "begin" => /\ init_latch >= Cardinality(Waiting)
                     /\ latch = Cardinality(Unfinished)

(* What a client's locals hold, in a phase by where it is. *)
ClientInv ==
    \A c \in Clients :
        LET l == cl[c]
        IN  /\ l.skipped <= l.oks
            /\ IF l.on THEN l.oks - l.skipped = good[c]
               ELSE good[c] = 0 /\ l.oks - l.skipped \in {0, 1}
            /\ mpc # "begin" =>
                 /\ c \in Waiting => l = [NoClient EXCEPT !.pc = l.pc] /\ good[c] = 0
                 /\ l.pc \in {"latch", "returned"} => l.i = ThreadOps(c)
                 /\ l.i <= ThreadOps(c)

(* Who has a DB open, by where the client is. *)
DbInv ==
    \A c \in Clients :
        /\ mpc = "begin" \/ cl[c].pc = "none" => db[c] = IF InitDb THEN "closed" ELSE "open"
        /\ mpc # "begin" => /\ cl[c].pc = "init" => db[c] = "closed"
                            /\ cl[c].pc \in {"thread", "loop"} => db[c] = "open"
                            /\ cl[c].pc \in {"latch", "returned"} =>
                                 db[c] = IF CleanupDb THEN "closed" ELSE "open"

(* The status thread says "done" when all clients are; the rate thread has lines left. *)
HelperInv ==
    /\ done => spc \in {"print", "closed"} /\ latch = 0
    /\ rpc = "wait" => lines > 0

(***************************************************************************)
(* TypeOK and the properties above follow from these parts together.       *)
(***************************************************************************)
DriverInv ==
    /\ TypeOK /\ MainInv /\ LatchInv /\ ClientInv /\ DbInv /\ HelperInv
    /\ LatchesOutliveThreads /\ LastStatusComplete
=============================================================================
