----------------------------- MODULE AckCounter -----------------------------
(***************************************************************************)
(* The keys of the transaction phase.  Client threads share one            *)
(* AcknowledgedCounterGenerator: inserting transactions take keys from it  *)
(* and acknowledge them after the database call, and every other           *)
(* transaction draws a key and re-draws while the key is above Last().     *)
(*                                                                         *)
(*   core/acknowledged_counter_generator.{h,cc}, core/counter_generator.h  *)
(*   core/core_workload.cc: TransactionInsert, NextTransactionKeyNum and   *)
(*   the read, update, scan and read-modify-write transactions             *)
(*                                                                         *)
(* Acknowledge is one step: it runs under mutex_, and limit_, the only     *)
(* state read outside the mutex, is stored once, at its end.               *)
(***************************************************************************)
EXTENDS Integers

CONSTANTS
    Threads,         \* the client threads
    W,               \* kWindowSize (1 << 16 in the code)
    RecordCount,     \* record_count_: keys below it were loaded beforehand
    NewKeys,         \* new_keys: how far the zipfian key space exceeds it
    Dist,            \* request_dist: "zipfian" (uniform if NewKeys = 0) or "latest"
    InsertStatuses,  \* what db.Insert may return: a subset of {"ok", "error"}
    MaxKey           \* bound: the largest key the transactions insert

ASSUME WAssumption == W \in Nat /\ W >= 2
ASSUME KeysAssumption ==
    /\ RecordCount \in Nat
    /\ NewKeys \in Nat
    /\ MaxKey \in Nat
ASSUME DistAssumption ==
    /\ Dist \in {"zipfian", "latest"}
    /\ Dist = "latest" => RecordCount >= 3      \* ZipfianGenerator asserts items_ >= 2
    /\ InsertStatuses \subseteq {"ok", "error"}

VARIABLES
    counter,    \* counter_: the next key Next() returns
    limit,      \* limit_; -1 stands for 2^64 - 1, the wrapped RecordCount - 1
    window,     \* ack_window_
    pc,         \* where each client thread is in its transaction
    key,        \* key_num of that transaction
    stored,     \* keys present in the database
    exited,     \* exit(1) was called after an exception
    failed,     \* history: keys whose db.Insert reported an error
    acked,      \* history: keys passed to Acknowledge
    overrun     \* history: an acknowledged key was above limit_ + W

vars == <<counter, limit, window, pc, key, stored, exited, failed, acked, overrun>>

Slot(k) == k % W      \* k & kWindowMask: W is a power of two in the code

Init ==
    /\ counter = RecordCount
    /\ limit = RecordCount - 1
    /\ window = [s \in 0 .. (W - 1) |-> FALSE]
    /\ pc = [t \in Threads |-> "idle"]
    /\ key = [t \in Threads |-> 0]
    /\ stored = 0 .. (RecordCount - 1)
    /\ exited = FALSE
    /\ failed = {}
    /\ acked = {}
    /\ overrun = FALSE

-----------------------------------------------------------------------------
(* TransactionInsert: Next(), db.Insert(), Acknowledge(). *)

NextKey(t) ==
    /\ ~exited
    /\ pc[t] = "idle"
    /\ counter <= MaxKey
    /\ counter' = counter + 1
    /\ key' = [key EXCEPT ![t] = counter]
    /\ pc' = [pc EXCEPT ![t] = "insert"]
    /\ UNCHANGED <<limit, window, stored, exited, failed, acked, overrun>>

(* The status is kept for the caller; the next line of the code acknowledges *)
(* the key whatever it is.                                                   *)
DbInsert(t) ==
    /\ ~exited
    /\ pc[t] = "insert"
    /\ \E s \in InsertStatuses :
         /\ stored' = IF s = "ok" THEN stored \cup {key[t]} ELSE stored
         /\ failed' = IF s = "ok" THEN failed ELSE failed \cup {key[t]}
    /\ pc' = [pc EXCEPT ![t] = "ack"]
    /\ UNCHANGED <<counter, limit, window, key, exited, acked, overrun>>

(* Mutations of the loop: it stops after one key; it stores i, not i - 1. *)
PassesOneAtMost(w, n) ==
    /\ n <= 1
    /\ \A i \in 1 .. n : w[Slot(limit + i)]
    /\ n = 1 \/ ~w[Slot(limit + n + 1)]

PassesOneTooMany(w, n) ==
    /\ n >= 1
    /\ \A i \in 1 .. (n - 1) : w[Slot(limit + i)]
    /\ ~w[Slot(limit + n)]

(***************************************************************************)
(* The loop of Acknowledge visits the slots of limit + 1, limit + 2, ...,  *)
(* at most limit + W - 1 (i < until), clears the marked ones and stops at  *)
(* the first unmarked one.  It passes n keys:                              *)
(***************************************************************************)
Passes(w, n) ==
    /\ \A i \in 1 .. n : w[Slot(limit + i)]
    /\ n = W - 1 \/ ~w[Slot(limit + n + 1)]

(* Mutation: the loop leaves the marks of the keys it passes. *)
ClearedNothing(w, n) == w

Cleared(w, n) ==
    [s \in 0 .. (W - 1) |-> w[s] /\ \A i \in 1 .. n : Slot(limit + i) # s]

Marked(k) == [window EXCEPT ![Slot(k)] = TRUE]

Acknowledge(t) ==
    /\ ~exited
    /\ pc[t] = "ack"
    /\ ~window[Slot(key[t])]
    /\ \E n \in 0 .. (W - 1) :
         /\ Passes(Marked(key[t]), n)
         /\ window' = Cleared(Marked(key[t]), n)
         /\ limit' = limit + n
    /\ acked' = acked \cup {key[t]}
    /\ overrun' = (overrun \/ key[t] > limit + W)
    /\ pc' = [pc EXCEPT ![t] = "idle"]
    /\ UNCHANGED <<counter, key, stored, exited, failed>>

(* "Not enough window size": the exception ends the process in ClientThread. *)
AcknowledgeThrows(t) ==
    /\ ~exited
    /\ pc[t] = "ack"
    /\ window[Slot(key[t])]
    /\ exited' = TRUE
    /\ overrun' = (overrun \/ key[t] > limit + W)
    /\ UNCHANGED <<counter, limit, window, pc, key, stored, failed, acked>>

-----------------------------------------------------------------------------
(* Every other transaction: NextTransactionKeyNum(), then the database call. *)

(* key_chooser_->Next().  SkewedLatestGenerator subtracts a zipfian number *)
(* below Last() from Last().                                               *)
Drawn ==
    IF Dist = "latest" THEN 1 .. limit ELSE 0 .. (RecordCount + NewKeys - 1)

DrawKey(t) ==
    /\ ~exited
    /\ pc[t] \in {"idle", "draw"}
    /\ \E k \in Drawn : key' = [key EXCEPT ![t] = k]
    /\ pc' = [pc EXCEPT ![t] = "check"]
    /\ UNCHANGED <<counter, limit, window, stored, exited, failed, acked, overrun>>

(* Mutation: the bound is one too high. *)
AboveLastPlusOne(k) == limit >= 0 /\ k > limit + 1

(* key_num > Last() on uint64_t; no key exceeds 2^64 - 1. *)
AboveLast(k) == limit >= 0 /\ k > limit

CheckKey(t) ==
    /\ ~exited
    /\ pc[t] = "check"
    /\ pc' = [pc EXCEPT ![t] = IF AboveLast(key[t]) THEN "draw" ELSE "access"]
    /\ UNCHANGED <<counter, limit, window, key, stored, exited, failed, acked, overrun>>

(* db.Read, db.Scan, db.Update, or db.Read then db.Update, of the chosen key. *)
Access(t) ==
    /\ ~exited
    /\ pc[t] = "access"
    /\ pc' = [pc EXCEPT ![t] = "idle"]
    /\ UNCHANGED <<counter, limit, window, key, stored, exited, failed, acked, overrun>>

Next == \E t \in Threads :
    \/ NextKey(t)
    \/ DbInsert(t)
    \/ Acknowledge(t)
    \/ AcknowledgeThrows(t)
    \/ DrawKey(t)
    \/ CheckKey(t)
    \/ Access(t)

Spec == Init /\ [][Next]_vars

(* A client thread that has taken a key goes on to acknowledge it: database *)
(* calls return, and mutex_ is only held for the length of Acknowledge.     *)
FairSpec == Spec /\ \A t \in Threads : WF_vars(DbInsert(t)) /\ WF_vars(Acknowledge(t))

-----------------------------------------------------------------------------
Prefix == INSTANCE AckPrefix

Holds(t) == pc[t] \in {"insert", "ack"}

TypeOK ==
    /\ counter \in Nat /\ counter >= RecordCount
    /\ limit \in Int /\ limit >= RecordCount - 1
    /\ window \in [0 .. (W - 1) -> BOOLEAN]
    /\ pc \in [Threads -> {"idle", "insert", "ack", "draw", "check", "access"}]
    /\ key \in [Threads -> Nat]
    /\ stored \subseteq Nat
    /\ exited \in BOOLEAN
    /\ failed \subseteq Nat
    /\ acked \subseteq Nat
    /\ overrun \in BOOLEAN

(***************************************************************************)
(* The key a reading transaction settled on was inserted, or its insertion *)
(* was attempted and failed, as long as no acknowledgement overran the     *)
(* window (NextTransactionKeyNum relying on Acknowledge).                  *)
(***************************************************************************)
ChosenKeySettled ==
    RecordCount > 0 /\ ~overrun =>
        \A t \in Threads : pc[t] = "access" => key[t] \in stored \cup failed

(***************************************************************************)
(* "Not enough window size" is no false alarm: Acknowledge throws only if  *)
(* some acknowledged key really was more than W ahead of limit_.           *)
(***************************************************************************)
ThrowsOnlyOnOverrun == exited => overrun

(***************************************************************************)
(* When no insertion is in flight, Last() is the last key handed out or    *)
(* the one before it: the scan of Acknowledge stops one slot short of a    *)
(* full window, and that lag never accumulates.                            *)
(***************************************************************************)
LagAtMostOne ==
    ~overrun /\ (\A t \in Threads : ~Holds(t)) => limit \in {counter - 1, counter - 2}

(***************************************************************************)
(* Every key handed out becomes readable, up to the lag of one, unless the *)
(* window is overrun: the limit does not get stuck below an acknowledged   *)
(* key while inserts keep completing out of order.                         *)
(***************************************************************************)
KeysBecomeReadable ==
    \A k \in RecordCount .. MaxKey : (k < counter) ~> (limit >= k - 1 \/ overrun)

(***************************************************************************)
(* Why Acknowledge is right, as an invariant that every step preserves.    *)
(* A key in flight is held by one thread and not acknowledged yet; keys    *)
(* settle in the database before they are acknowledged; and while the      *)
(* window is not overrun, everything up to limit_ is acknowledged, nothing *)
(* is acknowledged beyond limit_ + W, a slot is marked exactly when the    *)
(* one key of (limit_, limit_ + W] it stands for is, and at most one       *)
(* acknowledged key is waiting right above limit_.                         *)
(***************************************************************************)
InFlight ==
    /\ acked \subseteq RecordCount .. (counter - 1)
    /\ \A t \in Threads : Holds(t) =>
         key[t] \in RecordCount .. (counter - 1) /\ key[t] \notin acked
    /\ \A t, u \in Threads : t # u /\ Holds(t) /\ Holds(u) => key[t] # key[u]
    /\ \A k \in RecordCount .. (counter - 1) :
         k \in acked \/ \E t \in Threads : Holds(t) /\ key[t] = k

Settled ==
    /\ 0 .. (RecordCount - 1) \subseteq stored
    /\ acked \subseteq stored \cup failed
    /\ \A t \in Threads : pc[t] = "ack" => key[t] \in stored \cup failed

WindowInv ==
    /\ limit < counter
    /\ Prefix!Covers(acked, limit)
    /\ \A k \in acked : k <= limit + W
    /\ \A k \in (limit + 1) .. (limit + W) : window[Slot(k)] <=> k \in acked

Chosen ==
    /\ RecordCount > 0 => \A t \in Threads : pc[t] = "access" => key[t] <= limit
    /\ Dist = "latest" =>
         \A t \in Threads : pc[t] # "draw" /\ (pc[t] = "check" => key[t] <= limit)

IInv ==
    /\ TypeOK
    /\ InFlight
    /\ Settled
    /\ ~overrun => WindowInv
    /\ Chosen
    /\ ThrowsOnlyOnOverrun

(* The generator implements the acknowledged-prefix counter. *)
ImplementsPrefix == Prefix!Spec

=============================================================================
