----------------------------- MODULE ErpcHandle -----------------------------
(***************************************************************************)
(* The eRPC end point of the remote bindings: one Nexus for the process    *)
(* and one Rpc object per client, whose id comes from a counter that       *)
(* Cleanup counts down again.  Init and Cleanup are broken into the steps  *)
(* other clients can see, under the driver's client threads.               *)
(*                                                                         *)
(*   rocksdb-clisvr/rocksdb_cli.cc, sqlite/sqlite_cli.cc: Init holds lk_   *)
(*   lazykv/lazy_kv.cc: Init holds no lock                                 *)
(*   Cleanup holds no lock in any of them.                                 *)
(***************************************************************************)
EXTENDS Driver

CONSTANTS
    Locks,       \* whether Init holds lk_: a subset of BOOLEAN
    IdRange      \* global_rpc_id_ is counted modulo this (256 in the code)

ASSUME ErpcAssumption ==
    /\ Locks \subseteq BOOLEAN
    /\ IdRange \in Nat \ {0}
    /\ InitOutcomes = {"ok"}      \* is_connected is awaited for ever
    /\ CleanupOutcomes = {"ok"}   \* nothing in it throws
    /\ ~ShowStatus /\ RateLines = 0

VARIABLES
    locked,          \* the binding under test: its Init holds lk_
    global_rpc_id,   \* global_rpc_id_
    nexus,           \* nexus_: 0 for nullptr, else which Nexus it points to
    made,            \* how many Nexus objects were created
    deleted,         \* those that were deleted
    rpc_obj,         \* rpc_ of each client: its id and its Nexus; 0 for none
    epc,             \* where each client is in Init or Cleanup
    overlap,         \* history: an Init and a Cleanup were under way together
    mixed            \* history: an Init began after a Cleanup of the same phase

evars == <<locked, global_rpc_id, nexus, made, deleted, rpc_obj, epc, overlap, mixed>>
nexusvars == <<vars, evars>>

NoRpc == [id |-> 0, nexus |-> 0]
HasRpc(c) == rpc_obj[c].nexus # 0

InInit(c) == epc[c] \in {"id", "nexus", "create", "rpc"}
InCleanup(c) == epc[c] \in {"count", "drop", "null"}
Cleaned(c) == CleanupDb /\ cl[c].pc \in {"latch", "returned"}
Idle(c) == epc[c] = "idle"

EInit ==
    /\ Init
    /\ locked \in Locks
    /\ global_rpc_id = 0
    /\ nexus = 0
    /\ made = 0
    /\ deleted = {}
    /\ rpc_obj = [c \in Clients |-> NoRpc]
    /\ epc = [c \in Clients |-> "idle"]
    /\ overlap = FALSE
    /\ mixed = FALSE

-----------------------------------------------------------------------------
(* Init *)

(* Mutation: nobody takes the lock. *)
MayEnterAlways == TRUE

(* std::lock_guard guard(lk_): held until Init returns. *)
MayEnter == locked => \A d \in Clients : ~InInit(d)

EnterInit(c) ==
    /\ Running /\ cl[c].pc = "init" /\ Idle(c)
    /\ MayEnter
    /\ epc' = [epc EXCEPT ![c] = "id"]
    /\ overlap' = (overlap \/ \E d \in Clients : InCleanup(d))
    /\ mixed' = (mixed \/ \E d \in Clients : InCleanup(d) \/ Cleaned(d))
    /\ UNCHANGED <<vars, locked, global_rpc_id, nexus, made, deleted, rpc_obj>>

NextId == (global_rpc_id + 1) % IdRange

(* uint8_t rpc_id = global_rpc_id_.fetch_add(1); *)
TakeId(c) ==
    /\ Running /\ epc[c] = "id"
    /\ rpc_obj' = [rpc_obj EXCEPT ![c].id = global_rpc_id]
    /\ global_rpc_id' = NextId
    /\ epc' = [epc EXCEPT ![c] = "nexus"]
    /\ UNCHANGED <<vars, locked, nexus, made, deleted, overlap, mixed>>

(* if (!nexus_) *)
TestNexus(c) ==
    /\ Running /\ epc[c] = "nexus"
    /\ epc' = [epc EXCEPT ![c] = IF nexus = 0 THEN "create" ELSE "rpc"]
    /\ UNCHANGED <<vars, locked, global_rpc_id, nexus, made, deleted, rpc_obj, overlap, mixed>>

CreateNexus(c) ==
    /\ Running /\ epc[c] = "create"
    /\ made' = made + 1
    /\ nexus' = made + 1
    /\ epc' = [epc EXCEPT ![c] = "rpc"]
    /\ UNCHANGED <<vars, locked, global_rpc_id, deleted, rpc_obj, overlap, mixed>>

(* new Rpc(nexus_, rpc_id), create_session, connect; Init returns. *)
CreateRpc(c) ==
    /\ epc[c] = "rpc"
    /\ ClientInit(c)
    /\ rpc_obj' = [rpc_obj EXCEPT ![c].nexus = nexus]
    /\ epc' = [epc EXCEPT ![c] = "idle"]
    /\ UNCHANGED <<locked, global_rpc_id, nexus, made, deleted, overlap, mixed>>

-----------------------------------------------------------------------------
(* Cleanup *)

(* free_msg_buffer twice, delete rpc_; *)
DeleteRpc(c) ==
    /\ Running /\ cl[c].pc = "loop" /\ cl[c].i >= ThreadOps(c) /\ CleanupDb /\ Idle(c)
    /\ rpc_obj' = [rpc_obj EXCEPT ![c] = NoRpc]
    /\ epc' = [epc EXCEPT ![c] = "count"]
    /\ overlap' = (overlap \/ \E d \in Clients : InInit(d))
    /\ mixed' = (mixed \/ \E d \in Clients : InInit(d))
    /\ UNCHANGED <<vars, locked, global_rpc_id, nexus, made, deleted>>

WasLast == global_rpc_id = 1

(* if (global_rpc_id_.fetch_sub(1) == 1); otherwise Cleanup returns. *)
CountDownId(c) ==
    /\ epc[c] = "count"
    /\ global_rpc_id' = (global_rpc_id - 1) % IdRange
    /\ IF WasLast
       THEN epc' = [epc EXCEPT ![c] = "drop"] /\ Running /\ UNCHANGED vars
       ELSE epc' = [epc EXCEPT ![c] = "idle"] /\ ClientCleanup(c)
    /\ UNCHANGED <<locked, nexus, made, deleted, rpc_obj, overlap, mixed>>

(* delete nexus_; *)
DeleteNexus(c) ==
    /\ Running /\ epc[c] = "drop"
    /\ deleted' = deleted \cup {nexus}
    /\ epc' = [epc EXCEPT ![c] = "null"]
    /\ UNCHANGED <<vars, locked, global_rpc_id, nexus, made, rpc_obj, overlap, mixed>>

(* nexus_ = nullptr; Cleanup returns. *)
NullNexus(c) ==
    /\ epc[c] = "null"
    /\ ClientCleanup(c)
    /\ nexus' = 0
    /\ epc' = [epc EXCEPT ![c] = "idle"]
    /\ UNCHANGED <<locked, global_rpc_id, made, deleted, rpc_obj, overlap, mixed>>

(* cleanup_db is false: the load phase of a binding that keeps its Rpc. *)
SkipCleanup(c) == ~CleanupDb /\ ClientCleanup(c) /\ UNCHANGED evars

ENext ==
    \/ MainStep /\ UNCHANGED evars
    \/ \E c \in Clients :
         \/ EnterInit(c) \/ TakeId(c) \/ TestNexus(c) \/ CreateNexus(c) \/ CreateRpc(c)
         \/ DeleteRpc(c) \/ CountDownId(c) \/ DeleteNexus(c) \/ NullNexus(c) \/ SkipCleanup(c)
         \/ (ClientReady(c) \/ Iterate(c) \/ ClientReturn(c)) /\ UNCHANGED evars

ESpec == EInit /\ [][ENext]_nexusvars

-----------------------------------------------------------------------------
IdsDistinct ==
    \A c, d \in Clients : c # d /\ HasRpc(c) /\ HasRpc(d) => rpc_obj[c].id # rpc_obj[d].id

(***************************************************************************)
(* If in each phase every Init comes before the first Cleanup, the clients *)
(* have distinct Rpc ids on a Nexus that is not deleted; if Init holds the *)
(* lock, there is one Nexus and after the last Cleanup nothing is left.    *)
(***************************************************************************)
SafeIfPhased ==
    ~mixed =>
        /\ IdsDistinct
        /\ \A c \in Clients : rpc_obj[c].nexus \notin deleted
        /\ locked => \A c \in Clients : HasRpc(c) => rpc_obj[c].nexus = nexus
        /\ locked /\ mpc = "end" => nexus = 0 /\ global_rpc_id = 0 /\ deleted = 1 .. made

(***************************************************************************)
(* rocksdb_cli.cc:61 "this assumes Cleanup() and Init() on different       *)
(* threads will never overlap": under that assumption, distinct ids.       *)
(***************************************************************************)
IdsIfNoOverlap == ~overlap => IdsDistinct
=============================================================================
