---------------------------- MODULE RefCountedDb ----------------------------
(***************************************************************************)
(* The handle that all the DB objects of an embedded store share, opened   *)
(* by the first Init and closed by the last Cleanup, under the driver's    *)
(* client threads.                                                         *)
(*                                                                         *)
(*   rocksdb/rocksdb_db.cc, leveldb/leveldb_db.cc, sqlocal/sqlocal_db.cc,  *)
(*   wiredtiger/wiredtiger_db.cc    "pointer": ref_cnt_++; if (db_) return *)
(*   lmdb/lmdb_db.cc                "count":   if (ref_cnt_++) return      *)
(*                                                                         *)
(* Init and Cleanup hold the binding's mutex throughout, so each is one    *)
(* step.  An Init or a Cleanup that fails throws utils::Exception, which   *)
(* ends the process.  Cleanup does not null the pointer it deletes.        *)
(***************************************************************************)
EXTENDS Driver

CONSTANT Guards      \* what Init may look at: a subset of {"pointer", "count"}

ASSUME GuardAssumption ==
    /\ Guards \subseteq {"pointer", "count"}
    /\ InitOutcomes \subseteq {"ok", "exception"}
    /\ ~ShowStatus /\ RateLines = 0      \* the helpers never touch the handle

VARIABLES
    guard,       \* the binding under test: what its Init looks at
    ref_cnt,     \* ref_cnt_
    handle,      \* db_, env_ or conn_: "null", "live" or "freed" (dangling)
    reopened     \* history: an Init ran after the handle was closed

rcvars == <<guard, ref_cnt, handle, reopened>>
allvars == <<vars, rcvars>>

RcInit ==
    /\ Init
    /\ guard \in Guards
    /\ ref_cnt = 0
    /\ handle = "null"
    /\ reopened = FALSE

AlreadyOpen == IF guard = "pointer" THEN handle # "null" ELSE ref_cnt # 0

Taken == ref_cnt + 1

DbInit(c) ==
    /\ ClientInit(c)
    /\ IF db'[c] = "open"
       THEN /\ ref_cnt' = Taken
            /\ handle' = IF AlreadyOpen THEN handle ELSE "live"
            /\ reopened' = (reopened \/ handle = "freed")
            /\ UNCHANGED guard
       ELSE UNCHANGED rcvars

(* Mutations: the last but one Cleanup closes; the last one forgets to. *)
ClosesEarly(n) == n <= 1
ClosesNever(n) == FALSE

Closes(n) == n = 0      \* if (--ref_cnt_) return;

DbCleanup(c) ==
    /\ ClientCleanup(c)
    /\ IF CleanupDb
       THEN /\ ref_cnt' = ref_cnt - 1
            /\ handle' = IF Closes(ref_cnt - 1) THEN "freed" ELSE handle
            /\ UNCHANGED <<guard, reopened>>
       ELSE UNCHANGED rcvars

RcNext ==
    \/ MainStep /\ UNCHANGED rcvars
    \/ \E c \in Clients :
         \/ DbInit(c)
         \/ DbCleanup(c)
         \/ (ClientReady(c) \/ Iterate(c) \/ CleanupThrows(c) \/ ClientReturn(c)) /\ UNCHANGED rcvars

RcSpec == RcInit /\ [][RcNext]_allvars

-----------------------------------------------------------------------------
(***************************************************************************)
(* "Initializes any state for accessing this DB" (db.h:33): from its Init  *)
(* to its Cleanup, whatever the other clients' Inits and Cleanups do, a DB *)
(* object's handle is open.                                                *)
(***************************************************************************)
HandleLive == \A c \in Clients : db[c] = "open" => handle = "live"

(***************************************************************************)
(* The handle is live for as long as a DB object is open: always if Init   *)
(* looks at the count, and if it looks at the pointer, as long as no Init  *)
(* comes after the Cleanup that closed the handle.                         *)
(***************************************************************************)
HandleLiveUnlessReopened == guard = "count" \/ ~reopened => HandleLive

(***************************************************************************)
(* The references are balanced over both phases: they count the DB objects *)
(* that are open, and when main is through the handle has been closed.     *)
(***************************************************************************)
ReferencesBalanced ==
    /\ ref_cnt = Cardinality({c \in Clients : db[c] = "open"})
    /\ mpc = "end" => handle = "freed"
=============================================================================
