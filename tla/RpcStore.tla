------------------------------ MODULE RpcStore ------------------------------
(***************************************************************************)
(* The record operations of the bindings whose database is in another      *)
(* process, reached by eRPC: rocksdb-clisvr and sqlite.  A client method   *)
(* builds its request in req_, enqueues it, polls until the continuation   *)
(* has set complete_, and decodes resp_.  A server thread runs one handler *)
(* at a time; those of Read and Scan answer from resp_buf_, which is the   *)
(* thread's, the others from the request's own pre_resp_msgbuf_.           *)
(*                                                                         *)
(* A server that is interrupted stops thread by thread.                    *)
(*                                                                         *)
(* External: eRPC handles each request once, drops one of an unregistered  *)
(* type, and reads a response's buffer when it (re)transmits it, until the *)
(* client has it.  If the server thread is gone, it may give the request   *)
(* up, with an empty response, or never notice.  The databases' calls take *)
(* effect at once.                                                         *)
(***************************************************************************)
EXTENDS Integers, Sequences, FiniteSetsExt, RowCodec

CONSTANTS
    Clients,     \* the client threads
    K,           \* the keys are 1 .. K
    F,           \* fieldcount
    Configs,     \* the configurations to check (see cfg)
    ScanLen,     \* the length of scans
    MaxCalls     \* the largest bound in Configs on the calls of all clients together

ASSUME RpcStoreAssumption ==
    /\ {K, F, ScanLen} \subseteq Nat \ {0} /\ MaxCalls \in Nat
    /\ \A g \in Configs : /\ g.binding \in {"rocksdb-clisvr", "sqlite"} /\ g.size \in Nat \ {0}
                          /\ g.mix \subseteq {"read", "scan", "insert", "update", "delete"}
                          /\ g.calls \in 0 .. MaxCalls
                          /\ {g.writeall, g.shared, g.faulty, g.stops} \subseteq BOOLEAN

VARIABLES
    cfg,       \* binding, mix (the operations of the workload), writeall (writeallfields),
               \* size (msg_size), shared (the clients share a server thread), faulty (the
               \* database may fail), stops (the server may be interrupted), calls (bound: calls
               \* of all clients together)
    store,     \* the bytes stored under each key
    call,      \* the call each client is in
    answer,    \* what it will return
    req,       \* the client's req_, empty when no request is under way
    resp,      \* the client's resp_: its size, and the bytes that are read of it; once
               \* the method has decoded them, the status is all that can be read again
    complete,  \* the client's complete_
    via,       \* the buffer that the response in flight is in: "pre", "resp_buf" or "none"
    pre,       \* pre_resp_msgbuf_ of the client's request, until it is delivered
    respBuf,   \* resp_buf_ of each server thread
    up,        \* the server threads in their event loops
    calls,     \* how many calls there were; the values of a call's row are its number
    corrupt    \* something was written beyond the end of a buffer

vars == <<cfg, store, call, answer, req, resp, complete, via, pre, respBuf, up, calls, corrupt>>

Keys == 1 .. K
Unnamed == <<>>
FieldNames == {Unnamed} \cup {<<f>> : f \in 1 .. F}
Value(v) == <<v, v>>
Values == {Value(v) : v \in 0 .. MaxCalls}

kOK == 0
kError == 1
kNotFound == 2
StatusName == [s \in {kOK, kError, kNotFound} |->
                 CASE s = kOK -> "ok" [] s = kError -> "error" [] s = kNotFound -> "notfound"]

NoBytes == <<>>
NoCall == [op |-> "none", key |-> 0, vals |-> AsRow(<<>>), fields |-> {}, len |-> 0]
NoAnswer == [status |-> "none", rows |-> <<>>]

(* BuildValues or BuildSingleValue: a vector of fields. *)
Built(v) ==
    IF cfg.writeall THEN [i \in 1 .. F |-> [first |-> <<i>>, second |-> Value(v)]]
                    ELSE <<[first |-> Unnamed, second |-> Value(v)]>>

(* Mutation: every session is created with server thread 0. *)
ThreadFirst(c) == CHOOSE d \in Clients : TRUE

(* The server thread of a client: the one with its rpc id. *)
Thread(c) == IF cfg.shared THEN CHOOSE d \in Clients : TRUE ELSE c

Init ==
    /\ cfg \in Configs
    /\ \E n \in 0 .. K :
         store = [k \in Keys |-> IF k <= n THEN SerializeRow(Built(0)) ELSE NoBytes]
    /\ call = [c \in Clients |-> NoCall]
    /\ answer = [c \in Clients |-> NoAnswer]
    /\ req = [c \in Clients |-> NoBytes]
    /\ resp = [c \in Clients |-> [size |-> 0, buf |-> <<Garbage>>]]
    /\ complete = [c \in Clients |-> FALSE]
    /\ via = [c \in Clients |-> "none"]
    /\ pre = [c \in Clients |-> NoBytes]
    /\ respBuf = [t \in {Thread(c) : c \in Clients} |-> [i \in 1 .. cfg.size |-> Garbage]]
    /\ up = DOMAIN respBuf
    /\ calls = 0
    /\ corrupt = FALSE

-----------------------------------------------------------------------------
(* The client, up to enqueue_request *)

Request(cl, values) ==
    SerializeKey(<<cl.key>>) \o
    CASE cl.op \in {"read", "delete"} -> <<>>
      [] cl.op = "scan" -> <<cl.len>>
      [] cl.op \in {"insert", "update"} -> SerializeRow(values)

Invoke(c) ==
    /\ ~corrupt /\ call[c] = NoCall /\ calls < cfg.calls
    /\ calls' = calls + 1
    /\ \E op \in cfg.mix, k \in Keys :
         LET values == IF op \in {"insert", "update"} THEN Built(calls + 1) ELSE <<>>
             cl == [op |-> op, key |-> k, vals |-> AsRow(values), fields |-> FieldNames,
                    len |-> IF op = "scan" THEN ScanLen ELSE 0]
             bytes == Request(cl, values)
         IN  /\ call' = [call EXCEPT ![c] = cl]
             /\ req' = [req EXCEPT ![c] = bytes]
             /\ corrupt' = (Len(bytes) > cfg.size)
    /\ UNCHANGED <<cfg, store, answer, resp, complete, via, pre, respBuf, up>>

-----------------------------------------------------------------------------
(* The handlers *)

(* Mutation: delete_handler is not registered. *)
RegisteredNoDelete == {"read", "insert", "update", "scan"}

(* register_req_func: sqlite has no handler for SQL_SCAN_REQ. *)
Registered == {"read", "insert", "update", "delete"} \cup
              (IF cfg.binding = "sqlite" THEN {} ELSE {"scan"})

Arrived(c, op) ==
    /\ ~corrupt /\ req[c] # NoBytes /\ call[c].op = op /\ op \in Registered
    /\ Thread(c) \in up

ReqKey(c) == DeserializeKey(req[c])[1]
ReqValue(c) == Slice(req[c], 1 + Len(DeserializeKey(req[c])),
                     Len(req[c]) - 1 - Len(DeserializeKey(req[c])))

(* enqueue_response(&resp_buf_) with these contents *)
FromRespBuf(c, bytes) ==
    /\ respBuf' = [respBuf EXCEPT ![Thread(c)] = bytes]
    /\ corrupt' = (Len(bytes) > cfg.size)
    /\ via' = [via EXCEPT ![c] = "resp_buf"]
    /\ req' = [req EXCEPT ![c] = NoBytes]
    /\ UNCHANGED pre

(* enqueue_response(&pre_resp_msgbuf_) with this status *)
FromPre(c, s) ==
    /\ pre' = [pre EXCEPT ![c] = <<s>>]
    /\ via' = [via EXCEPT ![c] = "pre"]
    /\ req' = [req EXCEPT ![c] = NoBytes]
    /\ UNCHANGED <<respBuf, corrupt>>

(* The status overwrites that of the last response, whose size is kept. *)
NotResized(c, s) == [respBuf[Thread(c)] EXCEPT ![1] = s]

ReadHandler(c) ==
    /\ Arrived(c, "read")
    /\ LET data == store[ReqKey(c)]
           sqlite == cfg.binding = "sqlite"
       IN  \/ data # NoBytes /\ FromRespBuf(c, <<kOK>> \o data)
           \/ data = NoBytes /\ FromRespBuf(c, IF sqlite THEN NotResized(c, kNotFound)
                                               ELSE <<kNotFound>>)
           \/ cfg.faulty /\ FromRespBuf(c, <<kError>>)
           \/ cfg.faulty /\ sqlite /\ FromRespBuf(c, NotResized(c, kError))
    /\ UNCHANGED <<cfg, store, call, answer, resp, complete, up, calls>>

(* The keys from key on that have a record, and the i-th of them in their order. *)
From(key) == {k \in Keys : k >= key /\ store[k] # NoBytes}
Nth(S, i) == CHOOSE k \in S : Cardinality({j \in S : j <= k}) = i

(* Mutation: one record too many. *)
ScannedOneMore(key, len) ==
    [i \in 1 .. Min({len + 1, Cardinality(From(key))}) |-> store[Nth(From(key), i)]]

(* Seek, then Next while Valid. *)
Scanned(key, len) ==
    [i \in 1 .. Min({len, Cardinality(From(key))}) |-> store[Nth(From(key), i)]]

ScanHandler(c) ==
    /\ Arrived(c, "scan")
    /\ FromRespBuf(c, <<kOK>> \o SerializeRowVector(Scanned(ReqKey(c), At(req[c], 2))))
    /\ UNCHANGED <<cfg, store, call, answer, resp, complete, up, calls>>

(* put_handler of rocksdb-clisvr, for Insert and Update alike *)
PutHandler(c) ==
    /\ cfg.binding = "rocksdb-clisvr"
    /\ Arrived(c, "insert") \/ Arrived(c, "update")
    /\ \/ store' = [store EXCEPT ![ReqKey(c)] = ReqValue(c)] /\ FromPre(c, kOK)
       \/ cfg.faulty /\ UNCHANGED store /\ FromPre(c, kError)
    /\ UNCHANGED <<cfg, call, answer, resp, complete, up, calls>>

(* INSERT: refused if the key, the table's PRIMARY KEY, is there *)
InsertHandler(c) ==
    /\ cfg.binding = "sqlite" /\ Arrived(c, "insert")
    /\ \/ /\ store[ReqKey(c)] = NoBytes
          /\ store' = [store EXCEPT ![ReqKey(c)] = ReqValue(c)]
          /\ FromPre(c, kOK)
       \/ /\ store[ReqKey(c)] # NoBytes \/ cfg.faulty
          /\ UNCHANGED store
          /\ FromPre(c, kError)
    /\ UNCHANGED <<cfg, call, answer, resp, complete, up, calls>>

(* UPDATE: done even if it finds no record *)
UpdateHandler(c) ==
    /\ cfg.binding = "sqlite" /\ Arrived(c, "update")
    /\ \/ /\ store' = [store EXCEPT ![ReqKey(c)] = IF @ = NoBytes THEN @ ELSE ReqValue(c)]
          /\ FromPre(c, kOK)
       \/ cfg.faulty /\ UNCHANGED store /\ FromPre(c, kError)
    /\ UNCHANGED <<cfg, call, answer, resp, complete, up, calls>>

DeleteHandler(c) ==
    /\ Arrived(c, "delete")
    /\ \/ store' = [store EXCEPT ![ReqKey(c)] = NoBytes] /\ FromPre(c, kOK)
       \/ cfg.faulty /\ UNCHANGED store /\ FromPre(c, kError)
    /\ UNCHANGED <<cfg, call, answer, resp, complete, up, calls>>

(* SIGINT sets run to false; each thread leaves its loop and frees its buffer. *)
StopThread(t) ==
    /\ ~corrupt /\ cfg.stops /\ t \in up
    /\ up' = up \ {t}
    /\ UNCHANGED <<cfg, store, call, answer, req, resp, complete, via, pre, respBuf, calls,
                   corrupt>>

-----------------------------------------------------------------------------
(* The client, from the response on *)

InFlight(c) == IF via[c] = "pre" THEN pre[c] ELSE respBuf[Thread(c)]

(* run_event_loop_once: the response is copied and notifyRpcComplete called. *)
Deliver(c) ==
    /\ ~corrupt /\ via[c] # "none"
    /\ resp' = [resp EXCEPT ![c] = [size |-> Len(InFlight(c)), buf |-> InFlight(c)]]
    /\ via' = [via EXCEPT ![c] = "none"]
    /\ pre' = [pre EXCEPT ![c] = NoBytes]
    /\ complete' = [complete EXCEPT ![c] = TRUE]
    /\ UNCHANGED <<cfg, store, call, answer, req, respBuf, up, calls, corrupt>>

(* The continuation of a request that eRPC gives up.  resp_ keeps the status of the *)
(* response before; if there was none, it holds anything.                           *)
Abandon(c) ==
    /\ ~corrupt /\ Thread(c) \notin up /\ (req[c] # NoBytes \/ via[c] # "none")
    /\ \E s \in IF resp[c].buf = <<Garbage>> THEN DOMAIN StatusName ELSE {resp[c].buf[1]} :
         resp' = [resp EXCEPT ![c] = [size |-> 0, buf |-> <<s>>]]
    /\ req' = [req EXCEPT ![c] = NoBytes]
    /\ via' = [via EXCEPT ![c] = "none"]
    /\ pre' = [pre EXCEPT ![c] = NoBytes]
    /\ complete' = [complete EXCEPT ![c] = TRUE]
    /\ UNCHANGED <<cfg, store, call, answer, respBuf, up, calls, corrupt>>

Rows(op, bytes) ==
    CASE op = "read" -> <<AsRow(DeserializeRow(bytes, 1, Len(bytes)))>>
      [] op = "scan" -> LET rows == DeserializeRowVector(bytes, 1, Len(bytes))
                        IN  [i \in DOMAIN rows |-> AsRow(rows[i])]
      [] OTHER -> <<>>

(* What the method makes of a response.  Update, Insert and Delete take the status *)
(* from the buffer whatever the size: their assertion is compiled out.             *)
Decoded(op, size, bytes) ==
    IF op \in {"read", "scan"} /\ size < 1 THEN [status |-> "error", rows |-> <<>>]
    ELSE [status |-> StatusName[bytes[1]],
          rows |-> IF bytes[1] = kOK THEN Rows(op, bytes) ELSE <<>>]

(* Mutation: complete_ is left set. *)
AfterPollKept == TRUE

AfterPoll == FALSE      \* complete_ = false

PollForRpcComplete(c) ==
    /\ ~corrupt /\ complete[c] /\ call[c] # NoCall /\ answer[c] = NoAnswer
    /\ complete' = [complete EXCEPT ![c] = AfterPoll]
    /\ answer' = [answer EXCEPT ![c] = Decoded(call[c].op, resp[c].size, resp[c].buf)]
    /\ resp' = [resp EXCEPT ![c] = [size |-> 0, buf |-> <<@.buf[1]>>]]
    /\ UNCHANGED <<cfg, store, call, req, via, pre, respBuf, up, calls, corrupt>>

Return(c) ==
    /\ ~corrupt /\ answer[c] # NoAnswer
    /\ call' = [call EXCEPT ![c] = NoCall]
    /\ answer' = [answer EXCEPT ![c] = NoAnswer]
    /\ UNCHANGED <<cfg, store, req, resp, complete, via, pre, respBuf, up, calls, corrupt>>

Handle(c) ==
    \/ ReadHandler(c) \/ ScanHandler(c) \/ PutHandler(c)
    \/ InsertHandler(c) \/ UpdateHandler(c) \/ DeleteHandler(c)

Next ==
    \/ \E c \in Clients : \/ Invoke(c) \/ Handle(c) \/ Deliver(c) \/ Abandon(c)
                           \/ PollForRpcComplete(c) \/ Return(c)
    \/ \E t \in up : StopThread(t)

Progress(c) ==
    \/ Handle(c) \/ PollForRpcComplete(c) \/ Return(c)
    \/ Thread(c) \in up /\ Deliver(c)

(* The server threads and the clients poll, and eRPC retransmits until it succeeds, as  *)
(* long as the server thread runs.  At most one of a call's steps is enabled, and only  *)
(* the end of the server thread disables it.                                            *)
Fairness == \A c \in Clients : WF_vars(Progress(c))

Spec == Init /\ [][Next]_vars /\ Fairness

-----------------------------------------------------------------------------
RpcTypeOK ==
    /\ DOMAIN store = Keys /\ up \subseteq DOMAIN respBuf
    /\ \A c \in Clients :
         /\ req[c] # NoBytes => call[c] # NoCall
         /\ via[c] # "none" => req[c] = NoBytes /\ call[c] # NoCall
         /\ complete[c] => call[c] # NoCall /\ via[c] = "none" /\ req[c] = NoBytes
         /\ answer[c] # NoAnswer => ~complete[c]
    /\ \A t \in DOMAIN respBuf : corrupt \/ Len(respBuf[t]) \in 1 .. cfg.size

(***************************************************************************)
(* The sizes that a run needs, from the layout: a key and a row in a       *)
(* request, a status and the rows of a scan in a response.                 *)
(***************************************************************************)
RowSize == IF cfg.writeall THEN 5 * F ELSE 4
Needed ==
    Max({2 + RowSize} \cup (IF "scan" \in cfg.mix THEN {1 + ScanLen * (1 + RowSize), 3} ELSE {}))

(***************************************************************************)
(* No buffer is written beyond its end when msg_size holds the largest     *)
(* request and the largest response: SerializeRow and scan_handler write   *)
(* before they resize, so nothing but the sizes themselves prevents it.    *)
(***************************************************************************)
FitsIfLargeEnough == corrupt => cfg.size < Needed

(***************************************************************************)
(* The table that the store holds and the answers on their way, as the     *)
(* clients would decode them.                                              *)
(***************************************************************************)
TableOf == [k \in Keys |-> AsRow(DeserializeRow(store[k], 0, Len(store[k])))]
AnswerOf == [c \in Clients |->
               IF answer[c] # NoAnswer THEN answer[c]
               ELSE IF via[c] # "none" THEN Decoded(call[c].op, Len(InFlight(c)), InFlight(c))
               ELSE IF complete[c] THEN Decoded(call[c].op, resp[c].size, resp[c].buf)
               ELSE NoAnswer]

Upsert == INSTANCE DbContract WITH table <- TableOf, answer <- AnswerOf, Upserts <- TRUE
UpdateOnly == INSTANCE DbContract WITH table <- TableOf, answer <- AnswerOf, Upserts <- FALSE

(***************************************************************************)
(* The two processes together are a table as db.h describes it: a call     *)
(* takes effect when its handler runs, and what the client decodes is what *)
(* that handler answered.  This needs a server thread per client: clients  *)
(* with the same rpc id share a resp_buf_, and the answer of one may be    *)
(* overwritten while eRPC can still retransmit it.  When the server thread *)
(* is gone, a read or scan that is given up returns an error; a write may  *)
(* return anything, done or not.                                           *)
(***************************************************************************)
GoneWrong(c) ==
    /\ Thread(c) \notin up /\ call[c] # NoCall
    /\ UNCHANGED <<store, call>> /\ \A d \in Clients \ {c} : AnswerOf'[d] = AnswerOf[d]
    /\ call[c].op \in {"read", "scan"} => AnswerOf'[c] = [status |-> "error", rows |-> <<>>]

RpcImplementsContract ==
    [][~cfg.shared /\ ~corrupt' =>
         \/ UNCHANGED <<store, call, AnswerOf>>
         \/ IF cfg.binding = "sqlite" THEN UpdateOnly!Next ELSE Upsert!Next
         \/ cfg.faulty /\ \E c \in Clients : Upsert!Fail(c)
         \/ \E c \in Clients : GoneWrong(c)]_<<TableOf, call, AnswerOf>>

(***************************************************************************)
(* Every call returns, unless a buffer was overrun or the client's own     *)
(* server thread is gone: except a scan of the sqlite binding, to which no *)
(* handler answers.                                                        *)
(***************************************************************************)
CallsReturn ==
    \A c \in Clients :
      (call[c] # NoCall /\ ~(cfg.binding = "sqlite" /\ call[c].op = "scan"))
        ~> (call[c] = NoCall \/ corrupt \/ Thread(c) \notin up)
=============================================================================
