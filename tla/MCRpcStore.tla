----------------------------- MODULE MCRpcStore -----------------------------
(* Instances of RpcStore for TLC: the configurations. *)
EXTENDS RpcStore

Crud == {"read", "insert", "update", "delete"}
ScanMix == {"scan", "update"}
Both == {"rocksdb-clisvr", "sqlite"}

Config(n, bindings, mixes, writeall, size, shared, faulty) ==
    [calls : {n}, binding : bindings, mix : mixes, writeall : {writeall}, size : {size},
     shared : {shared}, faulty : {faulty}, stops : {FALSE}]

(* Three calls, as it should be; then two: other operations of rocksdb-clisvr,        *)
(* buffers too small for an update, a shared server thread, a failing database; and   *)
(* a server that is interrupted.                                                      *)
MCConfigs == Config(3, {"sqlite"}, {Crud \ {"update"}}, TRUE, 12, FALSE, FALSE)
             \cup Config(3, {"rocksdb-clisvr"}, {ScanMix}, TRUE, 12, FALSE, FALSE)
             \cup Config(2, {"rocksdb-clisvr"}, {Crud}, TRUE, 12, FALSE, FALSE)
             \cup Config(2, Both, {ScanMix}, TRUE, 11, FALSE, FALSE)
             \cup Config(2, Both, {Crud, ScanMix}, FALSE, 6, TRUE, FALSE)
             \cup Config(2, Both, {Crud, ScanMix}, FALSE, 6, FALSE, TRUE)
             \cup {[g EXCEPT !.stops = TRUE] : g \in
                      Config(2, {"rocksdb-clisvr"}, {{"read", "update"}}, FALSE, 6, FALSE, FALSE)}
=============================================================================
