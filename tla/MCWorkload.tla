----------------------------- MODULE MCWorkload -----------------------------
(* Instances of Workload for TLC: the scenarios. *)
EXTENDS Workload

Weights(ops) == [o \in Transactions |-> IF o \in ops THEN 1 ELSE 0]

Core == [workload |-> "core", mode |-> "run", ops |-> 3, weights |-> Weights({"read", "insert"}),
         dist |-> "uniform", newkeys |-> 0, minread |-> 0, maxread |-> 0, insertstart |-> 0,
         stopat |-> 0, failures |-> FALSE, trace |-> <<>>]

CoreScenarios == {
    [Core EXCEPT !.mode = "both", !.failures = TRUE],
    [Core EXCEPT !.mode = "load", !.insertstart = 2],
    [Core EXCEPT !.insertstart = 1],
    [Core EXCEPT !.weights = Weights({"update", "scan", "rmw", "rdidx"})],
    [Core EXCEPT !.weights = Weights({"insert", "rmw"}), !.failures = TRUE],
    [Core EXCEPT !.dist = "zipfian", !.newkeys = 2],
    [Core EXCEPT !.dist = "latest", !.ops = 4],
    [Core EXCEPT !.dist = "sequential", !.minread = 2, !.maxread = 5],
    [Core EXCEPT !.dist = "sequential", !.minread = 0, !.maxread = 2],
    [Core EXCEPT !.dist = "sequential", !.minread = 4, !.maxread = 6]}

Checking == [Core EXCEPT !.workload = "checking"]

CheckingScenarios == {
    [Checking EXCEPT !.mode = "restart", !.stopat = 1],
    [Checking EXCEPT !.mode = "restart", !.stopat = 1, !.ops = 2],
    [Checking EXCEPT !.mode = "restart", !.stopat = 2, !.failures = TRUE],
    [Checking EXCEPT !.mode = "restart", !.stopat = 9],
    [Checking EXCEPT !.mode = "both", !.stopat = 9],
    [Checking EXCEPT !.ops = 4]}

PeekScenarios == {[Core EXCEPT !.workload = "tracepeek", !.ops = 2]}

PureInsert == [Core EXCEPT !.workload = "pureinsert", !.ops = 5]

PureInsertScenarios == {
    [PureInsert EXCEPT !.mode = "both",
                       !.trace = <<<<1, 2>>, <<3, 4>>, <<5, 6>>, <<7, 8>>>>],
    [PureInsert EXCEPT !.trace = <<<<1, 2, 3>>, <<4>>, <<5>>, <<6, 7>>>>],
    [PureInsert EXCEPT !.ops = 1, !.trace = <<<<1>>, <<2>>>>]}

MCScenarios == CoreScenarios \cup CheckingScenarios \cup PeekScenarios \cup PureInsertScenarios
=============================================================================
