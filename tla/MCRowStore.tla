----------------------------- MODULE MCRowStore -----------------------------
(* Instances of RowStore for TLC: the workloads. *)
EXTENDS RowStore

CONSTANTS c1, c2

MCClients == {c1, c2}
Symmetry == Permutations(MCClients)

CoreMix == {"read", "insert", "update"}
ScanMix == {"scan", "update"}
DeleteMix == {"read", "insert", "update", "delete"}
MCMixes == {CoreMix, ScanMix, DeleteMix}
=============================================================================
