--------------------------- MODULE MCCompKeyStore ---------------------------
(* Instances of CompKeyStore for TLC: the key names and the workloads. *)
EXTENDS CompKeyStore

CONSTANTS c1, c2

MCClients == {c1, c2}
Symmetry == Permutations(MCClients)

MCNumbers == <<1, 10>>               \* user1 and user10, or user01 and user10

WriteMix == {"read", "insert", "update"}
ScanMix == {"scan", "update"}
DeleteMix == {"read", "update", "delete"}
MCMixes == {WriteMix, ScanMix, DeleteMix}
=============================================================================
