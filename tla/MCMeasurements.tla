--------------------------- MODULE MCMeasurements ---------------------------
(* Instances of Measurements for TLC. *)
EXTENDS Measurements, TLC

CONSTANTS c1, c2

TwoThenOne == <<2, 1>>

MCClients == {c1, c2}
Symmetry == Permutations(MCClients)
=============================================================================
