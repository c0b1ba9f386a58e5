---------------------------- MODULE MCAckCounter ----------------------------
(* Instances of AckCounter for TLC. *)
EXTENDS AckCounter, TLC

CONSTANTS t1, t2, t3

MCThreads == {t1, t2, t3}
Symmetry == Permutations(MCThreads)
=============================================================================
