------------------------- MODULE MCStorageRecovery -------------------------
(***************************************************************************)
(* Two sessions over two assets of one candidate, and maintenance.         *)
(***************************************************************************)
EXTENDS StorageRecovery, TLC

CONSTANTS k1, k2, w1, w2

Symmetry == Permutations({k1, k2}) \cup Permutations({w1, w2})
=============================================================================
