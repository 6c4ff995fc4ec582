--------------------------- MODULE MCAndroidSolver ---------------------------
(* Instances of AndroidSolver for TLC. *)
EXTENDS AndroidSolver, TLC

CONSTANTS c1, c2, k1, h1

Symmetric == Permutations(Calls)
=============================================================================
