----------------------------- MODULE MCSidecar -----------------------------
(* Instances of Sidecar for TLC. *)
EXTENDS Sidecar, TLC

CONSTANTS j1, j2, l1, l2, u1

Symmetric == Permutations(Jobs)
=============================================================================
