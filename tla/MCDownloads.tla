---------------------------- MODULE MCDownloads ----------------------------
(* Instances of Downloads for TLC. *)
EXTENDS DownloadsProps, TLC

CONSTANTS j1, j2, h1, h2, p1, c1, c2

\* Two jobs for one handle: submits that race and a handle grabbed again.
OneHandle == [j \in Jobs |-> h1]
\* Two handles, a job for each.
TwoHandles == [j \in Jobs |-> IF j = j1 THEN h1 ELSE h2]
MCDestOf   == [j \in Jobs |-> p1]

ClientSymmetry == Permutations(Clients)
=============================================================================
