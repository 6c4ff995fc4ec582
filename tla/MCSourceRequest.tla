--------------------------- MODULE MCSourceRequest ---------------------------
(* Instances of SourceRequest for TLC. *)
EXTENDS SourceRequest, TLC

CONSTANTS r1, r2, g1, g2, p1, p2, p3
=============================================================================
