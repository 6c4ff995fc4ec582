------------------------------ MODULE MCFanOut ------------------------------
(* Instances of FanOut for TLC. *)
EXTENDS FanOut, TLC

CONSTANTS r1, r2, s1, s2

MCCallers == Requests \X Sources
MCKeyOf == [t \in MCCallers |-> t[2]]
=============================================================================
