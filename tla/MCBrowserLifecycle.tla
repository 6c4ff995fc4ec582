------------------------- MODULE MCBrowserLifecycle -------------------------
(* Instances of BrowserLifecycle for TLC. *)
EXTENDS BrowserLifecycle

CONSTANTS a, x, f, k1

MCKeyOf == [t \in Solvers \cup Forcers |-> k1]
=============================================================================
