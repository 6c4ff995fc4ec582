------------------------------ MODULE MCSolvers ------------------------------
(* The safety of the two solvers, for TLC: the lanes of the Android sidecar *)
(* and the hop they share, the page that a pipeline drives on one device,   *)
(* and the solves of the Chromium lifecycle, side by side.  None reads the  *)
(* state of another, so a behaviour is one of a single part, chosen at the  *)
(* start; the others stay in their initial state.                           *)
EXTENDS MCSidecar, PageDrive

CONSTANTS x, k1, Watchdog, Closer

VARIABLES
  part,
  context, playwright, launches, running, deaths, held, bQueue, step, using, attempt,
  abandoned, late, inflight, pending, bAt, waits, bGot, expired, dropped

browserVars == <<context, playwright, launches, running, deaths, held, bQueue, step, using,
  attempt, abandoned, late, inflight, pending, bAt, waits, bGot, expired, dropped>>
everything == <<part, vars, driveVars, browserVars>>

(* Two solves and a forced one of a source, of the same names as the jobs. *)
MCKeyOf == [t \in Jobs \cup {x} |-> k1]
Browser == INSTANCE BrowserLifecycle WITH
  Solvers <- Jobs, Forcers <- {x}, Fetchers <- {}, Keys <- {k1}, KeyOf <- MCKeyOf,
  Nobody <- None, SolveCap <- 1, FetchCap <- 2, Recycles <- TRUE,
  MaxLaunches <- 2, MaxDeaths <- 0,
  queue <- bQueue, at <- bAt, got <- bGot

ASSUME Browser!LifecycleAssumption

MCInit == part \in {"lanes", "page", "browser"} /\ Init /\ DriveInit /\ Browser!Init

MCNext ==
  /\ UNCHANGED part
  /\ IF part = "lanes" THEN Next ELSE UNCHANGED vars
  /\ IF part = "page" THEN DriveNext ELSE UNCHANGED driveVars
  /\ IF part = "browser" THEN Browser!Next ELSE UNCHANGED browserVars

MCSpec == MCInit /\ [][MCNext]_everything

(* As Browser!SolvesAreSingleFlight; no step of another part touches them.  *)
SolvesAreSingleFlight ==
  Browser!Flight!FlightInit
    /\ [][part = "browser" /\ Browser!Flight!FlightNext]_(Browser!Flight!flightVars)
=============================================================================
