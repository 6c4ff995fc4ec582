------------------------------ MODULE MCSearch ------------------------------
(* What a search waits for, under fairness, for TLC: the fan-out with the   *)
(* cooldown of each source, the breaker of each Cloudflare source with its  *)
(* supervisor, and the browser that solves and fetches, side by side.  None *)
(* reads the state of another, so a behaviour is one of a single part,      *)
(* chosen at the start; the others stay in their initial state.             *)
EXTENDS MCFanOut

CONSTANTS fast, demand,   \* Cloudflare sources: warmed up, and on demand
          Threshold, MaxOutages,
          solver, forcer, fetcher, Watchdog, Closer

VARIABLES
  part, absent,   \* absent: the one of the three that does not call the browser
  failures, forced, answers, held, watch, warm, outages,
  context, playwright, launches, running, deaths, bHeld, queue, step, using, attempt,
  abandoned, late, bInflight, bPending, bAt, bWaits, bGot, bExpired, bDropped

health == <<failures, forced, answers, held, watch, warm, outages>>
browser == <<context, playwright, launches, running, deaths, bHeld, queue, step, using,
  attempt, abandoned, late, bInflight, bPending, bAt, bWaits, bGot, bExpired, bDropped>>
everything == <<part, absent, vars, health, browser>>

Health == INSTANCE SourceHealth WITH
  Sources <- {fast, demand}, OnDemand <- {demand}, up <- answers

MCBrowserKey == [t \in {solver, forcer} |-> s1]
Browser == INSTANCE BrowserLifecycle WITH
  Solvers <- {solver}, Forcers <- {forcer}, Fetchers <- {fetcher}, Keys <- {s1},
  KeyOf <- MCBrowserKey, SolveCap <- 1, FetchCap <- 2, Recycles <- TRUE,
  MaxLaunches <- 2, MaxDeaths <- 1,
  held <- bHeld, inflight <- bInflight, pending <- bPending, at <- bAt, waits <- bWaits,
  got <- bGot, expired <- bExpired, dropped <- bDropped

ASSUME Health!HealthAssumption /\ Browser!LifecycleAssumption

MCInit ==
  /\ part \in {"fanout", "health", "browser"} /\ Init /\ Health!Init /\ Browser!Init
  /\ absent \in IF part = "browser" THEN {forcer, fetcher} ELSE {fetcher}
  /\ part # "health" => \A s \in {fast, demand} : answers[s]

MCNext ==
  /\ UNCHANGED <<part, absent>>
  /\ IF part = "fanout" THEN Next ELSE UNCHANGED vars
  /\ IF part = "health" THEN Health!Next ELSE UNCHANGED health
  /\ IF part = "browser" THEN Browser!Next ELSE UNCHANGED browser
  /\ step'[absent] = "out"

(* The fairness of each part, as its own module states it. *)
MCFairness ==
  /\ \A r \in Requests : WF_vars(part = "fanout" /\ Search(r)) /\ WF_vars(part = "fanout" /\ Answer(r))
  /\ \A t \in Tasks : WF_vars(part = "fanout" /\ TaskStep(t))
  /\ WF_vars(part = "fanout" /\ Tick)
  /\ \A s \in {fast, demand} : WF_health(part = "health" /\ Health!Supervise(s))
                               /\ WF_health(part = "health" /\ Health!SiteReturns(s))
  /\ \A t \in {solver, forcer, fetcher} : WF_browser(part = "browser" /\ Browser!Advance(t))
  /\ WF_browser(part = "browser" /\ (Browser!Recycle(Watchdog) \/ Browser!Closed(Watchdog)))

MCSpec == MCInit /\ [][MCNext]_everything /\ MCFairness

Recovers == Health!Recovers
CallsEnd == part = "browser" => Browser!CallsEnd
=============================================================================
