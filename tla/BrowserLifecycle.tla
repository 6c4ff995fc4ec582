-------------------------- MODULE BrowserLifecycle --------------------------
(***************************************************************************)
(* BrowserLifecycle (framework/solver_lifecycle.py) and the calls that     *)
(* CloudflareSolver (framework/antibot.py) makes of it: one persistent     *)
(* browser context, launched on first use, shared by challenge solves and  *)
(* page fetches, closed by a watchdog, by a fetch that finds it dead and   *)
(* by the shutdown.                                                        *)
(*                                                                         *)
(* A context is named by the number of its launch, 0 is None; so is the    *)
(* playwright driver of that launch, whose end is the end of its Chromium. *)
(* The single flight of the solves is module SingleFlight, of which a held *)
(* clearance is the live entry.                                            *)
(***************************************************************************)
EXTENDS Naturals, FiniteSets, SequencesExt

CONSTANTS
  Solvers,       \* tasks that call solve(key)
  Forcers,       \* tasks that call solve(key, force=True)
  Fetchers,      \* tasks that call fetch_via_browser
  Watchdog,      \* the task of _recycle_loop
  Closer,        \* the task of CloudflareSolver.aclose
  Keys, KeyOf,   \* the source of each Solver and Forcer
  Nobody,
  SolveCap,      \* settings.cloudflare_solve_concurrency
  FetchCap,      \* settings.cloudflare_fetch_concurrency
  Recycles,      \* whether recycle_seconds is positive (app.py leaves it 0)
  MaxLaunches,   \* bound: a launch beyond it fails
  MaxDeaths      \* bound on the drivers that crash

Users == Solvers \cup Forcers \cup Fetchers
Tasks == Users \cup {Watchdog, Closer}

LifecycleAssumption ==
  /\ KeyOf \in [Solvers \cup Forcers -> Keys] /\ Nobody \notin Solvers
  /\ (Solvers \cup Forcers) \cap Fetchers = {} /\ Solvers \cap Forcers = {}
  /\ Watchdog \notin Users /\ Closer \notin Users /\ Watchdog # Closer
  /\ SolveCap \in Nat \ {0} /\ FetchCap \in Nat \ {0}
  /\ Recycles \in BOOLEAN
  /\ MaxLaunches \in Nat /\ MaxDeaths \in Nat

ASSUME BrowserAssumption == LifecycleAssumption

VARIABLES
  context,     \* _context
  playwright,  \* _playwright
  launches,    \* how many launches have begun
  running,     \* the launches whose Chromium is up
  deaths,
  held,        \* _held: the context on which each clearance was captured
  queue,       \* who has or awaits each lock, in order
  step,        \* where each task is
  using,       \* the context that a task works on
  attempt,     \* the attempt of a fetch_via_browser
  abandoned,   \* history: the browsers a cancelled task was launching or closing
  late,        \* history: the browsers launched after aclose took the context
  inflight, pending, at, waits, got, expired, dropped   \* SingleFlight

historyVars == <<abandoned, late>>
contextVars == <<context, playwright, launches, running, deaths, held, historyVars>>
taskVars == <<queue, step, using, attempt>>
flightVars == <<inflight, pending, at, waits, got, expired, dropped>>
vars == <<contextVars, taskVars, flightVars>>

Held == {k \in Keys : held[k] # 0}
Flight == INSTANCE SingleFlight WITH
  Callers <- Solvers, KeyOf <- [c \in Solvers |-> KeyOf[c]], live <- Held

\* _context_lock, the solve-cap semaphore and _browser_lock.
Capacity == [lock |-> 1, solve |-> SolveCap, page |-> FetchCap]
Gate(t) == IF t \in Fetchers THEN "page" ELSE "solve"

Init ==
  /\ context = 0 /\ playwright = 0 /\ launches = 0
  /\ running = {} /\ deaths = 0 /\ abandoned = {} /\ late = {}
  /\ held = [k \in Keys |-> 0]
  /\ queue = [q \in DOMAIN Capacity |-> <<>>]
  /\ step = [t \in Tasks |-> "out"]
  /\ using = [t \in Tasks |-> 0]
  /\ attempt = [f \in Fetchers |-> 1]
  /\ Flight!FlightInit

-----------------------------------------------------------------------------
(* Locks are fair: the tasks at the head of a queue have it.               *)
Has(t, q) == \E i \in DOMAIN queue[q] : i <= Capacity[q] /\ queue[q][i] = t
Joined(t, q) == [queue EXCEPT ![q] = Append(@, t)]
\* A task is at most once in a queue.
Without(s, t) ==
  IF t \in ToSet(s) THEN RemoveAt(s, CHOOSE i \in DOMAIN s : s[i] = t) ELSE s
Left(t, q) == [queue EXCEPT ![q] = Without(@, t)]
BugLeftAll(t) ==  \* a cancelled waiter stays in the queue of the context lock
  [q \in DOMAIN queue |->
     IF q = "lock" /\ step[t] = "lock" THEN queue[q] ELSE Without(queue[q], t)]
LeftAll(t) == [q \in DOMAIN queue |-> Without(queue[q], t)]

At(t, s) == step' = [step EXCEPT ![t] = s]
Uses(t, n) == using' = [using EXCEPT ![t] = n]

\* The call of t raises.
Raises(t) ==
  /\ At(t, "out") /\ queue' = LeftAll(t) /\ Uses(t, 0)
  /\ UNCHANGED <<context, playwright, launches, deaths, held, attempt>>
  /\ IF t \in Solvers THEN Flight!FetchRaises(t) ELSE UNCHANGED flightVars

-----------------------------------------------------------------------------
(* solve                                                                   *)

\* A held clearance is reused, a solve in flight is followed.
Reuse(c) ==
  /\ UNCHANGED <<contextVars, taskVars>>
  /\ Flight!Hit(c) \/ Flight!Follow(c)

\* The leader of a key queues for the solve cap.
Lead(c) ==
  /\ At(c, "gate") /\ queue' = Joined(c, "solve")
  /\ UNCHANGED <<contextVars, using, attempt>>
  /\ Flight!Lead(c)

Return(c) ==
  /\ UNCHANGED <<contextVars, taskVars>>
  /\ Flight!Return(c)

\* A forced solve, and a fetch, have a flight of their own.
Arrive(t) ==
  /\ t \in Forcers \cup Fetchers /\ step[t] = "out"
  /\ At(t, "gate") /\ queue' = Joined(t, Gate(t))
  /\ attempt' = IF t \in Fetchers THEN [attempt EXCEPT ![t] = 1] ELSE attempt
  /\ UNCHANGED <<contextVars, using, flightVars>>

\* get_context: the live context at once, or the lock.
GetContext(t) ==
  /\ step[t] = "gate" /\ Has(t, Gate(t))
  /\ IF context # 0
     THEN At(t, "use") /\ Uses(t, context) /\ UNCHANGED queue
     ELSE At(t, "lock") /\ queue' = Joined(t, "lock") /\ UNCHANGED using
  /\ UNCHANGED <<contextVars, attempt, flightVars>>

BugLocked(t) ==  \* no second check under the lock
  /\ step[t] = "lock" /\ Has(t, "lock")
  /\ At(t, "start")
  /\ UNCHANGED <<contextVars, queue, using, attempt, flightVars>>
\* The lock: somebody else has launched it meanwhile, or this task does.
Locked(t) ==
  /\ step[t] = "lock" /\ Has(t, "lock")
  /\ IF context # 0
     THEN At(t, "use") /\ Uses(t, context) /\ queue' = Left(t, "lock")
     ELSE At(t, "start") /\ UNCHANGED <<using, queue>>
  /\ UNCHANGED <<contextVars, attempt, flightVars>>

\* The driver is started, and Chromium being launched.
Start(t) ==
  /\ step[t] = "start" /\ launches < MaxLaunches
  /\ launches' = launches + 1
  /\ playwright' = launches'
  /\ At(t, "launch") /\ Uses(t, launches')
  /\ UNCHANGED <<context, running, deaths, held, historyVars, queue, attempt, flightVars>>

\* No task closes what is launched once aclose has taken the context.
TooLate == step[Closer] \notin {"out", "cancel"}

Launched(t) ==
  /\ step[t] = "launch" /\ playwright = using[t]
  /\ context' = using[t]
  /\ running' = running \cup {using[t]}
  /\ late' = IF TooLate THEN late \cup {using[t]} ELSE late
  /\ UNCHANGED abandoned
  /\ At(t, "use") /\ queue' = Left(t, "lock")
  /\ UNCHANGED <<playwright, launches, deaths, held, using, attempt, flightVars>>

\* The start or the launch fails, as it must once its driver is stopped.
LaunchFails(t) ==
  /\ step[t] \in {"start", "launch"}
  /\ UNCHANGED <<running, historyVars>>
  /\ Raises(t)

\* The clearance is captured; its page is about to be closed.
Capture(t) ==
  /\ t \in Solvers \cup Forcers /\ step[t] = "use" /\ using[t] \in running
  /\ At(t, "page")
  /\ UNCHANGED <<contextVars, queue, using, attempt, flightVars>>

\* The challenge stands, or the context is gone.
SolveFails(t) ==
  /\ t \in Solvers \cup Forcers /\ step[t] = "use"
  /\ UNCHANGED <<running, historyVars>>
  /\ Raises(t)

BugSolved(t) ==  \* a forced solve answers whoever waits for the key
  /\ step[t] = "page"
  /\ held' = [held EXCEPT ![KeyOf[t]] = using[t]]
  /\ At(t, "out") /\ queue' = LeftAll(t) /\ Uses(t, 0)
  /\ UNCHANGED <<context, playwright, launches, running, deaths, historyVars, attempt>>
  /\ IF t \in Solvers THEN Flight!FetchReturns(t)
     ELSE /\ inflight' = [inflight EXCEPT ![KeyOf[t]] = Nobody]
          /\ UNCHANGED <<pending, at, waits, got, expired, dropped>>
\* The page is closed, or cannot be any more: the clearance is held.
Solved(t) ==
  /\ step[t] = "page"
  /\ held' = [held EXCEPT ![KeyOf[t]] = using[t]]
  /\ At(t, "out") /\ queue' = LeftAll(t) /\ Uses(t, 0)
  /\ UNCHANGED <<context, playwright, launches, running, deaths, historyVars, attempt>>
  /\ IF t \in Solvers THEN Flight!FetchReturns(t) ELSE UNCHANGED flightVars

-----------------------------------------------------------------------------
(* fetch_via_browser                                                       *)

\* The page answers, or fails on its own.
PageEnds(f) ==
  /\ f \in Fetchers /\ step[f] = "use" /\ using[f] \in running
  /\ UNCHANGED <<running, historyVars>>
  /\ Raises(f)

\* The context is gone: recycle it and try once more.
PageDies(f) ==
  /\ f \in Fetchers /\ step[f] = "use" /\ using[f] \notin running
  /\ IF attempt[f] = 1
     THEN /\ At(f, "recycle")
          /\ queue' = [Left(f, "page") EXCEPT !["lock"] = Append(@, f)]
          /\ Uses(f, 0)
          /\ UNCHANGED <<contextVars, attempt, flightVars>>
     ELSE UNCHANGED <<running, historyVars>> /\ Raises(f)

-----------------------------------------------------------------------------
(* recycle                                                                 *)

\* _close_context forgets the context and the clearances before it awaits the
\* browser.
Forgets(t) ==
  /\ context' = 0
  /\ held' = [k \in Keys |-> 0]
  /\ Uses(t, context)

\* After recycle_now a fetch is tried again, after its round the watchdog sleeps.
Onward(t) == IF t \in Fetchers THEN "gate" ELSE "out"
Retried(t, q) == IF t \in Fetchers THEN [q EXCEPT !["page"] = Append(@, t)] ELSE q
Tried(t) == IF t \in Fetchers THEN [attempt EXCEPT ![t] = @ + 1] ELSE attempt

WatchdogWakes ==
  /\ Recycles
  /\ step[Watchdog] = "out" /\ step[Closer] = "out"
  /\ At(Watchdog, "recycle") /\ queue' = Joined(Watchdog, "lock")
  /\ UNCHANGED <<contextVars, using, attempt, flightVars>>

Recycle(t) ==
  /\ step[t] = "recycle" /\ Has(t, "lock")
  /\ Forgets(t)
  /\ IF context = 0
     THEN At(t, Onward(t)) /\ queue' = Retried(t, Left(t, "lock")) /\ attempt' = Tried(t)
     ELSE At(t, "close") /\ UNCHANGED <<queue, attempt>>
  /\ UNCHANGED <<playwright, launches, running, deaths, historyVars, flightVars>>

BugClosed(t) ==  \* the browser is forgotten, not closed
  /\ t # Closer /\ step[t] = "close"
  /\ At(t, Onward(t)) /\ queue' = Retried(t, Left(t, "lock")) /\ attempt' = Tried(t)
  /\ Uses(t, 0)
  /\ UNCHANGED <<context, playwright, launches, running, deaths, held, historyVars, flightVars>>
Closed(t) ==
  /\ t # Closer /\ step[t] = "close"
  /\ running' = running \ {using[t]}
  /\ At(t, Onward(t)) /\ queue' = Retried(t, Left(t, "lock")) /\ attempt' = Tried(t)
  /\ Uses(t, 0)
  /\ UNCHANGED <<context, playwright, launches, deaths, held, historyVars, flightVars>>

-----------------------------------------------------------------------------
(* cancellation, crash and shutdown                                        *)

\* What becomes of the Chromium that a cancelled task was launching or closing is
\* up to playwright, which nobody asks again.
Abandoned(t) ==
  /\ CASE step[t] = "launch" /\ playwright = using[t] ->
            running' \in {running, running \cup {using[t]}}
       [] step[t] = "close" -> running' \in {running, running \ {using[t]}}
       [] OTHER -> running' = running
  /\ abandoned' = IF step[t] \in {"launch", "close"} /\ using[t] \in running'
                  THEN abandoned \cup {using[t]} ELSE abandoned
  /\ UNCHANGED late

\* The deadline of a search or the end of a job cancels a task that waits.
Expire(t) ==
  /\ step[t] # "out" \/ t \in Solvers
  /\ Abandoned(t)
  /\ At(t, "out") /\ queue' = LeftAll(t) /\ Uses(t, 0)
  /\ UNCHANGED <<context, playwright, launches, deaths, held, attempt>>
  /\ IF t \in Solvers THEN Flight!Expire(t) ELSE UNCHANGED flightVars

DriverDies(n) ==
  /\ n \in running /\ deaths < MaxDeaths
  /\ running' = running \ {n}
  /\ deaths' = deaths + 1
  /\ UNCHANGED <<context, playwright, launches, held, historyVars, taskVars, flightVars>>

\* aclose cancels the watchdog, wherever it is.
CancelWatchdog ==
  /\ step[Closer] = "out"
  /\ Abandoned(Watchdog)
  /\ step' = [step EXCEPT ![Closer] = "cancel", ![Watchdog] = "gone"]
  /\ queue' = LeftAll(Watchdog)
  /\ Uses(Watchdog, 0)
  /\ UNCHANGED <<context, playwright, launches, deaths, held, attempt, flightVars>>

\* It takes the context without the lock.
TakeContext ==
  /\ step[Closer] = "cancel"
  /\ Forgets(Closer)
  /\ At(Closer, "close")
  /\ UNCHANGED <<playwright, launches, running, deaths, historyVars, queue, attempt, flightVars>>

CloseContext ==
  /\ step[Closer] = "close"
  /\ running' = running \ {using[Closer]}
  /\ At(Closer, "stop")
  /\ UNCHANGED <<context, playwright, launches, deaths, held, historyVars, queue, using, attempt,
                 flightVars>>

\* The last driver that was started is stopped, and its Chromium with it.
StopPlaywright ==
  /\ step[Closer] = "stop"
  /\ running' = running \ {playwright}
  /\ playwright' = 0
  /\ At(Closer, "gone")
  /\ UNCHANGED <<context, launches, deaths, held, historyVars, queue, using, attempt, flightVars>>

\* The jobs have drained after it: the process is about to end.
Drain ==
  /\ step[Closer] = "gone"
  /\ \A t \in Users : step[t] = "out" /\ (t \in Solvers => at[t] = "idle")
  /\ At(Closer, "drained")
  /\ UNCHANGED <<contextVars, queue, using, attempt, flightVars>>

-----------------------------------------------------------------------------
Call(t) == IF t \in Solvers THEN Reuse(t) \/ Lead(t) ELSE Arrive(t)

Advance(t) ==
  \/ t \in Solvers /\ Return(t)
  \/ GetContext(t) \/ Locked(t) \/ Start(t) \/ Launched(t) \/ LaunchFails(t)
  \/ Capture(t) \/ SolveFails(t) \/ Solved(t)
  \/ PageEnds(t) \/ PageDies(t) \/ Recycle(t) \/ Closed(t)

Aclose == CancelWatchdog \/ TakeContext \/ CloseContext \/ StopPlaywright \/ Drain

Next ==
  \/ step[Closer] # "drained" /\ \E t \in Users : Call(t)
  \/ \E t \in Users : Advance(t) \/ Expire(t)
  \/ WatchdogWakes \/ Recycle(Watchdog) \/ Closed(Watchdog)
  \/ \E n \in running : DriverDies(n)
  \/ Aclose

Spec == Init /\ [][Next]_vars

\* Every browser call has a timeout of its own, and ready tasks run.
FairSpec ==
  /\ Spec
  /\ \A t \in Users : WF_vars(Advance(t))
  /\ WF_vars(Recycle(Watchdog) \/ Closed(Watchdog))

-----------------------------------------------------------------------------
Launches == 0..MaxLaunches

TypeOK ==
  /\ context \in Launches /\ playwright \in Launches /\ launches \in Launches
  /\ running \subseteq 1..MaxLaunches /\ abandoned \cup late \subseteq 1..MaxLaunches
  /\ deaths \in 0..MaxDeaths
  /\ held \in [Keys -> Launches]
  /\ queue \in [DOMAIN Capacity -> Seq(Tasks)]
  /\ step \in [Tasks -> {"out", "gate", "lock", "start", "launch", "use", "page", "recycle",
                         "close", "cancel", "stop", "gone", "drained"}]
  /\ using \in [Tasks -> Launches]
  /\ attempt \in [Fetchers -> 1..2]
  /\ Flight!FlightTypeOK

\* The profile directory never has two browsers, neither while one is being
\* recycled nor while several tasks find none, as long as no launch or close is
\* cancelled half way.
OneBrowser ==
  /\ TypeOK
  /\ step[Closer] = "out" /\ abandoned = {} =>
       Cardinality(running \cup {using[t] : t \in {u \in Users : step[u] = "launch"}}) <= 1

\* The shutdown closes whatever was launched before it: what is left was launched
\* once aclose had taken the context, or abandoned by a cancelled task.
AcloseClosesTheRest == step[Closer] = "drained" => running \subseteq abandoned \cup late

\* Every browser is the one in use, or it is closed.
BrowsersAreAccounted == OneBrowser /\ AcloseClosesTheRest

\* Forced solves, recycles and crashes included, the solves of a key are a single
\* flight: the lifecycle implements SingleFlight.
SolvesAreSingleFlight == Flight!FlightSpec

\* Every call of the solver comes back, whatever is recycled, crashes or is
\* cancelled meanwhile.
CallsEnd ==
  /\ \A t \in Users : step[t] # "out" ~> step[t] = "out"
  /\ \A c \in Solvers : at[c] # "idle" ~> at[c] = "idle"

-----------------------------------------------------------------------------
(* Claims of the code's own documentation that the runs refute.            *)

\* solver_lifecycle.py: no orphan Chromium survives shutdown (not counting what a
\* cancelled task abandoned).
NoOrphan == step[Closer] = "drained" => running \subseteq abandoned
=============================================================================
