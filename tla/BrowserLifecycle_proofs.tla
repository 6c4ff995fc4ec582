----------------------- MODULE BrowserLifecycle_proofs -----------------------
(***************************************************************************)
(* The browsers of the Chromium solver, for any tasks, keys and launches:  *)
(* one at a time on the profile, and none that the shutdown leaves behind, *)
(* but for those that the model names.  The lock of the context is what    *)
(* makes it so: whoever launches or closes a browser is at the head of its *)
(* queue, and there is no context meanwhile.                               *)
(***************************************************************************)
EXTENDS BrowserLifecycle, FiniteSetTheorems, TLAPS

HasLock(t) == queue["lock"] # <<>> /\ queue["lock"][1] = t

\* Whoever launches or closes has the lock, and there is no context.
LockHolders ==
  \A t \in Tasks \ {Closer} : step[t] \in {"start", "launch", "close"} =>
    HasLock(t) /\ context = 0

\* Where each kind of task can be.
StepsFit ==
  /\ \A t \in Users :
       /\ step[t] \notin {"cancel", "stop", "gone", "drained"}
       /\ step[t] = "page" => t \in Solvers \cup Forcers /\ using[t] # 0
       /\ step[t] \in {"recycle", "close"} => t \in Fetchers /\ attempt[t] = 1
       /\ step[t] = "launch" => using[t] \in 1..launches
  /\ step[Watchdog] \in {"out", "recycle", "close", "gone"}
  /\ step[Closer] \in {"out", "cancel", "close", "stop", "gone", "drained"}
  /\ step[Closer] # "out" => step[Watchdog] = "gone"
  /\ step[Closer] = "drained" => \A t \in Users : step[t] = "out"

\* A browser is the context, or being closed, or one of those that nobody has a
\* handle to any more.
Closing == {using[t] : t \in {u \in Tasks : step[u] = "close"}}
BrowsersKnown ==
  /\ running \subseteq abandoned \cup late \cup {context} \cup Closing
  /\ step[Closer] = "out" => late = {}
  /\ TooLate /\ context # 0 => context \in late

LInv == TypeOK /\ StepsFit /\ LockHolders /\ BrowsersKnown

-----------------------------------------------------------------------------
(* Queues.                                                                 *)

LEMMA QueueNames == DOMAIN Capacity = {"lock", "solve", "page"}
BY DEF Capacity

\* Who leaves a queue leaves the head to whoever else has it.
LEMMA WithoutIs ==
  ASSUME NEW S, NEW s \in Seq(S), NEW e
  PROVE  /\ Without(s, e) \in Seq(S)
         /\ s # <<>> /\ s[1] # e => Without(s, e) # <<>> /\ Without(s, e)[1] = s[1]
<1>1. CASE e \notin ToSet(s)
  BY <1>1 DEF Without
<1>2. CASE e \in ToSet(s)
  <2> DEFINE i == CHOOSE n \in DOMAIN s : s[n] = e
             a == SubSeq(s, 1, i - 1)
             b == SubSeq(s, i + 1, Len(s))
  <2>1. i \in DOMAIN s /\ s[i] = e
    BY <1>2 DEF ToSet
  <2>2. i \in 1..Len(s) /\ Len(s) \in Nat
    BY <2>1
  <2> HIDE DEF i
  <2>3. /\ a \in Seq(S) /\ Len(a) = i - 1 /\ \A n \in 1..(i - 1) : a[n] = s[n]
        /\ b \in Seq(S)
    BY <2>2
  <2>4. Without(s, e) = a \o b
    BY <1>2 DEF Without, RemoveAt, i
  <2> HIDE DEF a, b
  <2>5. a \o b \in Seq(S)
    BY <2>3
  <2>6. ASSUME s # <<>>, s[1] # e PROVE a \o b # <<>> /\ (a \o b)[1] = s[1]
    <3>1. i # 1 /\ 1 \in 1..(i - 1)
      BY <2>1, <2>2, <2>6
    <3>2. Len(a) >= 1 /\ a[1] = s[1]
      BY <2>3, <3>1
    <3>3. Len(a \o b) >= 1 /\ (a \o b)[1] = a[1]
      BY <2>3, <3>2
    <3> QED BY <3>2, <3>3
  <2> QED BY <2>4, <2>5, <2>6
<1> QED BY <1>1, <1>2

\* What joining and leaving do to the queues, and to the head of the lock.
QueueTyped(q) == q \in [{"lock", "solve", "page"} -> Seq(Tasks)]
LockKept(t, q) ==
  queue["lock"] # <<>> /\ queue["lock"][1] # t => q["lock"] # <<>> /\ q["lock"][1] = queue["lock"][1]

LEMMA QueueSteps ==
  ASSUME QueueTyped(queue), NEW t \in Tasks
  PROVE  /\ LockKept(t, queue)
         /\ QueueTyped(LeftAll(t)) /\ LockKept(t, LeftAll(t))
         /\ \A q \in {"lock", "solve", "page"} :
              /\ QueueTyped(Left(t, q)) /\ LockKept(t, Left(t, q))
              /\ QueueTyped(Joined(t, q)) /\ LockKept(t, Joined(t, q))
<1> USE DEF QueueTyped, LockKept
<1>1. \A q \in {"lock", "solve", "page"} : queue[q] \in Seq(Tasks)
  OBVIOUS
<1>2. QueueTyped(LeftAll(t)) /\ LockKept(t, LeftAll(t))
  BY <1>1, WithoutIs DEF LeftAll
<1>3. ASSUME NEW q \in {"lock", "solve", "page"}
      PROVE  QueueTyped(Left(t, q)) /\ LockKept(t, Left(t, q))
  BY <1>1, <1>3, WithoutIs DEF Left
<1>4. ASSUME NEW q \in {"lock", "solve", "page"}
      PROVE  QueueTyped(Joined(t, q)) /\ LockKept(t, Joined(t, q))
  BY <1>1, <1>4 DEF Joined
<1> QED BY <1>2, <1>3, <1>4

\* A queue that a task joins on top of what another step made of it.
LEMMA AppendKeeps ==
  ASSUME NEW q, QueueTyped(q), NEW t \in Tasks, LockKept(t, q), NEW r \in {"lock", "page"}
  PROVE  QueueTyped([q EXCEPT ![r] = Append(@, t)]) /\ LockKept(t, [q EXCEPT ![r] = Append(@, t)])
BY DEF QueueTyped, LockKept

\* Without a second task the lock has one holder.
LEMMA HeadHasLock ==
  ASSUME QueueTyped(queue), NEW t, Has(t, "lock")
  PROVE  HasLock(t)
BY DEF QueueTyped, Has, Capacity, HasLock

-----------------------------------------------------------------------------
(* The single flight of the solves.                                        *)

\* A step of the flight keeps its types.
LEMMA FlightTyped ==
  ASSUME Flight!FlightTypeOK, LifecycleAssumption, [Flight!FlightNext]_(Flight!flightVars)
  PROVE  Flight!FlightTypeOK'
<1> USE DEF Flight!FlightTypeOK, Flight!flightVars, Flight!cacheVars, Flight!callVars
<1>0. Held' \subseteq Keys /\ \A c \in Solvers : KeyOf[c] \in Keys
  BY DEF Held, LifecycleAssumption
<1>1. CASE UNCHANGED Flight!flightVars
  BY <1>0, <1>1
<1>2. ASSUME NEW c \in Solvers, Flight!Call(c) PROVE Flight!FlightTypeOK'
  BY <1>0, <1>2 DEF Flight!Call, Flight!Hit, Flight!Follow, Flight!Lead, Flight!Ends,
     Flight!Outcomes
<1>3. ASSUME NEW c \in Solvers, Flight!Fetch(c) PROVE Flight!FlightTypeOK'
  BY <1>0, <1>3 DEF Flight!Fetch, Flight!FetchReturns, Flight!FetchRaises, Flight!Settle,
     Flight!Ends, Flight!Followers, Flight!Outcomes
<1>4. ASSUME NEW c \in Solvers, Flight!Return(c) PROVE Flight!FlightTypeOK'
  BY <1>0, <1>4 DEF Flight!Return
<1>5. ASSUME NEW c \in Solvers, Flight!Expire(c) PROVE Flight!FlightTypeOK'
  <2>1. CASE Flight!LeaderExpires(c)
    BY <1>0, <2>1 DEF Flight!LeaderExpires, Flight!Settle, Flight!Ends, Flight!Followers,
       Flight!Outcomes
  <2>2. CASE Flight!FollowerExpires(c)
    BY <1>0, <2>2 DEF Flight!FollowerExpires, Flight!Ends, Flight!Followers, Flight!Outcomes
  <2>3. CASE Flight!WokenExpires(c)
    BY <1>0, <2>3 DEF Flight!WokenExpires, Flight!Ends, Flight!Outcomes
  <2> QED BY <1>5, <2>1, <2>2, <2>3 DEF Flight!Expire
<1>6. ASSUME NEW ks \in SUBSET Held, Flight!Evict(ks) PROVE Flight!FlightTypeOK'
  BY <1>0, <1>6 DEF Flight!Evict
<1>7. ASSUME NEW k \in Keys, Flight!Replace(k) PROVE Flight!FlightTypeOK'
  BY <1>0, <1>7 DEF Flight!Replace
<1> QED BY <1>1, <1>2, <1>3, <1>4, <1>5, <1>6, <1>7 DEF Flight!FlightNext

\* Forgetting the clearances is an eviction, or nothing.
LEMMA ForgettingEvicts ==
  ASSUME held' = [k \in Keys |-> 0], UNCHANGED flightVars
  PROVE  [Flight!FlightNext]_(Flight!flightVars)
<1>1. Held' = {} /\ Held \in SUBSET Held
  BY DEF Held
<1>2. Held # {} => Flight!Evict(Held)
  BY <1>1 DEF Flight!Evict, Flight!callVars, flightVars
<1>3. Held = {} => UNCHANGED Flight!flightVars
  BY <1>1 DEF Flight!flightVars, Flight!cacheVars, Flight!callVars, flightVars
<1> QED BY <1>1, <1>2, <1>3 DEF Flight!FlightNext

\* The clearance of a forced solve replaces the one that is held.
LEMMA ForcingReplaces ==
  ASSUME held \in [Keys -> Launches], NEW k \in Keys, NEW n \in Launches \ {0},
         held' = [held EXCEPT ![k] = n], UNCHANGED flightVars
  PROVE  [Flight!FlightNext]_(Flight!flightVars)
<1>1. Held' = Held \cup {k}
  BY DEF Held
<1>2. Flight!Replace(k)
  BY <1>1 DEF Flight!Replace, Flight!callVars, flightVars
<1> QED BY <1>2 DEF Flight!FlightNext

\* Whatever changes neither the clearances nor the flight is no step of it.
LEMMA FlightRests ==
  ASSUME UNCHANGED <<held, flightVars>>
  PROVE  UNCHANGED Flight!flightVars
BY DEF Held, Flight!flightVars, Flight!cacheVars, Flight!callVars, flightVars

\* A call that raises ends its flight, if it leads one.
LEMMA RaisingEnds ==
  ASSUME NEW t, Raises(t)
  PROVE  [Flight!FlightNext]_(Flight!flightVars)
<1>1. CASE t \in Solvers
  BY <1>1 DEF Raises, Flight!FlightNext, Flight!Fetch
<1>2. CASE t \notin Solvers
  BY <1>2, FlightRests DEF Raises
<1> QED BY <1>1, <1>2

\* Every step of the lifecycle is a step of the flight, or none.
LEMMA FlightSteps ==
  ASSUME TypeOK, StepsFit, LifecycleAssumption, [Next]_vars
  PROVE  [Flight!FlightNext]_(Flight!flightVars)
<1> DEFINE Goal == [Flight!FlightNext]_(Flight!flightVars)
<1>0. CASE UNCHANGED vars
  BY <1>0, FlightRests DEF vars, contextVars
<1>1. ASSUME NEW t \in Users, Call(t) PROVE Goal
  <2>1. CASE t \in Solvers /\ Reuse(t)
    BY <2>1 DEF Reuse, Flight!FlightNext, Flight!Call
  <2>2. CASE t \in Solvers /\ Lead(t)
    BY <2>2 DEF Lead, Flight!FlightNext, Flight!Call
  <2>3. CASE Arrive(t)
    BY <2>3, FlightRests DEF Arrive, contextVars
  <2> QED BY <1>1, <2>1, <2>2, <2>3 DEF Call
<1>2. ASSUME NEW t \in Users \cup {Watchdog}, Recycle(t) \/ Closed(t) PROVE Goal
  <2>1. CASE Recycle(t)
    BY <2>1, ForgettingEvicts DEF Recycle, Forgets
  <2>2. CASE Closed(t)
    BY <2>2, FlightRests DEF Closed
  <2> QED BY <1>2, <2>1, <2>2
<1>3. ASSUME NEW t \in Users, Advance(t) PROVE Goal
  <2>1. CASE t \in Solvers /\ Return(t)
    BY <2>1 DEF Return, Flight!FlightNext
  <2>2. CASE GetContext(t) \/ Locked(t) \/ Start(t) \/ Launched(t) \/ Capture(t)
    BY <2>2, FlightRests DEF GetContext, Locked, Start, Launched, Capture, contextVars
  <2>3. CASE LaunchFails(t) \/ SolveFails(t) \/ PageEnds(t)
    BY <2>3, RaisingEnds DEF LaunchFails, SolveFails, PageEnds
  <2>4. CASE Solved(t)
    <3>1. CASE t \in Solvers
      BY <2>4, <3>1 DEF Solved, Flight!FlightNext, Flight!Fetch
    <3>2. CASE t \notin Solvers
      <4>1. KeyOf[t] \in Keys /\ using[t] \in Launches \ {0}
        BY <2>4 DEF Solved, StepsFit, LifecycleAssumption, TypeOK, Tasks
      <4> QED BY <2>4, <3>2, <4>1, ForcingReplaces DEF Solved, TypeOK
    <3> QED BY <3>1, <3>2
  <2>5. CASE PageDies(t)
    BY <2>5, RaisingEnds, FlightRests DEF PageDies, contextVars
  <2> QED BY <1>2, <1>3, <2>1, <2>2, <2>3, <2>4, <2>5 DEF Advance
<1>4. ASSUME NEW t \in Users, Expire(t) PROVE Goal
  <2>1. CASE t \in Solvers
    BY <1>4, <2>1 DEF Expire, Flight!FlightNext
  <2>2. CASE t \notin Solvers
    BY <1>4, <2>2, FlightRests DEF Expire
  <2> QED BY <2>1, <2>2
<1>5. CASE WatchdogWakes
  BY <1>5, FlightRests DEF WatchdogWakes, contextVars
<1>6. ASSUME NEW n \in running, DriverDies(n) PROVE Goal
  BY <1>6, FlightRests DEF DriverDies
<1>7. CASE Aclose
  <2>1. CASE TakeContext
    BY <2>1, ForgettingEvicts DEF TakeContext, Forgets
  <2>2. CASE CancelWatchdog \/ CloseContext \/ StopPlaywright \/ Drain
    BY <2>2, FlightRests DEF CancelWatchdog, CloseContext, StopPlaywright, Drain, contextVars
  <2> QED BY <1>7, <2>1, <2>2 DEF Aclose
<1> QED BY <1>0, <1>1, <1>2, <1>3, <1>4, <1>5, <1>6, <1>7 DEF Next

-----------------------------------------------------------------------------
(* Types.                                                                  *)

LEMMA LaunchNumbers ==
  ASSUME LifecycleAssumption
  PROVE  /\ Launches = 0..MaxLaunches /\ 1..MaxLaunches \subseteq Launches /\ 0 \in Launches
         /\ \A n \in Launches : n # 0 => n \in 1..MaxLaunches
         /\ \A n \in Launches : n < MaxLaunches => n + 1 \in 1..MaxLaunches
BY DEF LifecycleAssumption, Launches

\* A call that raises leaves everything in its type.
LEMMA RaisingTyped ==
  ASSUME TypeOK, LifecycleAssumption, NEW t \in Users, Raises(t), UNCHANGED <<running, historyVars>>,
         Flight!FlightTypeOK'
  PROVE  TypeOK'
<1>1. t \in Tasks /\ QueueTyped(queue)
  BY QueueNames DEF TypeOK, QueueTyped, Tasks
<1>2. queue' \in [DOMAIN Capacity -> Seq(Tasks)]
  BY <1>1, QueueSteps, QueueNames DEF Raises, QueueTyped
<1> QED BY <1>1, <1>2, LaunchNumbers DEF TypeOK, Raises, At, Uses, historyVars, Tasks

LEMMA Typed ==
  ASSUME TypeOK, StepsFit, LifecycleAssumption, [Next]_vars
  PROVE  TypeOK'
<1>a. Flight!FlightTypeOK'
  BY FlightSteps, FlightTyped DEF TypeOK
<1>b. QueueTyped(queue)
  BY QueueNames DEF TypeOK, QueueTyped
<1>0. CASE UNCHANGED vars
  BY <1>0, <1>a DEF vars, contextVars, historyVars, taskVars, TypeOK
<1>1. ASSUME NEW t \in Users, Call(t) PROVE TypeOK'
  <2> t \in Tasks BY DEF Tasks
  <2>1. CASE t \in Solvers /\ Reuse(t)
    BY <2>1, <1>a DEF Reuse, contextVars, historyVars, taskVars, TypeOK
  <2>2. CASE t \in Solvers /\ Lead(t)
    <3>1. queue' \in [DOMAIN Capacity -> Seq(Tasks)]
      BY <1>b, <2>2, QueueSteps, QueueNames DEF Lead, QueueTyped
    <3> QED BY <2>2, <3>1, <1>a DEF Lead, At, contextVars, historyVars, TypeOK
  <2>3. CASE Arrive(t)
    <3>1. queue' \in [DOMAIN Capacity -> Seq(Tasks)]
      BY <1>b, <2>3, QueueSteps, QueueNames DEF Arrive, Gate, QueueTyped
    <3> QED BY <2>3, <3>1, <1>a DEF Arrive, At, contextVars, historyVars, TypeOK
  <2> QED BY <1>1, <2>1, <2>2, <2>3 DEF Call
<1>2. ASSUME NEW t \in Users \cup {Watchdog}, Recycle(t) \/ Closed(t) PROVE TypeOK'
  <2> t \in Tasks BY DEF Tasks
  <2> DEFINE q == Retried(t, Left(t, "lock"))
  <2>1. q \in [DOMAIN Capacity -> Seq(Tasks)]
    BY <1>b, QueueSteps, AppendKeeps, QueueNames DEF Retried, QueueTyped
  <2>2. t \in Fetchers /\ step[t] \in {"recycle", "close"} => attempt[t] = 1
    BY DEF StepsFit, Users
  <2> HIDE DEF q
  <2>3. attempt' \in [Fetchers -> 1..2]
    BY <1>2, <2>2 DEF Recycle, Closed, Tried, TypeOK
  <2>4. queue' \in [DOMAIN Capacity -> Seq(Tasks)]
    BY <1>2, <2>1 DEF Recycle, Closed, q, TypeOK
  <2>5. CASE Recycle(t)
    BY <2>5, <2>3, <2>4, <1>a, LaunchNumbers
       DEF Recycle, Forgets, At, Uses, Onward, historyVars, TypeOK
  <2>6. CASE Closed(t)
    BY <2>6, <2>3, <2>4, <1>a, LaunchNumbers DEF Closed, At, Uses, Onward, historyVars, TypeOK
  <2> QED BY <1>2, <2>5, <2>6
<1>3. ASSUME NEW t \in Users, Advance(t) PROVE TypeOK'
  <2> t \in Tasks BY DEF Tasks
  <2>q. /\ Left(t, "lock") \in [DOMAIN Capacity -> Seq(Tasks)]
        /\ Left(t, "page") \in [DOMAIN Capacity -> Seq(Tasks)]
        /\ Joined(t, "lock") \in [DOMAIN Capacity -> Seq(Tasks)]
        /\ LeftAll(t) \in [DOMAIN Capacity -> Seq(Tasks)]
    BY <1>b, QueueSteps, QueueNames DEF QueueTyped
  <2>1. CASE t \in Solvers /\ Return(t)
    BY <2>1, <1>a DEF Return, contextVars, historyVars, taskVars, TypeOK
  <2>2. CASE GetContext(t)
    BY <2>2, <2>q, <1>a DEF GetContext, At, Uses, contextVars, historyVars, TypeOK
  <2>3. CASE Locked(t)
    BY <2>3, <2>q, <1>a DEF Locked, At, Uses, contextVars, historyVars, TypeOK
  <2>4. CASE Start(t)
    BY <2>4, <1>a, LaunchNumbers DEF Start, At, Uses, historyVars, TypeOK
  <2>5. CASE Launched(t)
    <3>1. using[t] \in 1..MaxLaunches
      BY <2>5 DEF Launched, StepsFit, TypeOK, LifecycleAssumption, Launches
    <3> QED BY <2>5, <3>1, <2>q, <1>a, LaunchNumbers DEF Launched, At, TypeOK
  <2>6. CASE Capture(t)
    BY <2>6, <1>a DEF Capture, At, contextVars, historyVars, TypeOK
  <2>7. CASE LaunchFails(t) \/ SolveFails(t) \/ PageEnds(t)
    BY <2>7, <1>a, RaisingTyped DEF LaunchFails, SolveFails, PageEnds
  <2>8. CASE Solved(t)
    BY <2>8, <2>q, <1>a, LaunchNumbers DEF Solved, At, Uses, historyVars, TypeOK
  <2>9. CASE PageDies(t)
    <3>1. CASE attempt[t] = 1
      <4>1. QueueTyped(Left(t, "page")) /\ LockKept(t, Left(t, "page"))
        BY <1>b, QueueSteps
      <4>2. QueueTyped([Left(t, "page") EXCEPT !["lock"] = Append(@, t)])
        BY <4>1, AppendKeeps
      <4>3. queue' \in [DOMAIN Capacity -> Seq(Tasks)]
        BY <2>9, <3>1, <4>2, QueueNames DEF PageDies, QueueTyped
      <4> QED BY <2>9, <3>1, <4>3, <1>a, LaunchNumbers
             DEF PageDies, At, Uses, contextVars, historyVars, TypeOK
    <3> QED BY <2>9, <3>1, <1>a, RaisingTyped DEF PageDies
  <2> QED BY <1>2, <1>3, <2>1, <2>2, <2>3, <2>4, <2>5, <2>6, <2>7, <2>8, <2>9 DEF Advance
<1>t. ASSUME NEW t \in Tasks, Abandoned(t)
      PROVE  /\ running' \subseteq 1..MaxLaunches
             /\ abandoned' \subseteq running' \cup abandoned /\ late' = late
  <2>1. step[t] = "launch" => using[t] \in 1..MaxLaunches
    BY DEF StepsFit, TypeOK, LifecycleAssumption, Launches, Tasks
  <2> QED BY <1>t, <2>1 DEF Abandoned, TypeOK
<1>4. ASSUME NEW t \in Users, Expire(t) PROVE TypeOK'
  <2>1. t \in Tasks /\ queue' \in [DOMAIN Capacity -> Seq(Tasks)]
    BY <1>b, <1>4, QueueSteps, QueueNames DEF Expire, QueueTyped, Tasks
  <2>2. /\ running' \subseteq 1..MaxLaunches
        /\ abandoned' \subseteq running' \cup abandoned /\ late' = late
    BY <1>4, <1>t, <2>1 DEF Expire
  <2> QED BY <1>4, <2>1, <2>2, <1>a, LaunchNumbers DEF Expire, At, Uses, TypeOK
<1>5. CASE WatchdogWakes
  <2>1. Watchdog \in Tasks /\ queue' \in [DOMAIN Capacity -> Seq(Tasks)]
    BY <1>b, <1>5, QueueSteps, QueueNames DEF WatchdogWakes, QueueTyped, Tasks
  <2> QED BY <1>5, <2>1, <1>a DEF WatchdogWakes, At, contextVars, historyVars, TypeOK
<1>6. ASSUME NEW n \in running, DriverDies(n) PROVE TypeOK'
  BY <1>6, <1>a DEF DriverDies, historyVars, taskVars, TypeOK, LifecycleAssumption
<1>7. CASE Aclose
  <2> Closer \in Tasks /\ Watchdog \in Tasks BY DEF Tasks
  <2>1. CASE CancelWatchdog
    <3>1. queue' \in [DOMAIN Capacity -> Seq(Tasks)]
      BY <1>b, <2>1, QueueSteps, QueueNames DEF CancelWatchdog, QueueTyped
    <3>2. /\ running' \subseteq 1..MaxLaunches
          /\ abandoned' \subseteq running' \cup abandoned /\ late' = late
      BY <2>1, <1>t DEF CancelWatchdog
    <3> QED BY <2>1, <3>1, <3>2, <1>a, LaunchNumbers DEF CancelWatchdog, Uses, TypeOK
  <2>2. CASE TakeContext
    BY <2>2, <1>a, LaunchNumbers DEF TakeContext, Forgets, At, Uses, historyVars, TypeOK
  <2>3. CASE CloseContext \/ StopPlaywright
    BY <2>3, <1>a, LaunchNumbers DEF CloseContext, StopPlaywright, At, historyVars, TypeOK
  <2>4. CASE Drain
    BY <2>4, <1>a DEF Drain, At, contextVars, historyVars, TypeOK
  <2> QED BY <1>7, <2>1, <2>2, <2>3, <2>4 DEF Aclose
<1> QED BY <1>0, <1>1, <1>2, <1>3, <1>4, <1>5, <1>6, <1>7 DEF Next

-----------------------------------------------------------------------------
(* What a step of one task, other than the shutdown, must bring.           *)

Workers == Users \cup {Watchdog}

\* t goes to s with the context n.
Moves(t, s, n) == step' = [step EXCEPT ![t] = s] /\ using' = [using EXCEPT ![t] = n]

\* It goes where its kind of task can be.
Fits(t, s, n) ==
  /\ t \in Users =>
       /\ s \notin {"cancel", "stop", "gone", "drained"}
       /\ s = "page" => t \in Solvers \cup Forcers /\ n # 0
       /\ s \in {"recycle", "close"} => t \in Fetchers /\ attempt'[t] = 1
       /\ s = "launch" => n \in 1..launches'
  /\ t = Watchdog => s \in {"out", "recycle", "close"} /\ step[Closer] = "out"
  /\ s # "out" => step[Closer] # "drained"
  /\ \A f \in Fetchers \ {t} : attempt'[f] = attempt[f]
  /\ launches <= launches'

\* It takes nobody's place at the head of the lock, launches and closes only there,
\* and only there brings a context.
Locks(t, s) ==
  /\ LockKept(t, queue')
  /\ s \in {"start", "launch", "close"} => HasLock(t)' /\ context' = 0
  /\ context' \in {0, context} \/ HasLock(t)

\* It loses sight of no browser.
Tracks(t, s, n) ==
  /\ abandoned \subseteq abandoned' /\ late \subseteq late'
  /\ running' \ running \subseteq abandoned' \cup late' \cup {context'}
  /\ step[t] = "close" => using[t] \notin running' \ abandoned'
  /\ context' # context => context = 0 \/ (s = "close" /\ n = context)
  /\ step[Closer] = "out" => late' = late
  /\ TooLate /\ context' \notin {0, context} => context' \in late'

LEMMA MovesFit ==
  ASSUME TypeOK, TypeOK', StepsFit, LifecycleAssumption, NEW t \in Workers, NEW s, NEW n,
         Moves(t, s, n), Fits(t, s, n)
  PROVE  StepsFit'
<1>1. t # Closer /\ t \in Tasks
  BY DEF Workers, Tasks, LifecycleAssumption
<1>2. /\ step'[t] = s /\ using'[t] = n
      /\ \A u \in Tasks \ {t} : step'[u] = step[u] /\ using'[u] = using[u]
  BY <1>1 DEF Moves, TypeOK
<1>3. ASSUME NEW u \in Users
      PROVE  /\ step'[u] \notin {"cancel", "stop", "gone", "drained"}
             /\ step'[u] = "page" => u \in Solvers \cup Forcers /\ using'[u] # 0
             /\ step'[u] \in {"recycle", "close"} => u \in Fetchers /\ attempt'[u] = 1
             /\ step'[u] = "launch" => using'[u] \in 1..launches'
  <2>1. CASE u = t
    BY <1>2, <2>1 DEF Fits
  <2>2. CASE u # t
    <3>1. launches \in Nat /\ launches' \in Nat /\ launches <= launches'
      BY DEF Fits, TypeOK, Launches, LifecycleAssumption
    <3>2. step'[u] = step[u] /\ using'[u] = using[u]
      BY <1>2, <2>2 DEF Tasks
    <3>3. u \in Fetchers => attempt'[u] = attempt[u]
      BY <2>2 DEF Fits
    <3>4. 1..launches \subseteq 1..launches'
      BY <3>1
    <3> QED BY <3>2, <3>3, <3>4 DEF StepsFit
  <2> QED BY <2>1, <2>2
<1>4. /\ step'[Closer] = step[Closer]
      /\ step'[Watchdog] = step[Watchdog] \/ t = Watchdog
  BY <1>1, <1>2 DEF Tasks
<1>5. step'[Closer] = "drained" => \A u \in Users : step'[u] = "out"
  BY <1>2, <1>4 DEF StepsFit, Fits, Tasks
<1> QED BY <1>2, <1>3, <1>4, <1>5 DEF StepsFit, Fits

LEMMA MovesLock ==
  ASSUME TypeOK, TypeOK', LockHolders, LifecycleAssumption, NEW t \in Workers, NEW s, NEW n,
         Moves(t, s, n), Locks(t, s)
  PROVE  LockHolders'
<1>1. t \in Tasks
  BY DEF Workers, Tasks
<1> SUFFICES ASSUME NEW u \in Tasks \ {Closer}, step'[u] \in {"start", "launch", "close"}
             PROVE  HasLock(u)' /\ context' = 0
  BY DEF LockHolders
<1>2. CASE u = t
  BY <1>1, <1>2 DEF Moves, Locks, TypeOK
<1>3. CASE u # t
  <2>1. step[u] = step'[u]
    BY <1>1, <1>3 DEF Moves, TypeOK
  <2>2. HasLock(u) /\ context = 0
    BY <2>1 DEF LockHolders
  <2>3. ~HasLock(t) /\ HasLock(u)'
    BY <2>2, <1>3 DEF HasLock, Locks, LockKept
  <2> QED BY <2>2, <2>3 DEF Locks
<1> QED BY <1>2, <1>3

LEMMA MovesTrack ==
  ASSUME TypeOK, TypeOK', BrowsersKnown, LifecycleAssumption, NEW t \in Workers, NEW s, NEW n,
         Moves(t, s, n), Tracks(t, s, n)
  PROVE  BrowsersKnown'
<1>1. t # Closer /\ t \in Tasks /\ Closer \in Tasks
  BY DEF Workers, Tasks, LifecycleAssumption
<1>2. /\ step'[t] = s /\ using'[t] = n
      /\ \A u \in Tasks \ {t} : step'[u] = step[u] /\ using'[u] = using[u]
  BY <1>1 DEF Moves, TypeOK
<1>3. ASSUME NEW b \in running' PROVE b \in abandoned' \cup late' \cup {context'} \cup Closing'
  <2>1. CASE b \notin running
    BY <2>1 DEF Tracks
  <2>2. CASE b \in abandoned \cup late
    BY <2>2 DEF Tracks
  <2>3. CASE b \in running /\ b = context /\ context' # context
    <3>1. b # 0
      BY <2>3 DEF TypeOK
    <3>2. s = "close" /\ n = b
      BY <2>3, <3>1 DEF Tracks
    <3> QED BY <3>2, <1>1, <1>2 DEF Closing
  <2>4. CASE b \in Closing
    <3>1. PICK u \in Tasks : step[u] = "close" /\ using[u] = b
      BY <2>4 DEF Closing
    <3>2. CASE u = t
      BY <3>1, <3>2 DEF Tracks
    <3>3. CASE u # t
      BY <3>1, <3>3, <1>2 DEF Closing
    <3> QED BY <3>2, <3>3
  <2>5. b \in running => b \in abandoned \cup late \cup {context} \cup Closing
    BY DEF BrowsersKnown
  <2> QED BY <2>1, <2>2, <2>3, <2>4, <2>5
<1>4. step'[Closer] = step[Closer] /\ TooLate' = TooLate
  BY <1>1, <1>2 DEF TooLate
<1>5. step'[Closer] = "out" => late' = {}
  BY <1>4 DEF BrowsersKnown, Tracks
<1>6. TooLate' /\ context' # 0 => context' \in late'
  BY <1>4 DEF BrowsersKnown, Tracks
<1> QED BY <1>3, <1>5, <1>6 DEF BrowsersKnown

Kept == StepsFit' /\ LockHolders' /\ BrowsersKnown'

LEMMA MovesKeep ==
  ASSUME LInv, TypeOK', LifecycleAssumption, NEW t \in Workers, NEW s, NEW n,
         Moves(t, s, n), Fits(t, s, n), Locks(t, s), Tracks(t, s, n)
  PROVE  Kept
BY MovesFit, MovesLock, MovesTrack DEF LInv, Kept

\* Where a task stays with its context.
LEMMA StaysWith ==
  ASSUME TypeOK, NEW t \in Workers, UNCHANGED using, NEW s, step' = [step EXCEPT ![t] = s]
  PROVE  Moves(t, s, using[t])
BY DEF Moves, TypeOK, Workers, Tasks

\* What leaves the browsers alone loses sight of none.
LEMMA NothingLost ==
  ASSUME NEW t, NEW s, NEW n, UNCHANGED <<context, running, historyVars>>, step[t] # "close"
  PROVE  Tracks(t, s, n)
BY DEF Tracks, historyVars

\* The queues that a step can leave.
LEMMA QueuesKept ==
  ASSUME TypeOK, NEW t \in Workers
  PROVE  /\ queue' = queue => LockKept(t, queue')
         /\ queue' = LeftAll(t) => LockKept(t, queue')
         /\ \A q \in {"lock", "solve", "page"} :
              /\ queue' = Left(t, q) => LockKept(t, queue')
              /\ queue' = Joined(t, q) => LockKept(t, queue')
              /\ queue' = [Left(t, "page") EXCEPT !["lock"] = Append(@, t)] => LockKept(t, queue')
              /\ queue' = Retried(t, Left(t, "lock")) => LockKept(t, queue')
<1>1. t \in Tasks /\ QueueTyped(queue)
  BY QueueNames DEF TypeOK, QueueTyped, Workers, Tasks
<1>2. LockKept(t, queue) /\ LockKept(t, LeftAll(t))
  BY <1>1, QueueSteps
<1>3. \A q \in {"lock", "solve", "page"} : LockKept(t, Left(t, q)) /\ LockKept(t, Joined(t, q))
  BY <1>1, QueueSteps
<1>4. LockKept(t, [Left(t, "page") EXCEPT !["lock"] = Append(@, t)])
  BY <1>1, QueueSteps, AppendKeeps
<1>5. LockKept(t, Retried(t, Left(t, "lock")))
  <2>1. QueueTyped(Left(t, "lock")) /\ LockKept(t, Left(t, "lock"))
    BY <1>1, QueueSteps
  <2>2. LockKept(t, [Left(t, "lock") EXCEPT !["page"] = Append(@, t)])
    BY <1>1, <2>1, AppendKeeps
  <2> QED BY <2>1, <2>2 DEF Retried
<1> QED BY <1>2, <1>3, <1>4, <1>5

\* Who is at the head of the lock has it, and whoever else launches or closes does
\* not.
LEMMA HolderHasNone ==
  ASSUME LInv, NEW t \in Workers, step[t] \in {"start", "launch", "close"}, t # Closer
  PROVE  HasLock(t) /\ context = 0
BY DEF LInv, LockHolders, Workers, Tasks

-----------------------------------------------------------------------------
(* The steps, one by one.                                                  *)

LEMMA RaisingKeeps ==
  ASSUME LInv, TypeOK', LifecycleAssumption, NEW t \in Users, Raises(t),
         UNCHANGED <<running, historyVars>>, step[t] # "close"
  PROVE  Kept
<1>0. t \in Workers /\ launches \in Nat
  BY DEF Workers, LInv, TypeOK, Launches
<1>1. Moves(t, "out", 0)
  BY DEF Raises, At, Uses, Moves
<1>2. Fits(t, "out", 0)
  BY <1>0 DEF Fits, Raises, LifecycleAssumption
<1>3. Locks(t, "out")
  <2>1. queue' = LeftAll(t) /\ context' = context
    BY DEF Raises
  <2> QED BY <1>0, <2>1, QueuesKept DEF Locks, LInv
<1>4. Tracks(t, "out", 0)
  BY NothingLost DEF Raises
<1> QED BY <1>0, <1>1, <1>2, <1>3, <1>4, MovesKeep

LEMMA CallKeeps ==
  ASSUME LInv, TypeOK', LifecycleAssumption, NEW t \in Users, Call(t), step[Closer] # "drained"
  PROVE  Kept
<1>0. t \in Workers /\ launches \in Nat
  BY DEF Workers, LInv, TypeOK, Launches
<1>1. CASE UNCHANGED <<contextVars, taskVars>>
  BY <1>1 DEF LInv, Kept, StepsFit, LockHolders, HasLock, BrowsersKnown, Closing, TooLate,
     contextVars, taskVars, historyVars
<1>2. CASE (t \in Solvers /\ Lead(t)) \/ Arrive(t)
  <2>1. Moves(t, "gate", using[t])
    BY <1>0, <1>2, StaysWith DEF Lead, Arrive, At, LInv
  <2>2. Fits(t, "gate", using[t])
    BY <1>0, <1>2 DEF Fits, Lead, Arrive, contextVars, LifecycleAssumption, LInv, TypeOK
  <2>3. Locks(t, "gate")
    <3>1. /\ queue' = Joined(t, "solve") \/ queue' = Joined(t, "page")
          /\ context' = context
      BY <1>2 DEF Lead, Arrive, Gate, contextVars
    <3> QED BY <1>0, <3>1, QueuesKept DEF Locks, LInv
  <2>4. Tracks(t, "gate", using[t])
    <3>1. step[t] # "close"
      BY <1>2 DEF Arrive, LInv, StepsFit, LifecycleAssumption
    <3> QED BY <1>2, <3>1, NothingLost DEF Lead, Arrive, contextVars
  <2> QED BY <1>0, <2>1, <2>2, <2>3, <2>4, MovesKeep
<1> QED BY <1>1, <1>2 DEF Call, Reuse

LEMMA RecycleKeeps ==
  ASSUME LInv, TypeOK', LifecycleAssumption, NEW t \in Workers, Recycle(t) \/ Closed(t)
  PROVE  Kept
<1>0. /\ t \in Tasks /\ t # Closer /\ launches \in Nat /\ step[t] \in {"recycle", "close"}
      /\ t \in Users => t \in Fetchers /\ attempt[t] = 1
      /\ t = Watchdog => step[Closer] = "out" /\ t \notin Fetchers
      /\ step[Closer] # "drained"
      /\ QueueTyped(queue)
  <2>1. /\ t \in Tasks /\ t # Closer /\ step[t] \in {"recycle", "close"}
        /\ t \in Users \/ t = Watchdog
    BY DEF Recycle, Closed, Workers, Tasks, Users, LifecycleAssumption
  <2>2. launches \in Nat /\ QueueTyped(queue)
    BY QueueNames DEF LInv, TypeOK, Launches, LifecycleAssumption, QueueTyped
  <2>3. t \in Users => t \in Fetchers /\ attempt[t] = 1
    BY <2>1 DEF LInv, StepsFit
  <2>4. t = Watchdog => step[Closer] = "out" /\ t \notin Fetchers
    BY <2>1 DEF LInv, StepsFit, Users, LifecycleAssumption
  <2>5. step[Closer] # "drained"
    BY <2>1, <2>4 DEF LInv, StepsFit
  <2> QED BY <2>1, <2>2, <2>3, <2>4, <2>5
<1>1. \A f \in Fetchers \ {t} : attempt'[f] = attempt[f]
  BY DEF Recycle, Closed, Tried, LInv, TypeOK
<1>2. CASE Recycle(t) /\ context # 0
  <2>1. Moves(t, "close", context)
    BY <1>2 DEF Recycle, Forgets, At, Uses, Moves
  <2>2. Fits(t, "close", context)
    BY <1>0, <1>1, <1>2 DEF Recycle, Fits, Workers
  <2>3. Locks(t, "close")
    <3>1. HasLock(t) /\ UNCHANGED queue /\ context' = 0
      BY <1>0, <1>2, HeadHasLock DEF Recycle, Forgets
    <3> QED BY <3>1, QueuesKept DEF Locks, HasLock, LInv
  <2>4. Tracks(t, "close", context)
    BY <1>2 DEF Recycle, Forgets, Tracks, historyVars
  <2> QED BY <2>1, <2>2, <2>3, <2>4, MovesKeep
<1>3. CASE (Recycle(t) /\ context = 0) \/ Closed(t)
  <2>1. Moves(t, Onward(t), 0)
    BY <1>3 DEF Recycle, Closed, Forgets, At, Uses, Moves
  <2>2. Fits(t, Onward(t), 0)
    BY <1>0, <1>1, <1>3 DEF Recycle, Closed, Onward, Fits, Workers
  <2>3. Locks(t, Onward(t))
    <3>1. queue' = Retried(t, Left(t, "lock")) /\ context' \in {0, context}
      BY <1>3 DEF Recycle, Closed, Forgets
    <3> QED BY <3>1, QueuesKept DEF Locks, Onward, LInv
  <2>4. Tracks(t, Onward(t), 0)
    BY <1>3 DEF Recycle, Closed, Forgets, Tracks, historyVars
  <2> QED BY <2>1, <2>2, <2>3, <2>4, MovesKeep
<1> QED BY <1>2, <1>3

LEMMA AdvanceKeeps ==
  ASSUME LInv, TypeOK', LifecycleAssumption, NEW t \in Users, Advance(t)
  PROVE  Kept
<1>0. /\ t \in Workers /\ t \in Tasks /\ t # Closer /\ t # Watchdog
      /\ launches \in Nat /\ QueueTyped(queue)
  BY QueueNames DEF Workers, Tasks, LInv, TypeOK, Launches, LifecycleAssumption, QueueTyped
<1>1. step[t] # "out" => step[Closer] # "drained"
  BY DEF LInv, StepsFit
<1>2. CASE t \in Solvers /\ Return(t)
  BY <1>2 DEF Return, LInv, Kept, StepsFit, LockHolders, HasLock, BrowsersKnown, Closing, TooLate,
     contextVars, taskVars, historyVars
<1>3. CASE (GetContext(t) \/ Locked(t)) /\ context # 0
  <2>1. Moves(t, "use", context)
    BY <1>3 DEF GetContext, Locked, At, Uses, Moves
  <2>2. Fits(t, "use", context)
    BY <1>0, <1>1, <1>3 DEF GetContext, Locked, Fits, contextVars
  <2>3. Locks(t, "use")
    <3>1. (queue' = queue \/ queue' = Left(t, "lock")) /\ context' = context
      BY <1>3 DEF GetContext, Locked, contextVars
    <3> QED BY <1>0, <3>1, QueuesKept DEF Locks, LInv
  <2>4. Tracks(t, "use", context)
    BY <1>3, NothingLost DEF GetContext, Locked, contextVars
  <2> QED BY <1>0, <2>1, <2>2, <2>3, <2>4, MovesKeep
<1>4. CASE GetContext(t) /\ context = 0
  <2>1. Moves(t, "lock", using[t])
    BY <1>0, <1>4, StaysWith DEF GetContext, At, LInv
  <2>2. Fits(t, "lock", using[t])
    BY <1>0, <1>1, <1>4 DEF GetContext, Fits, contextVars
  <2>3. Locks(t, "lock")
    BY <1>0, <1>4, QueuesKept DEF GetContext, Locks, contextVars, LInv
  <2>4. Tracks(t, "lock", using[t])
    BY <1>4, NothingLost DEF GetContext, contextVars
  <2> QED BY <1>0, <2>1, <2>2, <2>3, <2>4, MovesKeep
<1>5. CASE Locked(t) /\ context = 0
  <2>1. Moves(t, "start", using[t])
    BY <1>0, <1>5, StaysWith DEF Locked, At, LInv
  <2>2. Fits(t, "start", using[t])
    BY <1>0, <1>1, <1>5 DEF Locked, Fits, contextVars
  <2>3. Locks(t, "start")
    <3>1. HasLock(t)
      BY <1>0, <1>5, HeadHasLock DEF Locked
    <3> QED BY <1>0, <1>5, <3>1, QueuesKept DEF Locked, Locks, HasLock, contextVars, LInv
  <2>4. Tracks(t, "start", using[t])
    BY <1>5, NothingLost DEF Locked, contextVars
  <2> QED BY <1>0, <2>1, <2>2, <2>3, <2>4, MovesKeep
<1>6. CASE Start(t)
  <2>1. Moves(t, "launch", launches + 1)
    BY <1>6 DEF Start, At, Uses, Moves
  <2>2. Fits(t, "launch", launches + 1)
    BY <1>0, <1>1, <1>6 DEF Start, Fits
  <2>3. Locks(t, "launch")
    <3>1. HasLock(t) /\ context = 0
      BY <1>0, <1>6, HolderHasNone DEF Start
    <3> QED BY <1>0, <1>6, <3>1, QueuesKept DEF Start, Locks, HasLock, LInv
  <2>4. Tracks(t, "launch", launches + 1)
    BY <1>6, NothingLost DEF Start
  <2> QED BY <1>0, <2>1, <2>2, <2>3, <2>4, MovesKeep
<1>7. CASE Launched(t)
  <2>0. HasLock(t) /\ context = 0
    BY <1>0, <1>7, HolderHasNone DEF Launched
  <2>1. Moves(t, "use", using[t])
    BY <1>0, <1>7, StaysWith DEF Launched, At, LInv
  <2>2. Fits(t, "use", using[t])
    BY <1>0, <1>1, <1>7 DEF Launched, Fits
  <2>3. Locks(t, "use")
    BY <1>0, <1>7, <2>0, QueuesKept DEF Launched, Locks, LInv
  <2>4. Tracks(t, "use", using[t])
    BY <1>7, <2>0 DEF Launched, Tracks, TooLate
  <2> QED BY <1>0, <2>1, <2>2, <2>3, <2>4, MovesKeep
<1>8. CASE Capture(t)
  <2>0. using[t] # 0
    BY <1>8 DEF Capture, LInv, TypeOK
  <2>1. Moves(t, "page", using[t])
    BY <1>0, <1>8, StaysWith DEF Capture, At, LInv
  <2>2. Fits(t, "page", using[t])
    BY <1>0, <1>1, <1>8, <2>0 DEF Capture, Fits, contextVars
  <2>3. Locks(t, "page")
    BY <1>0, <1>8, QueuesKept DEF Capture, Locks, contextVars, LInv
  <2>4. Tracks(t, "page", using[t])
    BY <1>8, NothingLost DEF Capture, contextVars
  <2> QED BY <1>0, <2>1, <2>2, <2>3, <2>4, MovesKeep
<1>9. CASE LaunchFails(t) \/ SolveFails(t) \/ PageEnds(t)
  BY <1>9, RaisingKeeps DEF LaunchFails, SolveFails, PageEnds
<1>10. CASE Solved(t)
  <2>1. Moves(t, "out", 0)
    BY <1>10 DEF Solved, At, Uses, Moves
  <2>2. Fits(t, "out", 0)
    BY <1>0, <1>10 DEF Solved, Fits
  <2>3. Locks(t, "out")
    BY <1>0, <1>10, QueuesKept DEF Solved, Locks, LInv
  <2>4. Tracks(t, "out", 0)
    BY <1>10, NothingLost DEF Solved
  <2> QED BY <1>0, <2>1, <2>2, <2>3, <2>4, MovesKeep
<1>11. CASE PageDies(t) /\ attempt[t] = 1
  <2>1. Moves(t, "recycle", 0)
    BY <1>11 DEF PageDies, At, Uses, Moves
  <2>2. Fits(t, "recycle", 0)
    BY <1>0, <1>1, <1>11 DEF PageDies, Fits, contextVars
  <2>3. Locks(t, "recycle")
    BY <1>0, <1>11, QueuesKept DEF PageDies, Locks, contextVars, LInv
  <2>4. Tracks(t, "recycle", 0)
    BY <1>11, NothingLost DEF PageDies, contextVars
  <2> QED BY <1>0, <2>1, <2>2, <2>3, <2>4, MovesKeep
<1>12. CASE PageDies(t) /\ attempt[t] # 1
  BY <1>12, RaisingKeeps DEF PageDies
<1>13. CASE Recycle(t) \/ Closed(t)
  BY <1>0, <1>13, RecycleKeeps
<1> QED BY <1>2, <1>3, <1>4, <1>5, <1>6, <1>7, <1>8, <1>9, <1>10, <1>11, <1>12, <1>13 DEF Advance,
           GetContext, Locked, PageDies

LEMMA ExpireKeeps ==
  ASSUME LInv, TypeOK', LifecycleAssumption, NEW t \in Users, Expire(t)
  PROVE  Kept
<1>0. t \in Workers /\ t # Closer /\ t # Watchdog /\ launches \in Nat
  BY DEF Workers, LInv, TypeOK, Launches, LifecycleAssumption
<1>1. Moves(t, "out", 0)
  BY DEF Expire, At, Uses, Moves
<1>2. Fits(t, "out", 0)
  BY <1>0 DEF Expire, Fits
<1>3. Locks(t, "out")
  <2>1. queue' = LeftAll(t) /\ context' = context
    BY DEF Expire
  <2> QED BY <1>0, <2>1, QueuesKept DEF Locks, LInv
<1>4. Tracks(t, "out", 0)
  <2>1. Abandoned(t) /\ context' = context
    BY DEF Expire
  <2> QED BY <2>1 DEF Abandoned, Tracks
<1> QED BY <1>0, <1>1, <1>2, <1>3, <1>4, MovesKeep

LEMMA WakingKeeps ==
  ASSUME LInv, TypeOK', LifecycleAssumption, WatchdogWakes
  PROVE  Kept
<1>0. Watchdog \in Workers /\ launches \in Nat /\ Watchdog \notin Users
  BY DEF Workers, LInv, TypeOK, Launches, LifecycleAssumption
<1>1. Moves(Watchdog, "recycle", using[Watchdog])
  BY <1>0, StaysWith DEF WatchdogWakes, At, LInv
<1>2. Fits(Watchdog, "recycle", using[Watchdog])
  BY <1>0 DEF WatchdogWakes, Fits, contextVars
<1>3. Locks(Watchdog, "recycle")
  BY <1>0, QueuesKept DEF WatchdogWakes, Locks, contextVars, LInv
<1>4. Tracks(Watchdog, "recycle", using[Watchdog])
  BY NothingLost DEF WatchdogWakes, contextVars
<1> QED BY <1>0, <1>1, <1>2, <1>3, <1>4, MovesKeep

LEMMA DyingKeeps ==
  ASSUME LInv, NEW n, DriverDies(n)
  PROVE  Kept
BY DEF DriverDies, historyVars, taskVars, LInv, Kept, StepsFit, LockHolders, HasLock,
   BrowsersKnown, Closing, TooLate

\* The watchdog is cancelled where it is, and the lock goes to the next.
LEMMA CancelKeeps ==
  ASSUME LInv, TypeOK', LifecycleAssumption, CancelWatchdog
  PROVE  Kept
<1>0. /\ Watchdog \in Tasks /\ Closer \in Tasks /\ Watchdog # Closer
      /\ Watchdog \notin Users /\ Closer \notin Users
  BY DEF Tasks, LifecycleAssumption
<1>1. /\ step'[Closer] = "cancel" /\ step'[Watchdog] = "gone"
      /\ \A u \in Users : step'[u] = step[u] /\ using'[u] = using[u]
      /\ step[Closer] = "out" /\ UNCHANGED <<context, launches, attempt, late>>
      /\ Abandoned(Watchdog) /\ queue' = LeftAll(Watchdog)
  BY <1>0 DEF CancelWatchdog, Uses, Abandoned, LInv, TypeOK, Tasks
<1>2. StepsFit'
  BY <1>0, <1>1 DEF LInv, StepsFit
<1>3. LockHolders'
  <2>1. LockKept(Watchdog, queue')
    BY <1>1, QueuesKept DEF LInv, Workers
  <2> SUFFICES ASSUME NEW u \in Users, step'[u] \in {"start", "launch", "close"}
               PROVE  HasLock(u)' /\ context' = 0
    BY <1>1 DEF LockHolders, Tasks
  <2>2. HasLock(u) /\ context = 0
    BY <1>0, <1>1 DEF LInv, LockHolders, Tasks
  <2> QED BY <1>0, <1>1, <2>1, <2>2 DEF HasLock, LockKept
<1>4. ASSUME NEW b \in running' PROVE b \in abandoned' \cup {context'} \cup Closing'
  <2>1. CASE b \in running
    <3>1. late = {} /\ b \in abandoned \cup {context} \cup Closing
      BY <1>1, <2>1 DEF LInv, BrowsersKnown
    <3>2. CASE b \in abandoned \cup {context}
      BY <1>1, <3>2 DEF Abandoned
    <3>3. CASE b \in Closing
      <4>1. PICK u \in Tasks : step[u] = "close" /\ using[u] = b
        BY <3>3 DEF Closing
      <4>2. CASE u = Watchdog
        BY <1>1, <4>1, <4>2 DEF Abandoned
      <4>3. CASE u \in Users
        <5>1. u \in Tasks /\ step'[u] = "close" /\ using'[u] = b
          BY <1>1, <4>1, <4>3
        <5> QED BY <5>1 DEF Closing
      <4> QED BY <1>1, <4>1, <4>2, <4>3 DEF Tasks
    <3> QED BY <3>1, <3>2, <3>3
  <2>2. CASE b \notin running
    <3>1. step[Watchdog] # "launch"
      BY DEF LInv, StepsFit
    <3> QED BY <1>1, <2>2, <3>1 DEF Abandoned
  <2> QED BY <2>1, <2>2
<1>5. BrowsersKnown'
  BY <1>1, <1>4 DEF BrowsersKnown, TooLate
<1> QED BY <1>2, <1>3, <1>5 DEF Kept

LEMMA ClosingKeeps ==
  ASSUME LInv, TypeOK', LifecycleAssumption, TakeContext \/ CloseContext \/ StopPlaywright \/ Drain
  PROVE  Kept
<1>0. Closer \in Tasks /\ Watchdog # Closer /\ Closer \notin Users /\ Watchdog \in Tasks
  BY DEF Tasks, LifecycleAssumption
<1>1. /\ step' = [step EXCEPT ![Closer] = step'[Closer]]
      /\ step'[Closer] \in {"close", "stop", "gone", "drained"}
      /\ step[Closer] \in {"cancel", "close", "stop", "gone"}
      /\ \A u \in Tasks \ {Closer} : step'[u] = step[u] /\ using'[u] = using[u]
      /\ UNCHANGED <<queue, attempt, launches, historyVars>>
      /\ context' \in {0, context} /\ running' \subseteq running
      /\ step'[Closer] = "drained" => \A u \in Users : step[u] = "out"
  BY <1>0 DEF TakeContext, CloseContext, StopPlaywright, Drain, Forgets, At, Uses, contextVars,
     historyVars, LInv, TypeOK
<1>2. StepsFit'
  BY <1>0, <1>1 DEF LInv, StepsFit, Tasks
<1>3. LockHolders'
  BY <1>1 DEF LInv, LockHolders, HasLock
<1>4. ASSUME NEW b \in running' PROVE b \in (abandoned \cup late) \cup {context'} \cup Closing'
  <2>1. b \in running /\ b # 0 /\ b \in (abandoned \cup late) \cup {context} \cup Closing
    BY <1>1 DEF LInv, BrowsersKnown, TypeOK
  <2>2. CASE b = context
    <3>1. CASE TakeContext
      <4>1. step'[Closer] = "close" /\ using'[Closer] = b
        BY <1>0, <2>2, <3>1 DEF TakeContext, Forgets, At, Uses, LInv, TypeOK
      <4> QED BY <1>0, <4>1 DEF Closing
    <3>2. CASE ~TakeContext
      BY <2>2, <3>2 DEF CloseContext, StopPlaywright, Drain, contextVars
    <3> QED BY <3>1, <3>2
  <2>3. CASE b \in Closing
    <3>1. PICK u \in Tasks : step[u] = "close" /\ using[u] = b
      BY <2>3 DEF Closing
    <3>2. CASE u = Closer
      BY <3>1, <3>2 DEF TakeContext, CloseContext, StopPlaywright, Drain
    <3>3. CASE u # Closer
      BY <1>1, <3>1, <3>3 DEF Closing
    <3> QED BY <3>2, <3>3
  <2> QED BY <2>1, <2>2, <2>3
<1>5. BrowsersKnown'
  <2>1. context' # 0 /\ TooLate' => context' \in late
    <3>1. CASE TakeContext
      BY <3>1 DEF TakeContext, Forgets
    <3>2. CASE ~TakeContext
      BY <1>1, <3>2 DEF CloseContext, StopPlaywright, Drain, contextVars, TooLate, LInv,
         BrowsersKnown
    <3> QED BY <3>1, <3>2
  <2> QED BY <1>1, <1>4, <2>1 DEF BrowsersKnown, historyVars
<1> QED BY <1>2, <1>3, <1>5 DEF Kept

-----------------------------------------------------------------------------
(* The theorems.                                                           *)

\* Whatever is cancelled, recycled or crashes, only the head of the lock launches
\* or closes the browser, and every browser is known to somebody or to the history.
THEOREM LifecycleInductive == Spec => []LInv
<1>1. Init => LInv
  <2> SUFFICES ASSUME Init PROVE LInv
    OBVIOUS
  <2>1. TypeOK
    BY BrowserAssumption, LaunchNumbers DEF Init, TypeOK, LifecycleAssumption, Flight!FlightInit,
       Flight!FlightTypeOK, Flight!Outcomes, Held
  <2>2. StepsFit /\ LockHolders /\ BrowsersKnown
    BY BrowserAssumption DEF Init, StepsFit, LockHolders, BrowsersKnown, Closing, TooLate, Tasks,
       LifecycleAssumption
  <2> QED BY <2>1, <2>2 DEF LInv
<1>2. LInv /\ [Next]_vars => LInv'
  <2> SUFFICES ASSUME LInv, [Next]_vars PROVE LInv'
    OBVIOUS
  <2>1. TypeOK'
    BY BrowserAssumption, Typed DEF LInv
  <2>2. ASSUME UNCHANGED vars PROVE Kept
    BY <2>2 DEF vars, contextVars, taskVars, historyVars, LInv, Kept, StepsFit, LockHolders, HasLock,
       BrowsersKnown, Closing, TooLate
  <2>3. ASSUME step[Closer] # "drained", NEW t \in Users, Call(t) PROVE Kept
    BY <2>1, <2>3, BrowserAssumption, CallKeeps
  <2>4. ASSUME NEW t \in Users, Advance(t) \/ Expire(t) PROVE Kept
    BY <2>1, <2>4, BrowserAssumption, AdvanceKeeps, ExpireKeeps
  <2>5. ASSUME WatchdogWakes \/ Recycle(Watchdog) \/ Closed(Watchdog) PROVE Kept
    <3>1. Watchdog \in Workers
      BY DEF Workers
    <3> QED BY <2>1, <2>5, <3>1, BrowserAssumption, WakingKeeps, RecycleKeeps
  <2>6. ASSUME NEW n \in running, DriverDies(n) PROVE Kept
    BY <2>6, DyingKeeps
  <2>7. ASSUME Aclose PROVE Kept
    BY <2>1, <2>7, BrowserAssumption, CancelKeeps, ClosingKeeps DEF Aclose
  <2>8. Kept
    BY <2>2, <2>3, <2>4, <2>5, <2>6, <2>7 DEF Next
  <2> QED BY <2>1, <2>8 DEF Kept, LInv
<1> QED BY <1>1, <1>2, PTL DEF Spec

\* The profile never has two browsers while nothing is abandoned half way, and the
\* shutdown leaves none but those launched after it took the context and those that
\* a cancelled task abandoned.
THEOREM BrowsersAccounted == Spec => []BrowsersAreAccounted
<1>1. LInv => BrowsersAreAccounted
  <2> SUFFICES ASSUME LInv PROVE BrowsersAreAccounted
    OBVIOUS
  <2>1. ASSUME step[Closer] = "out", abandoned = {}
        PROVE  Cardinality(running \cup {using[t] : t \in {u \in Users : step[u] = "launch"}}) <= 1
    <3> DEFINE browsers == running \cup {using[t] : t \in {u \in Users : step[u] = "launch"}}
    <3>1. running \subseteq {context} \cup Closing /\ 0 \notin running
      BY <2>1 DEF LInv, BrowsersKnown, TypeOK
    <3>2. \E n : browsers \subseteq {n}
      <4>1. CASE \E t \in Tasks \ {Closer} : step[t] \in {"launch", "close"}
        <5>1. PICK t \in Tasks \ {Closer} : step[t] \in {"launch", "close"}
          BY <4>1
        <5>2. context = 0 /\ \A u \in Tasks \ {Closer} : step[u] \in {"launch", "close"} => u = t
          BY <5>1 DEF LInv, LockHolders, HasLock
        <5>3. Closing \subseteq {using[t]}
          BY <2>1, <5>2 DEF Closing
        <5>4. {using[u] : u \in {v \in Users : step[v] = "launch"}} \subseteq {using[t]}
          BY <5>2, BrowserAssumption DEF Tasks, LifecycleAssumption
        <5>5. browsers \subseteq {using[t]}
          BY <3>1, <5>2, <5>3, <5>4
        <5> QED BY <5>5
      <4>2. CASE ~\E t \in Tasks \ {Closer} : step[t] \in {"launch", "close"}
        <5>1. Closing = {} /\ {using[u] : u \in {v \in Users : step[v] = "launch"}} = {}
          BY <2>1, <4>2, BrowserAssumption DEF Closing, Tasks, LifecycleAssumption
        <5>2. browsers \subseteq {context}
          BY <3>1, <5>1
        <5> QED BY <5>2
      <4> QED BY <4>1, <4>2
    <3>3. PICK n : browsers \subseteq {n}
      BY <3>2
    <3> HIDE DEF browsers
    <3>4. IsFiniteSet({n}) /\ Cardinality({n}) = 1
      BY FS_Singleton
    <3>5. Cardinality(browsers) <= 1
      BY <3>3, <3>4, FS_Subset
    <3> QED BY <3>5 DEF browsers
  <2>2. OneBrowser
    BY <2>1 DEF OneBrowser, LInv
  <2>3. AcloseClosesTheRest
    <3> SUFFICES ASSUME step[Closer] = "drained" PROVE running \subseteq abandoned \cup late
      BY DEF AcloseClosesTheRest
    <3>1. Closing = {}
      BY DEF LInv, StepsFit, Closing, Tasks
    <3>2. context \in late \cup {0} /\ 0 \notin running
      BY DEF LInv, BrowsersKnown, TooLate, TypeOK
    <3> QED BY <3>1, <3>2 DEF LInv, BrowsersKnown
  <2> QED BY <2>2, <2>3 DEF BrowsersAreAccounted
<1> QED BY <1>1, LifecycleInductive, PTL

\* Whatever is forced, recycled, closed or crashes, the solves of a key are a single
\* flight with a held clearance as its entry.
THEOREM LifecycleFlies == Spec => SolvesAreSingleFlight
<1>1. Init => Flight!FlightInit
  BY DEF Init
<1>2. LInv /\ [Next]_vars => [Flight!FlightNext]_(Flight!flightVars)
  BY BrowserAssumption, FlightSteps DEF LInv
<1> QED BY <1>1, <1>2, LifecycleInductive, PTL DEF Spec, SolvesAreSingleFlight, Flight!FlightSpec
=============================================================================
