--------------------------- MODULE AndroidSolver ---------------------------
(* The gateway's client of the Android solver sidecar                       *)
(* (framework/android_solver.py): the clearances it holds, the solves that  *)
(* its callers share, the lock of the one device, the refresh loop, the     *)
(* warm-up and its gate, and the lease that keeps background solves off     *)
(* the device.                                                              *)
(*                                                                          *)
(* A call is one task of a request.  Its coalesced solve runs in a task of  *)
(* its own, named after the call that created it, which outlives the call   *)
(* (asyncio.shield).  A clearance is its mint number (the cookie of a page  *)
(* holder, which nothing tells apart, is Value); a clearance expires, and a *)
(* block window lapses, at any time.                                        *)
EXTENDS Naturals, Sequences, FiniteSets, SequencesExt

CONSTANTS Calls,    \* get_clearance calls and device sessions, one each
          Plain,    \* sources with a replayable clearance
          HolderKinds, \* what the calls of page holders are: "session", "force"
          Holders,  \* sources whose data path is the WebView page itself
          Refresh, Warm, None,
          Value, Nothing, Failed, Blocked, Deferred, Cancelled,  \* outcomes
          MaxMints,    \* bound on the clearances minted
          Attempts,    \* of one solve (_solve_max_attempts)
          Recoveries   \* of one eval: an origin 5xx once, a 403 twice

Keys  == Plain \cup Holders
Users == Calls \cup {Refresh, Warm}

ASSUME AndroidAssumption ==
  /\ Plain \cap Holders = {} /\ None \notin Keys \cup Users \cup {Value}
  /\ Refresh # Warm /\ {Refresh, Warm} \cap Calls = {}
  /\ MaxMints \in Nat /\ Recoveries \in Nat /\ Attempts \in Nat \ {0}
  /\ IsFiniteSet(Plain) /\ IsFiniteSet(Holders)
  /\ HolderKinds \subseteq {"session", "force"}
  /\ Cancelled \notin {None, Value, Blocked}
  /\ Blocked \notin {None, Value} \cup 1..MaxMints

VARIABLES
  at,        \* where a call is
  call,      \* what it asks: [kind, key]
  ans,       \* its answer: a clearance or an outcome
  snap,      \* the clearance that a forced call discarded
  flight,    \* the solve that it awaits
  held,      \* _held
  expired,   \* the clearances past their _expires_at
  window,    \* the keys in a block window
  inflight,  \* _inflight
  awaiting,  \* the calls that await each coalesced solve, in order
  op,        \* what each user of the device does: [what, key, left]
  phase,     \* where it is with the device
  result,    \* what a solve brought
  dev,       \* the device lock: its holder, then its waiters
  todo,      \* what warm() has left; the gate opens when nothing is
  minted

callVars  == <<at, call, ans, snap, flight>>
clearVars == <<held, expired, window, minted>>
devVars   == <<op, phase, result, dev>>
vars == <<callVars, clearVars, devVars, todo, inflight, awaiting>>

Idle   == [what |-> "none", key |-> None, left |-> 0]
Op(what, key) ==
  [what |-> what, key |-> key, left |-> IF what = "solve" THEN Attempts - 1 ELSE Recoveries]
Leased == {c \in Calls : call[c].kind = "session" /\ at[c] = "session"}
Valid(k) == held[k] # None /\ held[k] \notin expired

Init ==
  /\ at = [c \in Calls |-> "new"] /\ ans = [c \in Calls |-> None]
  /\ call \in [Calls -> [kind : {"get", "force"}, key : Plain] \cup [kind : HolderKinds, key : Holders]]
  /\ snap = [c \in Calls |-> None] /\ flight = [c \in Calls |-> None]
  /\ held = [k \in Keys |-> None]
  /\ expired = {} /\ window = {} /\ minted = 0
  /\ inflight = [k \in Keys |-> None] /\ awaiting = [c \in Calls |-> <<>>]
  /\ op = [u \in Users |-> Idle] /\ phase = [u \in Users |-> "none"]
  /\ result = [u \in Users |-> None] /\ dev = <<>>
  /\ todo = SetToSeq(Plain) \o SetToSeq(Holders)

----------------------------------------------------------------------------
(* The device: _device_op and _post_sidecar.                                *)

(* User u has no operation of its own any more. *)
Clears(u) ==
  /\ op' = [op EXCEPT ![u] = Idle]
  /\ phase' = [phase EXCEPT ![u] = "none"]
  /\ result' = [result EXCEPT ![u] = None]

(* A lock that nobody holds is taken without an await. *)
Queue(u, o) ==
  /\ op' = [op EXCEPT ![u] = o]
  /\ phase' = [phase EXCEPT ![u] = IF dev = <<>> THEN "post" ELSE "lock"]
  /\ dev' = Append(dev, u)

(* The user leaves the lock and goes on as p. *)
Leave(u, p) ==
  /\ dev' = RemoveFirst(dev, u)
  /\ phase' = [phase EXCEPT ![u] = p]

(* A warm solve and a refresh give way to a lease. *)
Deferrable(u) == u \in {Refresh, Warm} /\ op[u].what = "solve"

BugDefers(u) == FALSE
Defers(u) == Deferrable(u) /\ Leased # {}

Acquire(u) ==
  /\ phase[u] = "lock" /\ Head(dev) = u
  /\ IF Defers(u)
     THEN Leave(u, "ended") /\ result' = [result EXCEPT ![u] = Deferred]
     ELSE phase' = [phase EXCEPT ![u] = "post"] /\ UNCHANGED <<dev, result>>
  /\ UNCHANGED <<callVars, clearVars, todo, inflight, awaiting, op>>

Ends(u, r) == Leave(u, "ended") /\ result' = [result EXCEPT ![u] = r] /\ UNCHANGED op

(* Once more, after a pause in which it neither holds the lock nor waits.   *)
BacksOff(u) ==
  /\ op[u].left > 0 /\ op' = [op EXCEPT ![u].left = @ - 1]
  /\ Leave(u, "backoff") /\ UNCHANGED result
Return(u) ==
  /\ phase[u] = "backoff" /\ phase' = [phase EXCEPT ![u] = "lock"]
  /\ dev' = Append(dev, u)
  /\ UNCHANGED <<callVars, clearVars, todo, inflight, awaiting, op, result>>

(* At once behind those that wait, for an operation of another kind. *)
Requeue(u, what, n) ==
  /\ op' = [op EXCEPT ![u] = [what |-> what, key |-> @.key, left |-> n]]
  /\ dev' = Append(RemoveFirst(dev, u), u)
  /\ phase' = [phase EXCEPT ![u] = "lock"]
  /\ UNCHANGED result

(* A solve that fails fast, or never got the device, tries again. *)
Again(u) == BacksOff(u) \/ (op[u].left = 0 /\ Ends(u, Failed))

(* A prime holds the cookie that it brings, if it brings one, and its       *)
(* failure is swallowed; the eval of a session that waited for it is then   *)
(* repeated.                                                                *)
Primed(u, r) ==
  /\ held' = IF r = Nothing THEN held ELSE [held EXCEPT ![op[u].key] = r]
  /\ IF u \in Leased THEN Requeue(u, "eval", op[u].left) ELSE Ends(u, r)

LockTimeout(u) ==
  /\ phase[u] = "lock" /\ Head(dev) # u
  /\ \/ op[u].what = "solve" /\ Again(u) /\ UNCHANGED held
     \/ op[u].what = "eval" /\ Ends(u, Failed) /\ UNCHANGED held
     \/ op[u].what = "prime" /\ Primed(u, Nothing)
  /\ UNCHANGED <<callVars, expired, window, minted, todo, inflight, awaiting>>

SolvePosted(u) ==
  /\ phase[u] = "post" /\ op[u].what = "solve"
  /\ \/ /\ minted < MaxMints
        /\ minted' = minted + 1
        /\ Ends(u, minted + 1)
        /\ window' = window \ {op[u].key}
     \/ Again(u) /\ UNCHANGED <<minted, window>>
     \/ (* it took as long as a block page does *)
        /\ Ends(u, Blocked)
        /\ window' = window \cup {op[u].key} /\ UNCHANGED minted
  /\ UNCHANGED <<callVars, held, expired, todo, inflight, awaiting>>

(* An eval of the page holder: a value, an origin 5xx that is tried again,  *)
(* or a Cloudflare 403 that a prime of the page clears before the next try. *)
EvalPosted(u) ==
  /\ phase[u] = "post" /\ op[u].what = "eval"
  /\ \/ \E r \in {Value, Failed} : Ends(u, r)
     \/ BacksOff(u)
     \/ op[u].left > 0 /\ Requeue(u, "prime", op[u].left - 1)
  /\ UNCHANGED <<callVars, clearVars, todo, inflight, awaiting>>

PrimePosted(u) ==
  /\ phase[u] = "post" /\ op[u].what = "prime"
  /\ \E r \in {Value, Nothing} : Primed(u, r)
  /\ UNCHANGED <<callVars, expired, window, minted, todo, inflight, awaiting>>

Device(u) ==
  \/ Acquire(u) \/ LockTimeout(u) \/ Return(u)
  \/ SolvePosted(u) \/ EvalPosted(u) \/ PrimePosted(u)

----------------------------------------------------------------------------
(* get_clearance.                                                           *)

Done(c, a) == at' = [at EXCEPT ![c] = "done"] /\ ans' = [ans EXCEPT ![c] = a]

BugJoins(k) == FALSE
(* A task that is done is not joined, also before its callback has run. *)
Joins(k) == inflight[k] # None /\ phase[inflight[k]] # "ended"

(* _coalesce: await the solve in flight, or start one. *)
Coalesce(c) ==
  LET k == call[c].key
      t == IF Joins(k) THEN inflight[k] ELSE c
  IN  /\ at' = [at EXCEPT ![c] = "wait"]
      /\ flight' = [flight EXCEPT ![c] = t]
      /\ awaiting' = [awaiting EXCEPT ![t] = Append(@, c)]
      /\ inflight' = [inflight EXCEPT ![k] = t]
      /\ IF Joins(k) THEN UNCHANGED <<op, phase, dev>> ELSE Queue(c, Op("solve", k))

Get(c) ==
  /\ at[c] = "new" /\ call[c].kind = "get"
  /\ IF held[call[c].key] # None
     THEN Done(c, Value) /\ UNCHANGED <<flight, awaiting, inflight, op, phase, dev>>
     ELSE Coalesce(c) /\ UNCHANGED ans
  /\ UNCHANGED <<call, snap, clearVars, result, todo>>

ForceSolve(c) ==
  LET k == call[c].key
  IN  /\ at[c] = "new" /\ call[c].kind = "force" /\ k \in Plain
      /\ IF k \in window /\ Valid(k)
         THEN /\ Done(c, Value)
              /\ UNCHANGED <<snap, held, flight, awaiting, inflight, op, phase, dev>>
         ELSE /\ snap' = [snap EXCEPT ![c] = held[k]]
              /\ held' = [held EXCEPT ![k] = None]
              /\ Coalesce(c) /\ UNCHANGED ans
      /\ UNCHANGED <<call, expired, window, minted, result, todo>>

(* A forced call of a page holder primes the page; it is never solved. *)
ForceHolder(c) ==
  /\ at[c] = "new" /\ call[c].kind = "force" /\ call[c].key \in Holders
  /\ held' = [held EXCEPT ![call[c].key] = None]
  /\ at' = [at EXCEPT ![c] = "prime"]
  /\ Queue(c, Op("prime", call[c].key))
  /\ UNCHANGED <<call, ans, snap, flight, expired, window, minted, result, todo, inflight, awaiting>>

HolderPrimed(c) ==
  /\ at[c] = "prime" /\ phase[c] = "ended"
  /\ Done(c, result[c])
  /\ Clears(c)
  /\ UNCHANGED <<call, snap, flight, clearVars, dev, todo, inflight, awaiting>>

(* Nothing refers to a solve any more. *)
Forgets(t) ==
  /\ Clears(t)
  /\ snap' = [d \in Calls |-> IF flight[d] = t THEN None ELSE snap[d]]
  /\ flight' = [d \in Calls |-> IF flight[d] = t THEN None ELSE flight[d]]

BugLands(c) == Forgets(c)
Lands(c) ==
  IF awaiting[c] = <<>> THEN Forgets(c)
  ELSE phase' = [phase EXCEPT ![c] = "landed"] /\ UNCHANGED <<op, result, snap, flight>>
(* The done callback of a solve takes its own entry out of _inflight. *)
Landed(c) ==
  /\ op[c].what = "solve" /\ phase[c] = "ended"
  /\ inflight' = [k \in Keys |-> IF inflight[k] = c THEN None ELSE inflight[k]]
  /\ Lands(c)
  /\ UNCHANGED <<at, call, ans, clearVars, dev, todo, awaiting>>

Restorable(c) == snap[c] # None /\ snap[c] \notin expired
BugRestored(k) == FALSE
(* A peer of the same solve may have restored what it had discarded. *)
Restored(k) == Valid(k)

(* The solves that have woken some of their calls and not yet all. *)
Resumed(c) == at[c] = "done" /\ flight[c] # None /\ ans[c] # Cancelled
Turns ==
  {flight[c] : c \in {w \in Calls : at[w] = "wait"
                                     /\ \E d \in Calls : Resumed(d) /\ flight[d] = flight[w]}}

(* The calls that await a solve resume in the order they came. *)
Resume(c) ==
  LET t == flight[c]
      k == call[c].key
  IN  /\ at[c] = "wait" /\ phase[t] = "landed" /\ Head(awaiting[t]) = c
      /\ Turns \subseteq {t}
      /\ awaiting' = [awaiting EXCEPT ![t] = Tail(@)]
      /\ CASE result[t] \in 1..MaxMints ->
                Done(c, Value) /\ held' = [held EXCEPT ![k] = result[t]]
           [] result[t] = Blocked /\ Restorable(c) ->
                Done(c, Value) /\ held' = [held EXCEPT ![k] = snap[c]]
           [] result[t] = Blocked /\ ~Restorable(c) /\ Restored(k) ->
                Done(c, Value) /\ UNCHANGED held
           [] OTHER -> Done(c, result[t]) /\ UNCHANGED held
      /\ IF Len(awaiting[t]) = 1 THEN Forgets(t) ELSE UNCHANGED <<op, phase, result, snap, flight>>
      /\ UNCHANGED <<call, expired, window, minted, dev, todo, inflight>>

(* device_session: behind the gate of the warm-up, or its timeout; then a   *)
(* lease, and the evals of the sequence under it.                           *)
Enter(c) ==
  /\ at[c] = "new" /\ call[c].kind = "session"
  /\ at' = [at EXCEPT ![c] = "session"]
  /\ Queue(c, Op("eval", call[c].key))
  /\ UNCHANGED <<call, ans, snap, flight, clearVars, result, todo, inflight, awaiting>>

Exit(c) ==
  /\ at[c] = "session" /\ phase[c] = "ended"
  /\ Done(c, result[c])
  /\ Clears(c)
  /\ UNCHANGED <<call, snap, flight, clearVars, dev, todo, inflight, awaiting>>

BugLeaves(c) == UNCHANGED dev /\ Clears(c)
Leaves(c) == dev' = RemoveFirst(dev, c) /\ Clears(c)

(* The deadline of the source cancels the call: it leaves the device, its   *)
(* lease ends, and a solve it shares goes on without it.                    *)
Cancel(c) ==
  /\ at[c] \in {"wait", "prime", "session"}
  /\ Done(c, Cancelled)
  /\ IF at[c] = "wait"
     THEN awaiting' = [awaiting EXCEPT ![flight[c]] = RemoveFirst(@, c)] /\ UNCHANGED devVars
     ELSE Leaves(c) /\ UNCHANGED awaiting
  /\ UNCHANGED <<call, snap, flight, clearVars, todo, inflight>>

Calling(c) ==
  Get(c) \/ ForceSolve(c) \/ ForceHolder(c) \/ HolderPrimed(c) \/ Enter(c) \/ Exit(c)

----------------------------------------------------------------------------
(* _refresh_tick: no solve under a lease, nor in a block window, and only   *)
(* for a clearance near its expiry.                                         *)
RefreshTick(k) ==
  /\ op[Refresh].what = "none" /\ k \in Plain /\ held[k] # None
  /\ Leased = {} /\ k \notin window
  /\ Queue(Refresh, Op("solve", k))
  /\ UNCHANGED <<callVars, clearVars, result, todo, inflight, awaiting>>

(* Solve, then swap; a refresh that failed keeps what is held. *)
Refreshed ==
  /\ phase[Refresh] = "ended"
  /\ held' = IF result[Refresh] \in 1..MaxMints
             THEN [held EXCEPT ![op[Refresh].key] = result[Refresh]] ELSE held
  /\ Clears(Refresh)
  /\ UNCHANGED <<callVars, expired, window, minted, dev, todo, inflight, awaiting>>

(* warm: solve what is not held, prime the page holders last, and open the  *)
(* gate whatever came of it.                                                *)
WarmNext ==
  /\ op[Warm].what = "none" /\ todo # <<>>
  /\ IF Head(todo) \in Plain /\ (held[Head(todo)] # None \/ (Leased # {} /\ dev = <<>>))
     THEN todo' = Tail(todo) /\ UNCHANGED <<op, phase, dev>>
     ELSE /\ Queue(Warm, Op(IF Head(todo) \in Plain THEN "solve" ELSE "prime", Head(todo)))
          /\ UNCHANGED todo
  /\ UNCHANGED <<callVars, clearVars, result, inflight, awaiting>>

Warmed ==
  /\ phase[Warm] = "ended"
  /\ held' = IF op[Warm].what = "solve" /\ result[Warm] \in 1..MaxMints
             THEN [held EXCEPT ![op[Warm].key] = result[Warm]] ELSE held
  /\ todo' = Tail(todo)
  /\ Clears(Warm)
  /\ UNCHANGED <<callVars, expired, window, minted, dev, inflight, awaiting>>

Expire ==
  /\ \E x \in 1..minted \ expired : expired' = expired \cup {x}
  /\ UNCHANGED <<callVars, held, window, minted, devVars, todo, inflight, awaiting>>

(* A window lasts minutes: not within one turn of the calls it answers. *)
Lapse ==
  /\ \A c \in Calls : at[c] = "wait" => phase[flight[c]] \notin {"ended", "landed"}
  /\ \E k \in window : window' = window \ {k}
  /\ UNCHANGED <<callVars, held, expired, minted, devVars, todo, inflight, awaiting>>

Background == Refreshed \/ WarmNext \/ Warmed
Step ==
  \/ \E u \in Users : Device(u)
  \/ \E c \in Calls : Calling(c) \/ Landed(c) \/ Cancel(c)
  \/ \E k \in Plain : RefreshTick(k)
  \/ Background \/ Expire \/ Lapse

(* The calls that a solve wakes run back to back: their wake-ups are queued *)
(* together, and no time passes between them.                               *)
Next == (\E c \in Calls : Resume(c)) \/ (Turns = {} /\ Step)

Spec == Init /\ [][Next]_vars

----------------------------------------------------------------------------
Running(t) == op[t].what = "solve" /\ phase[t] \in {"lock", "post", "backoff"}

(* Foreground solves of one source are single flight (_coalesce). *)
OneForegroundSolve ==
  \A t, u \in Calls : Running(t) /\ Running(u) /\ op[t].key = op[u].key => t = u

(* The device is held and awaited only by users that are there to release   *)
(* it: no cancellation or timeout leaks the lock (_device_op).              *)
DeviceIsFreed == \A i \in DOMAIN dev : phase[dev[i]] \in {"lock", "post"}

(* A refresh or a warm solve that queued before a lease was taken gives way *)
(* to it all the same (the re-check under the lock in _device_op).          *)
LeaseKeepsDevice ==
  [][\A u \in {Refresh, Warm} :
       op[u].what = "solve" /\ phase[u] = "lock" /\ phase'[u] = "post" => Leased = {}]_vars

(* "A failed RE-solve must not surface as a user-facing search failure      *)
(* while a still-valid clearance is cached" (get_clearance): a call whose   *)
(* solve was blocked fails only if neither it nor a call that resumed from  *)
(* the same solve before it had discarded a clearance that is still valid;  *)
(* and what is served is valid.  A call that was cancelled takes the        *)
(* clearance it had discarded with it.                                      *)
ServedThroughBlock ==
  [][\A c \in Calls : at[c] = "wait" /\ result[flight[c]] = Blocked =>
       /\ ans'[c] = Blocked =>
            \A d \in Calls : flight[d] = flight[c] /\ (d = c \/ Resumed(d))
                              => snap[d] = None \/ snap[d] \in expired
       /\ ans'[c] = Value => held'[call[c].key] \notin expired]_vars

(* A call that waits is among those that a solve will resume, and that      *)
(* solve runs or has landed, whatever was cancelled meanwhile (_coalesce).  *)
WaitsForASolve ==
  \A c \in Calls : at[c] = "wait" =>
    /\ flight[c] # None
    /\ \E i \in DOMAIN awaiting[flight[c]] : awaiting[flight[c]][i] = c
    /\ op[flight[c]].what = "solve" /\ phase[flight[c]] # "none"

(* Whoever waits, for the device or for a solve, waits for somebody. *)
NoVainWait == DeviceIsFreed /\ WaitsForASolve
=============================================================================
