---------------------------- MODULE SingleFlight ----------------------------
(***************************************************************************)
(* SingleFlightCache.get_or_fetch (framework/enum_cache.py): a cache whose *)
(* concurrent misses of one key share the fetch of a leader.  A caller is  *)
(* a task of the event loop; a future is named after the caller that       *)
(* created it, its leader.  A call is one step up to its first await.      *)
(*                                                                         *)
(* Every caller runs under the deadline of its source (asyncio.timeout in  *)
(* fan_out), which cancels whatever the task is awaiting.  What is cached  *)
(* is abstracted to whether the key has a live entry; the kill-switch,     *)
(* under which every caller fetches for itself, is left out.               *)
(***************************************************************************)
EXTENDS Naturals, FiniteSets

CONSTANTS
  Callers,   \* tasks that look something up
  Keys,
  KeyOf,     \* the key that a caller looks up
  Nobody     \* no leader

ASSUME CallersAssumption == KeyOf \in [Callers -> Keys] /\ Nobody \notin Callers

VARIABLES
  live,      \* the keys with an entry that has not expired
  inflight,  \* _inflight: the leader whose future is registered for a key
  pending,   \* the leaders whose future is not done
  at,        \* where each caller is
  waits,     \* the leader whose future a follower awaits
  got,       \* how the last call of each caller ended, or is about to end
  expired,   \* the callers whose own deadline ended their last call
  dropped    \* history: the keys of which a waiting follower was cancelled

cacheVars == <<live, inflight, pending>>
callVars  == <<at, waits, got, expired>>
flightVars == <<cacheVars, callVars, dropped>>

Outcomes == {"none", "value", "error", "cancelled"}

Followers(l) == {c \in Callers : at[c] = "wait" /\ waits[c] = l}

FlightInit ==
  /\ live = {}
  /\ inflight = [k \in Keys |-> Nobody]
  /\ pending = {}
  /\ at = [c \in Callers |-> "idle"]
  /\ waits = [c \in Callers |-> Nobody]
  /\ got = [c \in Callers |-> "none"]
  /\ expired = {}
  /\ dropped = {}

-----------------------------------------------------------------------------
\* The call of c has ended with this outcome, with the ones in others woken.
Ends(c, outcome, others) ==
  /\ at' = [d \in Callers |-> IF d = c THEN "idle" ELSE IF d \in others THEN "woken" ELSE at[d]]
  /\ got' = [d \in Callers |-> IF d \in others \cup {c} THEN outcome ELSE got[d]]
  /\ waits' = [d \in Callers |-> IF d \in others THEN Nobody ELSE waits[d]]

Registered(k) == inflight[k] \in pending

\* A live entry is the answer, without an await.
Hit(c) ==
  /\ at[c] = "idle" /\ KeyOf[c] \in live
  /\ Ends(c, "value", {})
  /\ expired' = expired \ {c}
  /\ UNCHANGED <<cacheVars, dropped>>

\* A miss with a fetch in flight: await the future of its leader.
Follow(c) ==
  /\ at[c] = "idle" /\ KeyOf[c] \notin live /\ Registered(KeyOf[c])
  /\ at' = [at EXCEPT ![c] = "wait"]
  /\ waits' = [waits EXCEPT ![c] = inflight[KeyOf[c]]]
  /\ got' = [got EXCEPT ![c] = "none"]
  /\ expired' = expired \ {c}
  /\ UNCHANGED <<cacheVars, dropped>>

BugLead(c) ==  \* published after the fetch: every miss leads
  /\ at[c] = "idle" /\ KeyOf[c] \notin live
  /\ at' = [at EXCEPT ![c] = "fetch"]
  /\ got' = [got EXCEPT ![c] = "none"]
  /\ pending' = pending \cup {c}
  /\ inflight' = [inflight EXCEPT ![KeyOf[c]] = c]
  /\ expired' = expired \ {c}
  /\ UNCHANGED <<live, waits, dropped>>

\* A miss with no fetch in flight: publish a future and fetch.
Lead(c) ==
  /\ at[c] = "idle" /\ KeyOf[c] \notin live /\ ~Registered(KeyOf[c])
  /\ at' = [at EXCEPT ![c] = "fetch"]
  /\ got' = [got EXCEPT ![c] = "none"]
  /\ pending' = pending \cup {c}
  /\ inflight' = [inflight EXCEPT ![KeyOf[c]] = c]
  /\ expired' = expired \ {c}
  /\ UNCHANGED <<live, waits, dropped>>

Call(c) == Hit(c) \/ Follow(c) \/ Lead(c)

\* The leader's last step: complete its future unless a follower cancelled it,
\* and pop whatever is registered for the key by then.
BugSettle(c, outcome) ==  \* only a value completes the future
  /\ pending' = IF outcome = "value" THEN pending \ {c} ELSE pending
  /\ inflight' = [inflight EXCEPT ![KeyOf[c]] = Nobody]
  /\ Ends(c, outcome, IF outcome = "value" THEN Followers(c) ELSE {})
Settle(c, outcome) ==
  /\ pending' = pending \ {c}
  /\ inflight' = [inflight EXCEPT ![KeyOf[c]] = Nobody]
  /\ Ends(c, outcome, Followers(c))

\* fetch_fn returns: the value is cached.
FetchReturns(c) ==
  /\ at[c] = "fetch"
  /\ live' = live \cup {KeyOf[c]}
  /\ Settle(c, "value")
  /\ UNCHANGED <<expired, dropped>>

\* fetch_fn raises: nothing is cached.
FetchRaises(c) ==
  /\ at[c] = "fetch"
  /\ Settle(c, "error")
  /\ UNCHANGED <<live, expired, dropped>>

\* A follower takes its turn with what the future brought.
Return(c) ==
  /\ at[c] = "woken"
  /\ at' = [at EXCEPT ![c] = "idle"]
  /\ UNCHANGED <<cacheVars, waits, got, expired, dropped>>

\* The deadline of a leader: the CancelledError is one more way for fetch_fn to
\* raise, and the followers get it too.
LeaderExpires(c) ==
  /\ at[c] = "fetch"
  /\ Settle(c, "cancelled")
  /\ expired' = expired \cup {c}
  /\ UNCHANGED <<live, dropped>>

\* The deadline of a follower cancels the future it awaits, which is the one
\* that every follower of the leader awaits.
FollowerExpires(c) ==
  /\ at[c] = "wait"
  /\ pending' = pending \ {waits[c]}
  /\ Ends(c, "cancelled", Followers(waits[c]) \ {c})
  /\ expired' = expired \cup {c}
  /\ dropped' = dropped \cup {KeyOf[c]}
  /\ UNCHANGED <<live, inflight>>

\* The deadline of a follower whose turn is due: it never sees the outcome.
WokenExpires(c) ==
  /\ at[c] = "woken"
  /\ Ends(c, "cancelled", {})
  /\ expired' = expired \cup {c}
  /\ UNCHANGED <<cacheVars, dropped>>

Expire(c) == LeaderExpires(c) \/ FollowerExpires(c) \/ WokenExpires(c)

\* Entries reach their TTL, or the cache is full and drops them.
Evict(ks) ==
  /\ ks # {} /\ ks \subseteq live
  /\ live' = live \ ks
  /\ UNCHANGED <<inflight, pending, callVars, dropped>>

\* replace: a value that comes from elsewhere is cached.
Replace(k) ==
  /\ live' = live \cup {k}
  /\ UNCHANGED <<inflight, pending, callVars, dropped>>

Fetch(c) == FetchReturns(c) \/ FetchRaises(c)

FlightNext ==
  \/ \E c \in Callers : Call(c) \/ Fetch(c) \/ Return(c) \/ Expire(c)
  \/ \E ks \in SUBSET live : Evict(ks)
  \/ \E k \in Keys : Replace(k)

FlightSpec == FlightInit /\ [][FlightNext]_flightVars

\* A fetch ends (its requests have finite timeouts) and a ready task runs.
\* Nothing obliges a task to call, a deadline to strike or an entry to go.
FairFlightSpec ==
  FlightSpec /\ \A c \in Callers : WF_flightVars(Fetch(c)) /\ WF_flightVars(Return(c))

-----------------------------------------------------------------------------
FlightTypeOK ==
  /\ live \subseteq Keys
  /\ inflight \in [Keys -> Callers \cup {Nobody}]
  /\ pending \subseteq Callers
  /\ at \in [Callers -> {"idle", "fetch", "wait", "woken"}]
  /\ waits \in [Callers -> Callers \cup {Nobody}]
  /\ got \in [Callers -> Outcomes]
  /\ expired \subseteq Callers
  /\ dropped \subseteq Keys

Fetching(k) == {c \in Callers : at[c] = "fetch" /\ KeyOf[c] = k}

\* No follower waits for a future that nobody will complete: the leader of every
\* pending future is still fetching, whoever was cancelled meanwhile.
PendingHasLeader ==
  /\ \A c \in pending : at[c] = "fetch"
  /\ \A c \in Callers : at[c] = "wait" => waits[c] \in pending /\ KeyOf[waits[c]] = KeyOf[c]

\* A fetch that is over leaves nothing behind: whatever is registered for a key
\* belongs to a leader that is fetching that key, so the next miss fetches anew.
RegisteredIsFetching ==
  \A k \in Keys : inflight[k] # Nobody => at[inflight[k]] = "fetch" /\ KeyOf[inflight[k]] = k

\* Concurrent misses of one key share one fetch, as long as no deadline strikes
\* a follower of that key.
OneFetchUnlessDropped ==
  \A k \in Keys \ dropped :
    \A c, d \in Fetching(k) : c = d

\* Every call comes back, whatever happens to the leader it follows.
CallsReturn == \A c \in Callers : at[c] # "idle" ~> at[c] = "idle"
=============================================================================
