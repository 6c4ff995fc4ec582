---------------------------- MODULE FanOut_proofs ----------------------------
(* What TLAPS proves of SingleFlight, for any callers and keys, and of FanOut, *)
(* whose searches are its callers, for any requests, sources and durations.    *)
EXTENDS FanOut, TLAPS

\* As long as no follower of a key was cancelled, whoever fetches the key is the
\* leader that is registered for it, and its future is still pending.
LeadersRegistered ==
  \A c \in Callers : at[c] = "fetch" /\ KeyOf[c] \notin dropped =>
    inflight[KeyOf[c]] = c /\ c \in pending

FlightInv ==
  /\ FlightTypeOK
  /\ PendingHasLeader
  /\ RegisteredIsFetching
  /\ LeadersRegistered

LEMMA FlightInvInit == FlightInit => FlightInv
  BY CallersAssumption DEF FlightInit, FlightInv, FlightTypeOK, PendingHasLeader,
     RegisteredIsFetching, LeadersRegistered, Outcomes

\* The step that ends a fetch, whatever its outcome.
LEMMA SettleKeeps ==
  ASSUME FlightInv, NEW c \in Callers, at[c] = "fetch",
         NEW outcome \in Outcomes, Settle(c, outcome),
         live' \in SUBSET Keys, expired' \in SUBSET Callers, dropped' = dropped
  PROVE  FlightInv'
<1> USE CallersAssumption DEF FlightInv, Settle, Ends, Followers
<1>1. FlightTypeOK'
  BY DEF FlightTypeOK
<1>2. PendingHasLeader'
  BY DEF FlightTypeOK, PendingHasLeader
<1>3. RegisteredIsFetching'
  BY DEF FlightTypeOK, RegisteredIsFetching
<1>4. LeadersRegistered'
  BY DEF FlightTypeOK, LeadersRegistered
<1> QED BY <1>1, <1>2, <1>3, <1>4

LEMMA FlightInvStep == FlightInv /\ [FlightNext]_flightVars => FlightInv'
<1> SUFFICES ASSUME FlightInv, [FlightNext]_flightVars PROVE FlightInv'
  OBVIOUS
<1> USE CallersAssumption
<1>1. CASE UNCHANGED flightVars
  BY <1>1 DEF flightVars, cacheVars, callVars, FlightInv, FlightTypeOK, PendingHasLeader,
     RegisteredIsFetching, LeadersRegistered
<1>2. ASSUME NEW c \in Callers, Hit(c) PROVE FlightInv'
  BY <1>2 DEF Hit, Ends, cacheVars, FlightInv, FlightTypeOK, PendingHasLeader,
     RegisteredIsFetching, LeadersRegistered, Outcomes
<1>3. ASSUME NEW c \in Callers, Follow(c) PROVE FlightInv'
  BY <1>3 DEF Follow, Registered, cacheVars, FlightInv, FlightTypeOK, PendingHasLeader,
     RegisteredIsFetching, LeadersRegistered, Outcomes
<1>4. ASSUME NEW c \in Callers, Lead(c) PROVE FlightInv'
  BY <1>4 DEF Lead, Registered, FlightInv, FlightTypeOK, PendingHasLeader,
     RegisteredIsFetching, LeadersRegistered, Outcomes
<1>5. ASSUME NEW c \in Callers, FetchReturns(c) PROVE FlightInv'
  <2>1. at[c] = "fetch" /\ Settle(c, "value") /\ dropped' = dropped
        /\ live' \in SUBSET Keys /\ expired' \in SUBSET Callers
    BY <1>5 DEF FetchReturns, FlightInv, FlightTypeOK
  <2> QED BY <2>1, SettleKeeps DEF Outcomes
<1>6. ASSUME NEW c \in Callers, FetchRaises(c) PROVE FlightInv'
  <2>1. at[c] = "fetch" /\ Settle(c, "error") /\ dropped' = dropped
        /\ live' \in SUBSET Keys /\ expired' \in SUBSET Callers
    BY <1>6 DEF FetchRaises, FlightInv, FlightTypeOK
  <2> QED BY <2>1, SettleKeeps DEF Outcomes
<1>7. ASSUME NEW c \in Callers, LeaderExpires(c) PROVE FlightInv'
  <2>1. at[c] = "fetch" /\ Settle(c, "cancelled") /\ dropped' = dropped
        /\ live' \in SUBSET Keys /\ expired' \in SUBSET Callers
    BY <1>7 DEF LeaderExpires, FlightInv, FlightTypeOK
  <2> QED BY <2>1, SettleKeeps DEF Outcomes
<1>8. ASSUME NEW c \in Callers, Return(c) PROVE FlightInv'
  BY <1>8 DEF Return, cacheVars, FlightInv, FlightTypeOK, PendingHasLeader,
     RegisteredIsFetching, LeadersRegistered, Outcomes
<1>9. ASSUME NEW c \in Callers, FollowerExpires(c) PROVE FlightInv'
  BY <1>9 DEF FollowerExpires, Ends, Followers, FlightInv, FlightTypeOK, PendingHasLeader,
     RegisteredIsFetching, LeadersRegistered, Outcomes
<1>10. ASSUME NEW c \in Callers, WokenExpires(c) PROVE FlightInv'
  BY <1>10 DEF WokenExpires, Ends, cacheVars, FlightInv, FlightTypeOK, PendingHasLeader,
     RegisteredIsFetching, LeadersRegistered, Outcomes
<1>11. ASSUME (\E ks \in SUBSET live : Evict(ks)) \/ (\E k \in Keys : Replace(k))
       PROVE  FlightInv'
  BY <1>11 DEF Evict, Replace, callVars, FlightInv, FlightTypeOK, PendingHasLeader,
     RegisteredIsFetching, LeadersRegistered
<1> QED
  BY <1>1, <1>2, <1>3, <1>4, <1>5, <1>6, <1>7, <1>8, <1>9, <1>10, <1>11
  DEF FlightNext, Call, Fetch, Expire

\* The inductive invariant of the cache.
THEOREM FlightInductive == FlightSpec => []FlightInv
<1>1. FlightInit => FlightInv
  BY FlightInvInit
<1>2. FlightInv /\ [FlightNext]_flightVars => FlightInv'
  BY FlightInvStep
<1> QED BY <1>1, <1>2, PTL DEF FlightSpec

\* enum_cache.py: no follower waits for a future that nobody will complete, and
\* what is registered for a key belongs to a fetch of that key.
THEOREM NobodyWaitsInVain == FlightSpec => [](PendingHasLeader /\ RegisteredIsFetching)
<1>1. FlightInv => PendingHasLeader /\ RegisteredIsFetching
  BY DEF FlightInv
<1> QED BY <1>1, FlightInductive, PTL

\* enum_cache.py: concurrent misses of a key collapse to one fetch, as long as no
\* deadline strikes a follower of that key.
THEOREM MissesCollapse == FlightSpec => []OneFetchUnlessDropped
<1>1. FlightInv => OneFetchUnlessDropped
  BY DEF FlightInv, FlightTypeOK, LeadersRegistered, OneFetchUnlessDropped, Fetching
<1> QED BY <1>1, FlightInductive, PTL

-----------------------------------------------------------------------------
\* The fan-out.  A cooldown is at most the one that its streak earns.
Earned(s) ==
  /\ left[s] > 0 => streak[s] >= 2
  /\ streak[s] >= 2 => left[s] <= Duration(streak[s])

FanOutInv == FlightInv /\ TypeOK /\ \A s \in Sources : Earned(s)

LEMMA TaskHasSource ==
  ASSUME NEW t \in Tasks PROVE SourceOf(t) \in Sources /\ t \in Callers /\ KeyOf[t] = SourceOf(t)
BY FanOutAssumption DEF Tasks, SourceOf

\* A longer streak earns no shorter cooldown, and none more than the maximum.
LEMMA DurationGrows ==
  ASSUME NEW n \in 2..StreakCap
  PROVE  /\ Duration(n) \in 0..MaxSeconds
         /\ n + 1 <= StreakCap => Duration(n) <= Duration(n + 1)
<1> USE FanOutAssumption
<1>1. n - 2 \in 0..StreakCap /\ (n + 1) - 2 = (n - 2) + 1
  OBVIOUS
<1> DEFINE p == 2 ^ (n - 2)
           q == 2 ^ ((n - 2) + 1)
<1>2. p \in Nat /\ q = 2 * p
  BY <1>1, PowersOfTwo
<1>3. BaseSeconds * p \in Nat /\ BaseSeconds * q \in Nat /\ BaseSeconds * p <= BaseSeconds * q
  <2> HIDE DEF p, q
  <2>1. BaseSeconds * p \in Nat
    BY <1>2
  <2>2. BaseSeconds * q = 2 * (BaseSeconds * p)
    BY <1>2
  <2> QED BY <2>1, <2>2
<1>4. Duration(n) = Lesser(BaseSeconds * p, MaxSeconds)
  BY DEF Duration
<1>5. Duration(n + 1) = Lesser(BaseSeconds * q, MaxSeconds)
  BY <1>1 DEF Duration
<1> HIDE DEF p, q
<1> QED BY <1>3, <1>4, <1>5 DEF Lesser

\* A failure recorded: the streak grows and the cooldown with it.
LEMMA RecordFailureKeeps ==
  ASSUME TypeOK, \A s \in Sources : Earned(s), NEW s \in Sources, RecordFailure(s)
  PROVE  /\ streak' \in [Sources -> 0..StreakCap] /\ left' \in [Sources -> 0..MaxSeconds]
         /\ \A r \in Sources : Earned(r)' /\ left'[r] >= left[r]
<1> USE FanOutAssumption
<1> DEFINE n == Lesser(streak[s] + 1, StreakCap)
<1>1. streak \in [Sources -> 0..StreakCap] /\ left \in [Sources -> 0..MaxSeconds]
  BY DEF TypeOK
<1>2. CASE ~Enabled
  BY <1>1, <1>2 DEF RecordFailure, cooldownVars, Earned
<1>3. CASE Enabled
  <2>1. /\ n \in 1..StreakCap /\ n >= streak[s] /\ n <= streak[s] + 1
        /\ streak[s] >= 1 => n >= 2
    BY <1>1 DEF Lesser
  <2>2. n >= 2 => Duration(n) \in 0..MaxSeconds
    BY <2>1, DurationGrows
  <2>3. n >= 2 => left[s] <= Duration(n)
    <3>1. CASE streak[s] < 2
      BY <1>1, <2>2, <3>1 DEF Earned
    <3>2. CASE streak[s] >= 2
      <4>1. left[s] <= Duration(streak[s]) /\ Duration(streak[s]) \in 0..MaxSeconds
        BY <1>1, <3>2, DurationGrows DEF Earned
      <4>2. n = streak[s] \/ (n = streak[s] + 1 /\ Duration(streak[s]) <= Duration(n))
        BY <1>1, <2>1, <3>2, DurationGrows
      <4> QED BY <1>1, <2>2, <4>1, <4>2
    <3> QED BY <1>1, <3>1, <3>2
  <2>4. /\ streak' = [streak EXCEPT ![s] = n]
        /\ left' = [left EXCEPT ![s] = IF n < 2 THEN left[s] ELSE Duration(n)]
    BY <1>3 DEF RecordFailure
  <2> HIDE DEF n
  <2>5. streak' \in [Sources -> 0..StreakCap] /\ left' \in [Sources -> 0..MaxSeconds]
    BY <1>1, <2>1, <2>2, <2>4
  <2>6. ASSUME NEW r \in Sources PROVE Earned(r)' /\ left'[r] >= left[r]
    <3>1. CASE r # s
      BY <1>1, <2>4, <3>1 DEF Earned
    <3>2. CASE r = s /\ n >= 2
      <4>1. streak'[r] = n /\ left'[r] = Duration(n)
        BY <1>1, <2>1, <2>4, <3>2
      <4> QED BY <1>1, <2>1, <2>2, <2>3, <3>2, <4>1 DEF Earned
    <3>3. CASE r = s /\ n < 2
      <4>1. streak'[r] = n /\ left'[r] = left[s] /\ streak[s] < 2
        BY <1>1, <2>1, <2>4, <3>3
      <4> QED BY <1>1, <2>1, <3>3, <4>1 DEF Earned
    <3> QED BY <2>1, <3>1, <3>2, <3>3
  <2> QED BY <2>5, <2>6
<1> QED BY <1>2, <1>3

LEMMA RecordSuccessKeeps ==
  ASSUME TypeOK, \A s \in Sources : Earned(s), NEW s \in Sources, RecordSuccess(s)
  PROVE  /\ streak' \in [Sources -> 0..StreakCap] /\ left' \in [Sources -> 0..MaxSeconds]
         /\ \A r \in Sources : Earned(r)' /\ (left'[r] < left[r] => streak'[r] = 0)
<1>1. streak \in [Sources -> 0..StreakCap] /\ left \in [Sources -> 0..MaxSeconds]
  BY DEF TypeOK
<1>2. CASE ~Enabled
  BY <1>1, <1>2 DEF RecordSuccess, cooldownVars, Earned
<1>3. CASE Enabled
  BY <1>1, <1>3, FanOutAssumption DEF RecordSuccess, Earned
<1> QED BY <1>2, <1>3

\* What the passing of a second does.
LEMMA TickKeeps ==
  ASSUME TypeOK, \A s \in Sources : Earned(s), Tick
  PROVE  /\ streak' \in [Sources -> 0..StreakCap] /\ left' \in [Sources -> 0..MaxSeconds]
         /\ \A r \in Sources : Earned(r)' /\ (left'[r] < left[r] => left'[r] = left[r] - 1)
<1>1. streak \in [Sources -> 0..StreakCap] /\ left \in [Sources -> 0..MaxSeconds]
  BY DEF TypeOK
<1>2. /\ streak' = streak
      /\ \A r \in Sources : left'[r] = IF left[r] > 0 THEN left[r] - 1 ELSE 0
      /\ left' = [s \in Sources |-> IF left[s] > 0 THEN left[s] - 1 ELSE 0]
  BY DEF Tick
<1>3. left' \in [Sources -> 0..MaxSeconds]
  BY <1>1, <1>2, FanOutAssumption
<1>4. ASSUME NEW r \in Sources PROVE Earned(r)' /\ (left'[r] < left[r] => left'[r] = left[r] - 1)
  <2>1. streak[r] >= 2 => Duration(streak[r]) \in Nat
    BY <1>1, DurationGrows
  <2> QED BY <1>1, <1>2, <2>1 DEF Earned
<1> QED BY <1>1, <1>2, <1>3, <1>4

\* Every step of the fan-out is one of the cache, or leaves it alone.
LEMMA StepsOfTheFlight == ASSUME [Next]_vars PROVE [FlightNext]_flightVars
<1>1. ASSUME NEW t \in Tasks, TaskStep(t) \/ Deepen(t) PROVE [FlightNext]_flightVars
  <2>1. t \in Callers /\ SourceOf(t) \in Keys
    BY TaskHasSource, FanOutAssumption
  <2> QED BY <1>1, <2>1 DEF TaskStep, Skip, Run, Progress, Succeed, Fail, Break, Deepen, FlightNext,
             Fetch
<1>2. ASSUME NEW r \in Requests, Search(r) \/ Answer(r) PROVE [FlightNext]_flightVars
  BY <1>2 DEF Search, Answer
<1>3. ASSUME NEW s \in Sources, Age(s) \/ Upstream(s) PROVE [FlightNext]_flightVars
  <2>1. CASE Age(s)
    <3>1. Evict({s}) /\ {s} \in SUBSET live
      BY <2>1 DEF Age, Evict
    <3> QED BY <3>1 DEF FlightNext
  <2>2. CASE Upstream(s)
    BY <2>2 DEF Upstream
  <2> QED BY <1>3, <2>1, <2>2
<1>4. CASE Tick
  BY <1>4 DEF Tick
<1>5. CASE UNCHANGED vars
  BY <1>5 DEF vars
<1> QED BY <1>1, <1>2, <1>3, <1>4, <1>5 DEF Next

LEMMA FanOutInvInit == Init => FanOutInv
<1> SUFFICES ASSUME Init PROVE FanOutInv
  OBVIOUS
<1>1. FlightInv
  BY FlightInvInit DEF Init
<1>2. TypeOK /\ \A s \in Sources : Earned(s)
  BY <1>1, FanOutAssumption DEF Init, TypeOK, FlightInv, Earned
<1> QED BY <1>1, <1>2 DEF FanOutInv

\* The step of a fan-out keeps the invariant and shortens no cooldown.
Shortens == \A s \in Sources : left'[s] < left[s] => streak'[s] = 0 \/ left'[s] = left[s] - 1

LEMMA FanOutInvStep == FanOutInv /\ [Next]_vars => FanOutInv' /\ Shortens
<1> SUFFICES ASSUME FanOutInv, [Next]_vars PROVE FanOutInv' /\ Shortens
  OBVIOUS
<1>1. FlightInv'
  BY StepsOfTheFlight, FlightInvStep DEF FanOutInv
<1>2. TypeOK /\ \A s \in Sources : Earned(s)
  BY DEF FanOutInv
<1>3. streak \in [Sources -> 0..StreakCap] /\ left \in [Sources -> 0..MaxSeconds]
  BY <1>2 DEF TypeOK
<1>4. /\ guard' \in [Tasks -> {"idle", "start", "run", "ok", "warned", "broken"}]
      /\ up' \subseteq Sources
  <2> USE <1>2 DEF TypeOK
  <2>1. ASSUME NEW t \in Tasks, TaskStep(t) \/ Deepen(t)
        PROVE  /\ guard' \in [Tasks -> {"idle", "start", "run", "ok", "warned", "broken"}]
               /\ up' \subseteq Sources
    BY <2>1 DEF TaskStep, Skip, Run, Progress, Succeed, Fail, Break, Deepen
  <2>2. ASSUME NEW r \in Requests, Search(r) \/ Answer(r)
        PROVE  /\ guard' \in [Tasks -> {"idle", "start", "run", "ok", "warned", "broken"}]
               /\ up' \subseteq Sources
    BY <2>2 DEF Search, Answer
  <2>3. ASSUME NEW s \in Sources, Age(s) \/ Upstream(s)
        PROVE  /\ guard' \in [Tasks -> {"idle", "start", "run", "ok", "warned", "broken"}]
               /\ up' \subseteq Sources
    BY <2>3 DEF Age, Upstream
  <2>4. CASE Tick \/ UNCHANGED vars
    BY <2>4 DEF Tick, vars
  <2> QED BY <2>1, <2>2, <2>3, <2>4 DEF Next
<1>5. /\ streak' \in [Sources -> 0..StreakCap] /\ left' \in [Sources -> 0..MaxSeconds]
      /\ \A r \in Sources : Earned(r)'
      /\ Shortens
  <2>1. CASE UNCHANGED cooldownVars
    BY <1>2, <1>3, <2>1 DEF cooldownVars, Earned, Shortens
  <2>2. ASSUME NEW t \in Tasks, Succeed(t)
        PROVE  /\ streak' \in [Sources -> 0..StreakCap] /\ left' \in [Sources -> 0..MaxSeconds]
               /\ \A r \in Sources : Earned(r)'
               /\ Shortens
    BY <1>2, <2>2, TaskHasSource, RecordSuccessKeeps DEF Succeed, Shortens
  <2>3. ASSUME NEW t \in Tasks, Fail(t)
        PROVE  /\ streak' \in [Sources -> 0..StreakCap] /\ left' \in [Sources -> 0..MaxSeconds]
               /\ \A r \in Sources : Earned(r)'
               /\ Shortens
    <3>1. RecordFailure(SourceOf(t)) /\ SourceOf(t) \in Sources
      BY <2>3, TaskHasSource DEF Fail
    <3>2. /\ streak' \in [Sources -> 0..StreakCap] /\ left' \in [Sources -> 0..MaxSeconds]
          /\ \A r \in Sources : Earned(r)' /\ left'[r] >= left[r]
      BY <1>2, <3>1, RecordFailureKeeps
    <3>3. \A r \in Sources : left[r] \in Int /\ left'[r] \in Int
      BY <1>3, <3>2
    <3> QED BY <3>2, <3>3 DEF Shortens
  <2>4. CASE Tick
    BY <1>2, <2>4, TickKeeps DEF Shortens
  <2> QED BY <2>1, <2>2, <2>3, <2>4 DEF Next, TaskStep, Search, Answer, Skip, Run, Progress, Break,
             Deepen, Age, Upstream, vars
<1>6. TypeOK'
  BY <1>1, <1>4, <1>5 DEF TypeOK, FlightInv
<1> QED BY <1>1, <1>5, <1>6 DEF FanOutInv

\* The searches are callers of the cache as module SingleFlight has them, so that
\* what it promises any callers holds of them.
THEOREM SearchesShareTheFlight == Spec => FlightSpec
<1>1. Init => FlightInit
  BY DEF Init
<1> QED BY <1>1, StepsOfTheFlight, PTL DEF Spec, FlightSpec

\* The inductive invariant of the cooldowns.
THEOREM FanOutInductive == Spec => []FanOutInv
  BY FanOutInvInit, FanOutInvStep, PTL DEF Spec

\* cooldown.py: a source is skipped only after two failures that no success came
\* after, for no longer than the maximum, and a cooldown ends by the passing of
\* time or by a success, however the searches overlap.
THEOREM CooldownsAreFair == Spec => CooldownIsFair
<1>1. FanOutInv /\ [Next]_vars => [CooldownIsEarned']_vars /\ [Shortens]_vars
  <2>1. FanOutInv' => CooldownIsEarned'
    BY DEF FanOutInv, CooldownIsEarned, InCooldown, Earned
  <2> QED BY <2>1, FanOutInvStep
<1>2. Spec => [][CooldownIsEarned']_vars /\ [][Shortens]_vars
  BY <1>1, FanOutInductive, PTL DEF Spec
<1>3. [Shortens]_vars
        <=> [\A s \in Sources : left'[s] < left[s] => streak'[s] = 0 \/ left'[s] = left[s] - 1]_vars
  BY DEF Shortens
<1> QED BY <1>2, <1>3, PTL DEF CooldownIsFair, NeverShortened
=============================================================================
