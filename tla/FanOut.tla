------------------------------- MODULE FanOut -------------------------------
(***************************************************************************)
(* The fan-out of a search over its sources: fan_out (framework/fanout.py) *)
(* runs a task per source under a deadline, SourceFailureCooldown          *)
(* (framework/cooldown.py) skips the sources that keep failing, and the    *)
(* tasks of several searches meet in the SingleFlight cache of module      *)
(* SingleFlight.                                                           *)
(*                                                                         *)
(* The run of a source is abstracted to one lookup in the cache and a rest *)
(* that may still fail; the searches ask for one title of each source.     *)
(* Time is the number of seconds that a cooldown has left.                 *)
(***************************************************************************)
EXTENDS SingleFlight, Integers

CONSTANTS
  Requests,     \* searches in flight at once
  Sources,
  BaseSeconds,  \* settings.source_failure_cooldown_base_seconds
  MaxSeconds,   \* settings.source_failure_cooldown_max_seconds
  StreakCap     \* bound: a longer streak is counted no further

Tasks == Requests \X Sources
SourceOf(t) == t[2]

ASSUME FanOutAssumption ==
  /\ Callers = Tasks /\ Keys = Sources /\ \A t \in Tasks : KeyOf[t] = SourceOf(t)
  /\ BaseSeconds \in Nat /\ MaxSeconds \in Nat
  /\ StreakCap \in Nat \ {0, 1}
  \* a saturated streak has the longest cooldown already
  /\ BaseSeconds * 2 ^ (StreakCap - 2) >= MaxSeconds \/ BaseSeconds = 0

\* What arithmetic says of the doubling, which the provers do not know.
ASSUME PowersOfTwo == \A n \in 0..StreakCap : 2 ^ n \in Nat /\ 2 ^ (n + 1) = 2 * 2 ^ n

VARIABLES
  guard,    \* where the task of each request and source is
  streak,   \* _streak: consecutive hard failures of each source
  left,     \* _until - clock(), 0 when there is no cooldown
  up        \* the sources whose runs succeed; of the others anything goes

cooldownVars == <<streak, left>>
vars == <<flightVars, guard, cooldownVars, up>>

Init ==
  /\ FlightInit
  /\ guard = [t \in Tasks |-> "idle"]
  /\ streak = [s \in Sources |-> 0]
  /\ left = [s \in Sources |-> 0]
  /\ up = Sources

-----------------------------------------------------------------------------
Enabled == BaseSeconds > 0 /\ MaxSeconds > 0

Lesser(m, n) == IF m <= n THEN m ELSE n

Duration(n) == Lesser(BaseSeconds * 2 ^ (n - 2), MaxSeconds)

BugRecordFailure(s) ==  \* the streak starts anew with every cooldown
  LET n == IF left[s] > 0 \/ streak[s] >= 2 THEN 1 ELSE streak[s] + 1 IN
    /\ streak' = [streak EXCEPT ![s] = n]
    /\ left' = [left EXCEPT ![s] = IF n < 2 THEN 0 ELSE Duration(n)]
\* record_failure: the first failure opens no cooldown.
RecordFailure(s) ==
  LET n == Lesser(streak[s] + 1, StreakCap) IN
    IF ~Enabled THEN UNCHANGED cooldownVars
    ELSE /\ streak' = [streak EXCEPT ![s] = n]
         /\ left' = [left EXCEPT ![s] = IF n < 2 THEN @ ELSE Duration(n)]

BugRecordSuccess(s) ==  \* only the streak is forgotten
  /\ streak' = [streak EXCEPT ![s] = 0]
  /\ UNCHANGED left
\* record_success: forget the streak and the cooldown.
RecordSuccess(s) ==
  IF ~Enabled THEN UNCHANGED cooldownVars
  ELSE /\ streak' = [streak EXCEPT ![s] = 0]
       /\ left' = [left EXCEPT ![s] = 0]

InCooldown(s) == left[s] > 0

-----------------------------------------------------------------------------
\* A search arrives: a task for each source.
Search(r) ==
  /\ \A s \in Sources : guard[<<r, s>>] = "idle"
  /\ guard' = [t \in Tasks |-> IF t[1] = r THEN "start" ELSE guard[t]]
  /\ UNCHANGED <<flightVars, cooldownVars, up>>

BugSkip(t) ==  \* a skip counts as one more failure
  /\ guard[t] = "start" /\ InCooldown(SourceOf(t))
  /\ guard' = [guard EXCEPT ![t] = "warned"]
  /\ RecordFailure(SourceOf(t))
  /\ UNCHANGED <<flightVars, up>>

\* A source in cooldown is skipped, with a warning and no record.
Skip(t) ==
  /\ guard[t] = "start" /\ InCooldown(SourceOf(t))
  /\ guard' = [guard EXCEPT ![t] = "warned"]
  /\ UNCHANGED <<flightVars, cooldownVars, up>>

\* The run of the source looks its title up.
Run(t) ==
  /\ guard[t] = "start" /\ ~InCooldown(SourceOf(t))
  /\ guard' = [guard EXCEPT ![t] = "run"]
  /\ Call(t)
  /\ UNCHANGED <<cooldownVars, up>>

\* The fetch of a source that is up returns, and in time.
Progress(t) ==
  /\ guard[t] = "run"
  /\ \/ FetchReturns(t) \/ Return(t)
     \/ SourceOf(t) \notin up /\ (FetchRaises(t) \/ Expire(t))
  /\ UNCHANGED <<guard, cooldownVars, up>>

Looked(t) == guard[t] = "run" /\ at[t] = "idle"

\* A cached window that stops short is enumerated deeper, and replaced.
Deepen(t) ==
  /\ Looked(t) /\ got[t] = "value"
  /\ Replace(SourceOf(t))
  /\ UNCHANGED <<guard, cooldownVars, up>>

\* The run returns releases.
Succeed(t) ==
  /\ Looked(t) /\ got[t] = "value"
  /\ guard' = [guard EXCEPT ![t] = "ok"]
  /\ RecordSuccess(SourceOf(t))
  /\ UNCHANGED <<flightVars, up>>

\* The run raises, or its deadline strikes: a warning, and a failure recorded.
HardFailure(t) ==
  \/ got[t] = "error" \/ t \in expired
  \/ got[t] = "value" /\ SourceOf(t) \notin up   \* the rest of the run fails
Fail(t) ==
  /\ Looked(t) /\ HardFailure(t)
  /\ guard' = [guard EXCEPT ![t] = "warned"]
  /\ RecordFailure(SourceOf(t))
  /\ UNCHANGED <<flightVars, up>>

\* A CancelledError that is not the task's own ends it: no except clause of
\* _guarded takes it, and task.result() raises it again in fan_out.
Break(t) ==
  /\ Looked(t) /\ got[t] = "cancelled" /\ t \notin expired
  /\ guard' = [guard EXCEPT ![t] = "broken"]
  /\ UNCHANGED <<flightVars, cooldownVars, up>>

\* Every task is done: the search is answered, or fails as a whole.
Answer(r) ==
  /\ \A s \in Sources : guard[<<r, s>>] \in {"ok", "warned", "broken"}
  /\ guard' = [t \in Tasks |-> IF t[1] = r THEN "idle" ELSE guard[t]]
  /\ UNCHANGED <<flightVars, cooldownVars, up>>

\* A cached title reaches its TTL.
Age(s) ==
  /\ Evict({s})
  /\ UNCHANGED <<guard, cooldownVars, up>>

Tick ==
  /\ \E s \in Sources : left[s] > 0
  /\ left' = [s \in Sources |-> IF left[s] > 0 THEN left[s] - 1 ELSE 0]
  /\ UNCHANGED <<flightVars, guard, streak, up>>

Upstream(s) ==
  /\ up' = IF s \in up THEN up \ {s} ELSE up \cup {s}
  /\ UNCHANGED <<flightVars, guard, cooldownVars>>

TaskStep(t) == Skip(t) \/ Run(t) \/ Progress(t) \/ Succeed(t) \/ Fail(t) \/ Break(t)

Next ==
  \/ \E r \in Requests : Search(r) \/ Answer(r)
  \/ \E t \in Tasks : TaskStep(t) \/ Deepen(t)
  \/ \E s \in Sources : Age(s) \/ Upstream(s)
  \/ Tick

Spec == Init /\ [][Next]_vars

\* Time passes, ready tasks run, fetches end, entries expire, and Mangarr keeps
\* searching (it polls the gateway for ever).
FairSpec ==
  /\ Spec
  /\ \A r \in Requests : WF_vars(Search(r)) /\ WF_vars(Answer(r))
  /\ \A t \in Tasks : WF_vars(TaskStep(t))
  /\ WF_vars(Tick)

-----------------------------------------------------------------------------
TypeOK ==
  /\ FlightTypeOK
  /\ guard \in [Tasks -> {"idle", "start", "run", "ok", "warned", "broken"}]
  /\ streak \in [Sources -> 0..StreakCap]
  /\ left \in [Sources -> 0..MaxSeconds]
  /\ up \subseteq Sources

\* A blip never sidelines a source: it is in cooldown only after two failures
\* that no success came after, however the searches overlap, and never for
\* longer than the maximum.
CooldownIsEarned ==
  /\ TypeOK
  /\ \A s \in Sources : InCooldown(s) => streak[s] >= 2

\* Overlapping searches never shorten a cooldown: it ends by the passing of time
\* or by a success.
NeverShortened ==
  [][\A s \in Sources : left'[s] < left[s] => streak'[s] = 0 \/ left'[s] = left[s] - 1]_vars

\* A cooldown is neither longer nor shorter than what happened.
CooldownIsFair == [][CooldownIsEarned']_vars /\ NeverShortened

\* A skipped source is tried again: once it is up for good, its failures are
\* forgotten, however long its streak was.
SourceRecovers == \A s \in Sources : <>[](s \in up) => <>[](streak[s] = 0)

\* Every search is answered or fails, whatever its tasks wait for.
SearchEnds == \A r \in Requests, s \in Sources : guard[<<r, s>>] # "idle" ~> guard[<<r, s>>] = "idle"

-----------------------------------------------------------------------------
(* Claims of the code's own documentation that the runs refute.            *)

\* fanout.py: one source must never break others.
SourcesAreIsolated == \A t \in Tasks : guard[t] # "broken"
=============================================================================
