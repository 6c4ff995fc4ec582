---------------------------- MODULE SourceHealth ----------------------------
(* The breaker of each Cloudflare source (framework/health.py): the calls   *)
(* that feed it (SourceContext), the verdict of the warm-up at startup and  *)
(* the supervisor that probes a source which is down (app.py).              *)
(*                                                                          *)
(* Time is a choice: a poll (60 s), or a backoff (1 h, 6 h), may end at any *)
(* moment.  An on-demand source is probed by a look at the clearance held.  *)
EXTENDS Naturals

CONSTANTS Sources, OnDemand,
          Threshold,     \* settings.cloudflare_breaker_threshold
          MaxOutages     \* bound on the outages of a site

HealthAssumption == OnDemand \subseteq Sources /\ Threshold \in Nat \ {0} /\ MaxOutages \in Nat

VARIABLES
  failures,  \* consecutive_failures, counted up to Threshold
  forced,    \* force_disabled
  up,        \* the site answers
  held,      \* its clearance is held
  watch,     \* of the supervisor: "poll", or the backoff or probe it is in
  warm,      \* what the warm-up has yet to try, and what it failed to solve
  outages

vars == <<failures, forced, up, held, watch, warm, outages>>

Backoffs == 1..2    \* cloudflare_watchdog_backoff_hours
Enabled(s) == ~forced[s] /\ failures[s] < Threshold

Init ==
  /\ failures = [s \in Sources |-> 0] /\ forced = [s \in Sources |-> FALSE]
  /\ up \in [Sources -> BOOLEAN] /\ held = [s \in Sources |-> FALSE]
  /\ watch = [s \in Sources |-> [at |-> "poll", n |-> 0]]
  /\ warm = [todo |-> Sources \ OnDemand, failed |-> {}]
  /\ outages = 0

(* _feed_success, _feed_failure: a data call, through whatever clearance. *)
RecordSuccess(s) ==
  /\ failures' = [failures EXCEPT ![s] = 0]
  /\ forced' = [forced EXCEPT ![s] = FALSE]
CallSucceeds(s) ==
  /\ up[s] /\ RecordSuccess(s)
  /\ held' \in {held, [held EXCEPT ![s] = TRUE]}
  /\ UNCHANGED <<up, watch, warm, outages>>
CallFails(s) ==
  /\ ~up[s] /\ failures[s] < Threshold
  /\ failures' = [failures EXCEPT ![s] = @ + 1]
  /\ UNCHANGED <<forced, up, held, watch, warm, outages>>

(* The warm-up tries each source and disables those that failed when all    *)
(* are through, whatever their calls have brought meanwhile.                *)
WarmOne(s) ==
  /\ s \in warm.todo
  /\ \E ok \in {up[s], FALSE} :
       /\ warm' = [todo |-> warm.todo \ {s}, failed |-> IF ok THEN warm.failed ELSE warm.failed \cup {s}]
       /\ held' = [held EXCEPT ![s] = @ \/ ok]
  /\ UNCHANGED <<failures, forced, up, watch, outages>>
WarmEnds ==
  /\ warm.todo = {} /\ warm.failed # {}
  /\ forced' = [s \in Sources |-> forced[s] \/ s \in warm.failed]
  /\ warm' = [warm EXCEPT !.failed = {}]
  /\ UNCHANGED <<failures, up, held, watch, outages>>

BugDown(s) == failures[s] >= Threshold   \* the latch is never looked at
Down(s) == ~Enabled(s)
(* _supervise_source *)
Poll(s) ==
  /\ watch[s].at = "poll" /\ Down(s)
  /\ watch' = [watch EXCEPT ![s] = [at |-> "sleep", n |-> 1]]
  /\ UNCHANGED <<failures, forced, up, held, warm, outages>>
(* _recovery_watchdog: the probe forces a solve, or looks. *)
Probe(s) ==
  /\ watch[s].at = "sleep"
  /\ watch' = [watch EXCEPT ![s].at = IF s \in OnDemand THEN (IF held[s] THEN "good" ELSE "bad")
                                      ELSE IF up[s] THEN "good" ELSE "bad"]
  /\ UNCHANGED <<failures, forced, up, held, warm, outages>>
Recover(s) ==
  /\ watch[s].at = "good" /\ RecordSuccess(s)
  /\ watch' = [watch EXCEPT ![s] = [at |-> "poll", n |-> 0]]
  /\ UNCHANGED <<up, held, warm, outages>>
(* The next backoff, unless the source has recovered; after the last one    *)
(* the supervisor polls again.                                              *)
StillDown(s) ==
  /\ watch[s].at = "bad"
  /\ watch' = [watch EXCEPT ![s] = IF watch[s].n + 1 \in Backoffs /\ ~Enabled(s)
                                   THEN [at |-> "sleep", n |-> @.n + 1] ELSE [at |-> "poll", n |-> 0]]
  /\ UNCHANGED <<failures, forced, up, held, warm, outages>>

SiteFails(s) ==
  /\ up[s] /\ outages < MaxOutages /\ outages' = outages + 1
  /\ up' = [up EXCEPT ![s] = FALSE]
  /\ held' \in {held, [held EXCEPT ![s] = FALSE]}
  /\ UNCHANGED <<failures, forced, watch, warm>>
SiteReturns(s) ==
  /\ ~up[s] /\ up' = [up EXCEPT ![s] = TRUE]
  /\ UNCHANGED <<failures, forced, held, watch, warm, outages>>

Supervise(s) == Poll(s) \/ Probe(s) \/ Recover(s) \/ StillDown(s)
Next ==
  \/ \E s \in Sources :
       CallSucceeds(s) \/ CallFails(s) \/ WarmOne(s) \/ Supervise(s) \/ SiteFails(s) \/ SiteReturns(s)
  \/ WarmEnds

Spec == Init /\ [][Next]_vars
(* The supervisors are tasks of the loop; an outage ends. *)
Fairness == \A s \in Sources : WF_vars(Supervise(s)) /\ WF_vars(SiteReturns(s))
FairSpec == Spec /\ Fairness

(* "This guarantees recovery even if Mangarr stops querying the source"     *)
(* (_supervise_source): a source that is probed by a solve is enabled again *)
(* and again, also when the warm-up disables it after a call succeeded.     *)
Recovers == \A s \in Sources \ OnDemand : []<>Enabled(s)

=============================================================================
