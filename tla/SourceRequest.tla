----------------------------- MODULE SourceRequest -----------------------------
(***************************************************************************)
(* The requests of SourceContext (framework/context.py) that ride the      *)
(* proxies of module ProxyPool:                                            *)
(*                                                                         *)
(*   - the calls of a source whose search is pinned to a proxy: tenacity's *)
(*     attempts around _request_response, which moves to another proxy on  *)
(*     a transport error, around _reconcile_request, which solves a        *)
(*     Cloudflare challenge once and moves on when the origin blocks the   *)
(*     proxy;                                                              *)
(*   - the pages of a job of a source whose images are fetched through the *)
(*     pool (fetch_image_via_pool), with the proxy that its job sticks to. *)
(*                                                                         *)
(* The source solves on demand (cloudflare_challenge_optional) and has no  *)
(* session_prep, like every source that is pinned.  The solver is a call   *)
(* that comes back with a clearance or fails; the fetch of a page, its own *)
(* retries included, succeeds or fails as a whole.                         *)
(***************************************************************************)
EXTENDS ProxyPool, Naturals

CONSTANTS
  Requests,       \* concurrent calls of get_json and its siblings
  Pages,          \* pages of one job that are fetched at once
  MaxAttempts,    \* settings.image_proxy_max_attempts
  RetryAttempts,  \* retry_attempts of the context
  MaxInFlight     \* bound: requests and pages in flight at once

ASSUME RequestAssumption ==
  /\ MaxAttempts \in Nat \ {0} /\ RetryAttempts \in Nat \ {0}
  /\ MaxInFlight \in Nat

VARIABLES
  at,        \* where each request is
  attempt,   \* the attempt of tenacity
  outer,     \* what _set_search_pin or the last transport rotation made active
  active,    \* _ACTIVE_PROXY: what the request is sent over
  tried,     \* tried of _request_response
  blocked,   \* tried of _rotate_and_retry_origin_block, {} outside of it
  sticky,    \* _sticky_proxy of the job
  using,     \* the proxy that each page is fetched over, NoProxy when it is not
  pageTried, \* tried of fetch_image_via_pool
  picks,     \* how often each page has picked a proxy, 0 when it is not fetched
  failed,    \* history: the proxies that failed a request in this attempt
  young      \* history: the proxies cooled since nothing was in flight

requestVars == <<at, attempt, outer, active, tried, blocked>>
pageVars == <<sticky, using, pageTried, picks>>
historyVars == <<failed, young>>
vars == <<poolVars, requestVars, pageVars, historyVars>>

Init ==
  /\ PoolInit
  /\ at = [r \in Requests |-> "idle"]
  /\ attempt = [r \in Requests |-> 0]
  /\ outer = [r \in Requests |-> NoProxy]
  /\ active = [r \in Requests |-> NoProxy]
  /\ tried = [r \in Requests |-> {}]
  /\ blocked = [r \in Requests |-> {}]
  /\ sticky = NoProxy
  /\ using = [g \in Pages |-> NoProxy]
  /\ pageTried = [g \in Pages |-> {}]
  /\ failed = [r \in Requests |-> {}]
  /\ picks = [g \in Pages |-> 0]
  /\ young = {}

-----------------------------------------------------------------------------
InFlight == {r \in Requests : at[r] # "idle"} \cup {g \in Pages : picks[g] # 0}

Cooling(ps) == young' = young \cup (ps \ {NoProxy})

\* A request or a page starts; a lone one finds no cooldown that it could outlast.
Starting ==
  /\ Cardinality(InFlight) < MaxInFlight
  /\ young' = IF InFlight = {} THEN {} ELSE young

OnWire(r) == at[r] \in {"first", "again"}
Rotating(r) == blocked[r] # {}

\* The context of the attempt is left: its finally clauses reset the proxy.
Leave(r, where, n) ==
  /\ at' = [at EXCEPT ![r] = where]
  /\ attempt' = [attempt EXCEPT ![r] = n]
  /\ outer' = [outer EXCEPT ![r] = NoProxy]
  /\ active' = [active EXCEPT ![r] = NoProxy]
  /\ tried' = [tried EXCEPT ![r] = {}]
  /\ blocked' = [blocked EXCEPT ![r] = {}]
  /\ failed' = [failed EXCEPT ![r] = {}]

\* The call is over, with a result or with an error.
End(r) == Leave(r, "idle", 0)

\* _retrying: one more attempt after a backoff, or the error is raised.
BugRetry(r) == Leave(r, "backoff", 0)  \* every attempt is a first one
Retry(r) ==
  IF attempt[r] = RetryAttempts THEN End(r)
  ELSE Leave(r, "backoff", attempt[r])

\* _set_search_pin, then the first send.
Begin(r) ==
  /\ at[r] \in {"idle", "backoff"}
  /\ at' = [at EXCEPT ![r] = "first"]
  /\ attempt' = [attempt EXCEPT ![r] = @ + 1]
  /\ \E p \in Proxies \cup {NoProxy} :
       /\ GetOrAcquire(p)
       /\ outer' = [outer EXCEPT ![r] = p]
       /\ active' = [active EXCEPT ![r] = p]
  /\ IF at[r] = "idle" THEN Starting ELSE UNCHANGED young
  /\ UNCHANGED <<tried, blocked, pageVars, failed>>

\* A result, or an error that no retry would change: a 401 or 404, a block by the
\* firewall, a 403 that survived the forced solve.
Answered(r) ==
  /\ OnWire(r)
  /\ End(r)
  /\ UNCHANGED <<poolVars, pageVars, young>>

ServerError(r) ==
  /\ OnWire(r)
  /\ Retry(r)
  /\ UNCHANGED <<poolVars, pageVars, young>>

\* is_cf_challenge: one forced solve, then the same proxy again.
Challenged(r) ==
  /\ at[r] = "first"
  /\ at' = [at EXCEPT ![r] = "solve"]
  /\ UNCHANGED <<poolVars, attempt, outer, active, tried, blocked, pageVars, historyVars>>

Cleared(r) ==
  /\ at[r] = "solve"
  /\ at' = [at EXCEPT ![r] = "again"]
  /\ UNCHANGED <<poolVars, attempt, outer, active, tried, blocked, pageVars, failed, young>>

\* is_origin_block, unless a challenge came first: rotate, solve on the new proxy,
\* send again, and so on as long as the origin blocks.
OriginBlocked(r) ==
  LET gone == IF Rotating(r) THEN blocked[r] ELSE {active[r]} \ {NoProxy}
      rotations == Cardinality(blocked[r] \ {outer[r]})
  IN
  /\ at[r] = "first" \/ (at[r] = "again" /\ Rotating(r))
  /\ IF rotations = MaxAttempts THEN End(r) /\ UNCHANGED <<poolVars, young>>
     ELSE /\ \E p \in Proxies \cup {NoProxy} :
               /\ Rotate(gone, p)
               /\ IF p = NoProxy THEN End(r)
                  ELSE /\ at' = [at EXCEPT ![r] = "solve"]
                       /\ active' = [active EXCEPT ![r] = p]
                       /\ blocked' = [blocked EXCEPT ![r] = gone \cup {p}]
                       /\ failed' = [failed EXCEPT ![r] = @ \cup ({active[r]} \ {NoProxy})]
                       /\ UNCHANGED <<attempt, outer, tried>>
          /\ Cooling({pin})
  /\ UNCHANGED pageVars

\* The handler of httpx.TransportError.  Its old proxy is the outer one: the finally
\* of the rotation loop has put that back.
OnTransportError(r, broken) ==
  LET gone == tried[r] \cup {outer[r]} IN
  IF outer[r] = NoProxy \/ Cardinality(gone) >= MaxAttempts
  THEN Retry(r) /\ UNCHANGED <<poolVars, young>>
  ELSE /\ \E p \in Proxies \cup {NoProxy} :
            /\ Rotate(gone, p)
            /\ IF p = NoProxy THEN Retry(r)
               ELSE /\ at' = [at EXCEPT ![r] = "first"]
                    /\ outer' = [outer EXCEPT ![r] = p]
                    /\ active' = [active EXCEPT ![r] = p]
                    /\ tried' = [tried EXCEPT ![r] = gone]
                    /\ blocked' = [blocked EXCEPT ![r] = {}]
                    /\ failed' = [failed EXCEPT ![r] = @ \cup broken]
                    /\ UNCHANGED attempt
       /\ Cooling({pin})

\* The proxy is dead.
Broken(r) ==
  /\ OnWire(r)
  /\ OnTransportError(r, {active[r]} \ {NoProxy})
  /\ UNCHANGED pageVars

\* The forced solve raises: an error of its own, a status of the sidecar, or a
\* transport error of the sidecar, which the handler takes for one of the proxy.
SolveFails(r) ==
  /\ at[r] = "solve"
  /\ \/ (End(r) \/ Retry(r)) /\ UNCHANGED <<poolVars, young>>
     \/ OnTransportError(r, {})
  /\ UNCHANGED pageVars

\* The deadline of the search, or the end of its client.
Cancelled(r) ==
  /\ at[r] # "idle"
  /\ End(r)
  /\ UNCHANGED <<poolVars, pageVars, young>>

-----------------------------------------------------------------------------
\* The next proxy of a page that has picked n: the sticky one s unless the page has
\* tried it, or one from the pool.
Candidates(s, gone, cooling, n) ==
  IF n = MaxAttempts THEN {NoProxy}
  ELSE IF s # NoProxy /\ s \notin gone THEN {s} ELSE Acquired(gone, cooling)

Pick(g, p) ==
  /\ using' = [using EXCEPT ![g] = p]
  /\ pageTried' = [pageTried EXCEPT ![g] = IF p = NoProxy THEN {} ELSE @ \cup {p}]
  /\ picks' = [picks EXCEPT ![g] = IF p = NoProxy THEN 0 ELSE @ + 1]

PageBegins(g) ==
  /\ picks[g] = 0
  /\ \E p \in Candidates(sticky, {}, cooled, 0) : Pick(g, p)
  /\ Starting
  /\ UNCHANGED <<poolVars, requestVars, sticky, failed>>

PageServed(g) ==
  /\ picks[g] # 0
  /\ sticky' = using[g]
  /\ Pick(g, NoProxy)
  /\ UNCHANGED <<poolVars, requestVars, historyVars>>

\* The job ends, or another page of it has failed for good.
PageCancelled(g) ==
  /\ picks[g] # 0
  /\ Pick(g, NoProxy)
  /\ UNCHANGED <<poolVars, requestVars, sticky, historyVars>>

BugPageFails(g) ==  \* whatever is sticky is used, tried or not
  /\ picks[g] # 0
  /\ MarkFailed(using[g])
  /\ sticky' = IF sticky = using[g] THEN NoProxy ELSE sticky
  /\ \E p \in Candidates(sticky', IF sticky' = NoProxy THEN pageTried[g] ELSE {}, cooled', picks[g]) : Pick(g, p)
  /\ Cooling({using[g]})
  /\ UNCHANGED <<pin, requestVars, failed>>
PageFails(g) ==
  /\ picks[g] # 0
  /\ MarkFailed(using[g])
  /\ sticky' = IF sticky = using[g] THEN NoProxy ELSE sticky
  /\ \E p \in Candidates(sticky', pageTried[g], cooled', picks[g]) : Pick(g, p)
  /\ Cooling({using[g]})
  /\ UNCHANGED <<pin, requestVars, failed>>

\* The next job has a context of its own.
NextJob ==
  /\ sticky # NoProxy /\ \A g \in Pages : picks[g] = 0
  /\ sticky' = NoProxy
  /\ UNCHANGED <<poolVars, requestVars, using, pageTried, picks, historyVars>>

-----------------------------------------------------------------------------
\* Cooldowns last minutes, calls seconds: none ends before what it began under.
Warms(p) ==
  /\ Thaw(p)
  /\ p \notin young \/ InFlight = {}
  /\ UNCHANGED <<requestVars, pageVars, historyVars>>

RequestStep(r) ==
  \/ at[r] = "backoff" /\ Begin(r)
  \/ Answered(r) \/ ServerError(r) \/ Challenged(r) \/ Cleared(r)
  \/ OriginBlocked(r) \/ Broken(r) \/ SolveFails(r)

PageStep(g) == PageServed(g) \/ PageFails(g)

Next ==
  \/ \E r \in Requests : Begin(r) \/ RequestStep(r) \/ Cancelled(r)
  \/ \E g \in Pages : PageBegins(g) \/ PageStep(g) \/ PageCancelled(g)
  \/ NextJob
  \/ \E p \in Proxies : Warms(p)

Spec == Init /\ [][Next]_vars

\* Answers, deadlines of the transport and of the solver, and backoffs come.
FairSpec ==
  /\ Spec
  /\ \A r \in Requests : WF_vars(RequestStep(r))
  /\ \A g \in Pages : WF_vars(PageStep(g))

-----------------------------------------------------------------------------
Egress == Proxies \cup {NoProxy}

TypeOK ==
  /\ PoolTypeOK
  /\ at \in [Requests -> {"idle", "backoff", "first", "solve", "again"}]
  /\ attempt \in [Requests -> 0..RetryAttempts]
  /\ outer \in [Requests -> Egress] /\ active \in [Requests -> Egress]
  /\ tried \in [Requests -> SUBSET Proxies] /\ blocked \in [Requests -> SUBSET Proxies]
  /\ sticky \in Egress /\ using \in [Pages -> Egress]
  /\ pageTried \in [Pages -> SUBSET Proxies] /\ picks \in [Pages -> 0..MaxAttempts]
  /\ failed \in [Requests -> SUBSET Proxies]
  /\ young \subseteq Proxies

\* Neither an attempt nor a page ever goes back to a proxy that failed it, although
\* the two rotation loops of an attempt have a memory each and other calls and pages
\* move the pin meanwhile, or make that proxy sticky again.
NoProxyTwice ==
  /\ TypeOK
  /\ \A r \in Requests : at[r] \in {"first", "solve", "again"} => active[r] \notin failed[r]
  /\ \A g \in Pages : Cardinality(pageTried[g]) = picks[g]

\* Every call ends and every page is served or given up.
RequestsEnd ==
  /\ \A r \in Requests : []<>(at[r] = "idle")
  /\ \A g \in Pages : []<>(picks[g] = 0)
=============================================================================
