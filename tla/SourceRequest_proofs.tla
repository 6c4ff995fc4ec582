------------------------ MODULE SourceRequest_proofs ------------------------
(* What TLAPS proves of SourceRequest, for any calls, pages, proxies and     *)
(* budgets: no attempt and no page returns to a proxy that failed it.        *)
EXTENDS SourceRequest, FiniteSetTheorems, TLAPS

\* A call between two attempts has forgotten the proxies of the last one.
BetweenAttempts ==
  \A r \in Requests :
    /\ at[r] \in {"idle", "backoff"} => active[r] = NoProxy /\ failed[r] = {}
    /\ at[r] = "idle" => attempt[r] = 0
    /\ at[r] = "backoff" => attempt[r] < RetryAttempts

\* A proxy that stays cooled while anything is in flight.
Out == cooled \cap young

\* What an attempt has seen fail is cooled, although its own two memories need
\* not hold it any more.
FailedAreOut == \A r \in Requests : failed[r] \subseteq Out

\* What an attempt is sent over is the pin, or was: whoever moved the pin has
\* cooled it.
ActiveWasPinned == \A r \in Requests : active[r] \in {NoProxy, pin} \cup Out

PagesMoveOn ==
  \A g \in Pages : /\ picks[g] # 0 => using[g] # NoProxy
                   /\ Cardinality(pageTried[g]) = picks[g]

IInv ==
  /\ TypeOK
  /\ BetweenAttempts
  /\ FailedAreOut
  /\ ActiveWasPinned
  /\ PagesMoveOn
  /\ \A r \in Requests : active[r] \notin failed[r]

LEMMA IInvInit == Init => IInv
<1> USE RequestAssumption, ProxyAssumption
<1> SUFFICES ASSUME Init PROVE IInv
  OBVIOUS
<1>1. TypeOK
  BY DEF Init, PoolInit, TypeOK, PoolTypeOK, Egress
<1>2. PagesMoveOn
  BY FS_EmptySet DEF Init, PagesMoveOn
<1> QED BY <1>1, <1>2 DEF Init, PoolInit, IInv, BetweenAttempts, FailedAreOut, ActiveWasPinned, Out

-----------------------------------------------------------------------------
\* What the steps of a call do to the pool: cooldowns are added, and a pin that
\* moves is cooled.
PoolMoves ==
  /\ PoolTypeOK' /\ young' \subseteq Proxies
  /\ Out \subseteq Out'
  /\ pin' = pin \/ pin = NoProxy \/ pin \in Out'

LEMMA Unmoved ==
  ASSUME TypeOK, UNCHANGED <<poolVars, young>>
  PROVE  PoolMoves
BY DEF TypeOK, PoolTypeOK, PoolMoves, poolVars, Out

\* A rotation finds a proxy that is not cooled, or none.
LEMMA RotateMoves ==
  ASSUME TypeOK, NEW gone, NEW p \in Egress, Rotate(gone, p), Cooling({pin})
  PROVE  /\ PoolMoves
         /\ pin' = p
         /\ p # NoProxy => p \notin cooled'
         /\ pin # NoProxy => pin \in Out'
BY ProxyAssumption DEF TypeOK, PoolTypeOK, PoolMoves, Out, Rotate, MarkFailed, Acquired, Cooling, Egress

\* A call leaves its attempt.
LEMMA LeaveKeeps ==
  ASSUME IInv, PoolMoves, UNCHANGED pageVars, NEW r \in Requests,
         NEW where, NEW n, Leave(r, where, n),
         (where = "idle" /\ n = 0) \/ (where = "backoff" /\ n \in 0..(RetryAttempts - 1))
  PROVE  IInv'
<1> USE RequestAssumption, ProxyAssumption DEF IInv
<1>1. TypeOK'
  BY DEF TypeOK, PoolMoves, Leave, pageVars, Egress
<1>2. BetweenAttempts'
  BY DEF TypeOK, BetweenAttempts, Leave
<1>3. FailedAreOut'
  BY DEF TypeOK, FailedAreOut, PoolMoves, Leave
<1>4. ActiveWasPinned'
  BY DEF TypeOK, ActiveWasPinned, PoolMoves, Leave
<1>5. PagesMoveOn'
  BY DEF PagesMoveOn, pageVars
<1>6. \A s \in Requests : active'[s] \notin failed'[s]
  BY DEF TypeOK, Leave
<1> QED BY <1>1, <1>2, <1>3, <1>4, <1>5, <1>6

LEMMA EndKeeps ==
  ASSUME IInv, PoolMoves, UNCHANGED pageVars, NEW r \in Requests, End(r)
  PROVE  IInv'
BY LeaveKeeps DEF End

LEMMA RetryKeeps ==
  ASSUME IInv, PoolMoves, UNCHANGED pageVars, NEW r \in Requests, Retry(r)
  PROVE  IInv'
<1>1. CASE attempt[r] = RetryAttempts
  BY <1>1, EndKeeps DEF Retry
<1>2. CASE attempt[r] # RetryAttempts
  <2>1. attempt[r] \in 0..(RetryAttempts - 1)
    BY <1>2, RequestAssumption DEF IInv, TypeOK
  <2> QED BY <1>2, <2>1, LeaveKeeps DEF Retry
<1> QED BY <1>1, <1>2

\* A call moves to proxy p, which is the new pin and not cooled, and remembers
\* what it was sent over as failed.
LEMMA MoveKeeps ==
  ASSUME IInv, UNCHANGED <<pageVars, attempt>>, NEW r \in Requests, NEW p \in Proxies,
         NEW gone, Rotate(gone, p), Cooling({pin}), TypeOK',
         NEW where \in {"first", "solve"}, at' = [at EXCEPT ![r] = where],
         active' = [active EXCEPT ![r] = p],
         NEW new \in SUBSET ({active[r]} \ {NoProxy}),
         failed' = [failed EXCEPT ![r] = @ \cup new]
  PROVE  IInv'
<1> USE ProxyAssumption DEF IInv
<1>1. PoolMoves /\ pin' = p /\ p \notin cooled' /\ (pin # NoProxy => pin \in Out')
  BY RotateMoves DEF Egress
<1>2. BetweenAttempts'
  BY DEF TypeOK, BetweenAttempts
<1>3. FailedAreOut'
  <2>1. new \subseteq Out'
    BY <1>1 DEF ActiveWasPinned, PoolMoves
  <2> QED BY <1>1, <2>1 DEF TypeOK, FailedAreOut, PoolMoves
<1>4. ActiveWasPinned'
  BY <1>1 DEF TypeOK, ActiveWasPinned, PoolMoves
<1>5. PagesMoveOn'
  BY DEF PagesMoveOn, pageVars
<1>6. \A s \in Requests : active'[s] \notin failed'[s]
  <2>1. active'[r] \notin failed'[r]
    BY <1>1, <1>3 DEF TypeOK, FailedAreOut, Out
  <2> QED BY <2>1 DEF TypeOK
<1> QED BY <1>2, <1>3, <1>4, <1>5, <1>6

-----------------------------------------------------------------------------
\* Nothing in flight has a proxy to remember.
LEMMA StartKeepsFailed ==
  ASSUME IInv, Starting, UNCHANGED cooled
  PROVE  /\ young' \subseteq Proxies
         /\ \A r \in Requests : failed[r] \subseteq Out' /\ (active[r] \in {NoProxy, pin} \cup Out')
<1>1. CASE InFlight = {}
  <2>1. \A r \in Requests : at[r] = "idle"
    BY <1>1 DEF InFlight
  <2> QED BY <1>1, <2>1 DEF IInv, BetweenAttempts, Starting
<1>2. CASE InFlight # {}
  BY <1>2 DEF IInv, TypeOK, Starting, Out, FailedAreOut, ActiveWasPinned
<1> QED BY <1>1, <1>2

LEMMA BeginKeeps == ASSUME IInv, NEW r \in Requests, Begin(r) PROVE IInv'
<1> USE RequestAssumption, ProxyAssumption DEF IInv, Begin
<1>1. PICK p \in Egress : GetOrAcquire(p) /\ outer' = [outer EXCEPT ![r] = p]
                          /\ active' = [active EXCEPT ![r] = p]
  BY DEF Egress
<1>2. UNCHANGED cooled /\ pin' = p /\ (pin' = pin \/ pin = NoProxy)
  BY <1>1 DEF GetOrAcquire
<1>3. /\ young' \subseteq Proxies
      /\ \A s \in Requests : failed[s] \subseteq Out' /\ active[s] \in {NoProxy, pin} \cup Out'
  BY <1>2, StartKeepsFailed DEF TypeOK, Out, FailedAreOut, ActiveWasPinned
<1>4. TypeOK'
  <2>1. attempt' \in [Requests -> 0..RetryAttempts]
    BY DEF TypeOK, BetweenAttempts
  <2> QED BY <1>1, <1>2, <1>3, <2>1 DEF TypeOK, PoolTypeOK, pageVars, Egress
<1>5. BetweenAttempts'
  BY DEF TypeOK, BetweenAttempts
<1>6. FailedAreOut' /\ ActiveWasPinned'
  BY <1>1, <1>2, <1>3 DEF TypeOK, FailedAreOut, ActiveWasPinned
<1>7. PagesMoveOn'
  BY DEF PagesMoveOn, pageVars
<1>8. \A s \in Requests : active'[s] \notin failed'[s]
  BY <1>1 DEF TypeOK, BetweenAttempts
<1> QED BY <1>4, <1>5, <1>6, <1>7, <1>8

LEMMA SolveKeeps ==
  ASSUME IInv, NEW r \in Requests, Challenged(r) \/ Cleared(r)
  PROVE  IInv'
<1> USE DEF IInv, Challenged, Cleared, poolVars, pageVars, historyVars
<1>1. TypeOK'
  BY DEF TypeOK, PoolTypeOK
<1>2. BetweenAttempts'
  BY DEF TypeOK, BetweenAttempts
<1> QED BY <1>1, <1>2 DEF FailedAreOut, ActiveWasPinned, Out, PagesMoveOn

LEMMA OriginBlockedKeeps == ASSUME IInv, NEW r \in Requests, OriginBlocked(r) PROVE IInv'
<1> USE ProxyAssumption
<1> DEFINE gone == IF Rotating(r) THEN blocked[r] ELSE {active[r]} \ {NoProxy}
           rotations == Cardinality(blocked[r] \ {outer[r]})
<1>1. UNCHANGED pageVars
  BY DEF OriginBlocked
<1>2. CASE rotations = MaxAttempts
  BY <1>1, <1>2, Unmoved, EndKeeps DEF OriginBlocked, IInv
<1>3. CASE rotations # MaxAttempts
  <2>1. Cooling({pin})
    BY <1>3 DEF OriginBlocked
  <2>2. PICK p \in Egress :
          /\ Rotate(gone, p)
          /\ IF p = NoProxy THEN End(r)
             ELSE /\ at' = [at EXCEPT ![r] = "solve"]
                  /\ active' = [active EXCEPT ![r] = p]
                  /\ blocked' = [blocked EXCEPT ![r] = gone \cup {p}]
                  /\ failed' = [failed EXCEPT ![r] = @ \cup ({active[r]} \ {NoProxy})]
                  /\ UNCHANGED <<attempt, outer, tried>>
    BY <1>3 DEF OriginBlocked, Egress
  <2>3. CASE p = NoProxy
    BY <1>1, <2>1, <2>2, <2>3, RotateMoves, EndKeeps DEF IInv
  <2>4. CASE p # NoProxy
    <3>1. PoolMoves
      BY <2>1, <2>2, RotateMoves DEF IInv
    <3>2. gone \subseteq Proxies /\ p \in Proxies
      BY <2>4 DEF IInv, TypeOK, Egress
    <3>3. TypeOK'
      <4> HIDE DEF gone
      <4> QED BY <1>1, <2>2, <2>4, <3>1, <3>2 DEF IInv, TypeOK, PoolMoves, pageVars, Egress
    <3> QED BY <1>1, <2>1, <2>2, <2>4, <3>2, <3>3, MoveKeeps
  <2> QED BY <2>3, <2>4
<1> QED BY <1>2, <1>3

\* The handler of a transport error, whatever it was told has failed.
LEMMA TransportKeeps ==
  ASSUME IInv, NEW r \in Requests, UNCHANGED pageVars, at[r] \notin {"idle", "backoff"},
         NEW broken \in SUBSET ({active[r]} \ {NoProxy}), OnTransportError(r, broken)
  PROVE  IInv'
<1> USE ProxyAssumption
<1> DEFINE gone == tried[r] \cup {outer[r]}
<1>1. CASE outer[r] = NoProxy \/ Cardinality(gone) >= MaxAttempts
  BY <1>1, Unmoved, RetryKeeps DEF OnTransportError, IInv
<1>2. CASE ~(outer[r] = NoProxy \/ Cardinality(gone) >= MaxAttempts)
  <2>1. Cooling({pin})
    BY <1>2 DEF OnTransportError
  <2>2. PICK p \in Egress :
          /\ Rotate(gone, p)
          /\ IF p = NoProxy THEN Retry(r)
             ELSE /\ at' = [at EXCEPT ![r] = "first"]
                  /\ outer' = [outer EXCEPT ![r] = p]
                  /\ active' = [active EXCEPT ![r] = p]
                  /\ tried' = [tried EXCEPT ![r] = gone]
                  /\ blocked' = [blocked EXCEPT ![r] = {}]
                  /\ failed' = [failed EXCEPT ![r] = @ \cup broken]
                  /\ UNCHANGED attempt
    BY <1>2 DEF OnTransportError, Egress
  <2>3. CASE p = NoProxy
    BY <2>1, <2>2, <2>3, RotateMoves, RetryKeeps DEF IInv
  <2>4. CASE p # NoProxy
    <3>1. PoolMoves
      BY <2>1, <2>2, RotateMoves DEF IInv
    <3>2. gone \subseteq Proxies /\ p \in Proxies
      BY <1>2, <2>4 DEF IInv, TypeOK, Egress
    <3>3. TypeOK'
      <4> HIDE DEF gone
      <4> QED BY <2>2, <2>4, <3>1, <3>2 DEF IInv, TypeOK, PoolMoves, pageVars, Egress
    <3> QED BY <2>1, <2>2, <2>4, <3>2, <3>3, MoveKeeps
  <2> QED BY <2>3, <2>4
<1> QED BY <1>1, <1>2

LEMMA RequestStepKeeps ==
  ASSUME IInv, NEW r \in Requests, RequestStep(r) \/ Cancelled(r)
  PROVE  IInv'
<1>1. CASE at[r] = "backoff" /\ Begin(r)
  BY <1>1, BeginKeeps
<1>2. CASE Answered(r) \/ Cancelled(r)
  BY <1>2, Unmoved, EndKeeps DEF Answered, Cancelled, IInv
<1>3. CASE ServerError(r)
  BY <1>3, Unmoved, RetryKeeps DEF ServerError, IInv
<1>4. CASE Challenged(r) \/ Cleared(r)
  BY <1>4, SolveKeeps
<1>5. CASE OriginBlocked(r)
  BY <1>5, OriginBlockedKeeps
<1>6. CASE Broken(r)
  BY <1>6, TransportKeeps DEF Broken, OnWire
<1>7. CASE SolveFails(r)
  <2>1. CASE (End(r) \/ Retry(r)) /\ UNCHANGED <<poolVars, young>>
    BY <1>7, <2>1, Unmoved, EndKeeps, RetryKeeps DEF SolveFails, IInv
  <2>2. CASE OnTransportError(r, {})
    BY <1>7, <2>2, TransportKeeps DEF SolveFails
  <2> QED BY <1>7, <2>1, <2>2 DEF SolveFails
<1> QED BY <1>1, <1>2, <1>3, <1>4, <1>5, <1>6, <1>7 DEF RequestStep

-----------------------------------------------------------------------------
\* A page drops its proxies, or moves to one that it has not tried.
LEMMA PickKeeps ==
  ASSUME IInv, NEW g \in Pages, NEW p \in Egress, Pick(g, p),
         p # NoProxy => p \notin pageTried[g] /\ picks[g] < MaxAttempts
  PROVE  /\ using' \in [Pages -> Egress]
         /\ pageTried' \in [Pages -> SUBSET Proxies] /\ picks' \in [Pages -> 0..MaxAttempts]
         /\ PagesMoveOn'
<1> USE RequestAssumption, ProxyAssumption DEF IInv, TypeOK, Pick, Egress
<1>1. /\ using' \in [Pages -> Egress]
      /\ pageTried' \in [Pages -> SUBSET Proxies] /\ picks' \in [Pages -> 0..MaxAttempts]
  OBVIOUS
<1>2. Cardinality(pageTried'[g]) = picks'[g]
  <2>1. CASE p = NoProxy
    BY <2>1, FS_EmptySet
  <2>2. CASE p # NoProxy
    <3>1. IsFiniteSet(pageTried[g])
      BY FS_Subset
    <3>2. Cardinality(pageTried[g] \cup {p}) = Cardinality(pageTried[g]) + 1
      BY <2>2, <3>1, FS_AddElement
    <3> QED BY <2>2, <3>2 DEF PagesMoveOn
  <2> QED BY <2>1, <2>2
<1>3. PagesMoveOn'
  BY <1>2 DEF PagesMoveOn
<1> QED BY <1>1, <1>3

\* The rest of the invariant is not about pages.
LEMMA CallsStay ==
  ASSUME IInv, UNCHANGED <<requestVars, failed, pin>>, TypeOK', PagesMoveOn',
         \A r \in Requests : failed[r] \subseteq Out' /\ active[r] \in {NoProxy, pin} \cup Out'
  PROVE  IInv'
BY DEF IInv, requestVars, BetweenAttempts, FailedAreOut, ActiveWasPinned

LEMMA PageBeginsKeeps == ASSUME IInv, NEW g \in Pages, PageBegins(g) PROVE IInv'
<1> USE RequestAssumption, ProxyAssumption DEF PageBegins, poolVars
<1>1. PICK p \in Candidates(sticky, {}, cooled, 0) : Pick(g, p)
  OBVIOUS
<1>2. pageTried[g] = {}
  BY FS_EmptySet, FS_Subset DEF IInv, TypeOK, PagesMoveOn
<1>3. p \in Egress
  BY <1>1 DEF IInv, TypeOK, Candidates, Acquired, Egress
<1>4. /\ using' \in [Pages -> Egress]
      /\ pageTried' \in [Pages -> SUBSET Proxies] /\ picks' \in [Pages -> 0..MaxAttempts]
      /\ PagesMoveOn'
  BY <1>1, <1>2, <1>3, PickKeeps
<1>5. /\ young' \subseteq Proxies
      /\ \A r \in Requests : failed[r] \subseteq Out' /\ active[r] \in {NoProxy, pin} \cup Out'
  BY StartKeepsFailed
<1>6. TypeOK'
  BY <1>4, <1>5 DEF IInv, TypeOK, PoolTypeOK, requestVars
<1> QED BY <1>4, <1>5, <1>6, CallsStay

LEMMA PageEndsKeeps ==
  ASSUME IInv, NEW g \in Pages, PageServed(g) \/ PageCancelled(g)
  PROVE  IInv'
<1> USE ProxyAssumption DEF PageServed, PageCancelled, poolVars, historyVars
<1>1. /\ using' \in [Pages -> Egress]
      /\ pageTried' \in [Pages -> SUBSET Proxies] /\ picks' \in [Pages -> 0..MaxAttempts]
      /\ PagesMoveOn'
  BY PickKeeps DEF Egress
<1>2. sticky' \in Egress
  BY DEF IInv, TypeOK
<1>3. TypeOK'
  BY <1>1, <1>2 DEF IInv, TypeOK, PoolTypeOK, requestVars
<1> QED BY <1>1, <1>3, CallsStay DEF IInv, Out, FailedAreOut, ActiveWasPinned

LEMMA PageFailsKeeps == ASSUME IInv, NEW g \in Pages, PageFails(g) PROVE IInv'
<1> USE RequestAssumption, ProxyAssumption DEF PageFails
<1>1. using[g] \in Proxies
  BY DEF IInv, TypeOK, PagesMoveOn, Egress
<1>2. /\ cooled' = cooled \cup {using[g]} /\ young' = young \cup {using[g]}
      /\ sticky' \in Egress
  BY <1>1 DEF IInv, TypeOK, MarkFailed, Cooling, Egress
<1>3. PICK p \in Candidates(sticky', pageTried[g], cooled', picks[g]) : Pick(g, p)
  OBVIOUS
<1>4. /\ p \in Egress
      /\ p # NoProxy => p \notin pageTried[g] /\ picks[g] < MaxAttempts
  BY <1>2, <1>3 DEF IInv, TypeOK, Candidates, Acquired, Egress
<1>5. /\ using' \in [Pages -> Egress]
      /\ pageTried' \in [Pages -> SUBSET Proxies] /\ picks' \in [Pages -> 0..MaxAttempts]
      /\ PagesMoveOn'
  BY <1>3, <1>4, PickKeeps
<1>6. TypeOK'
  BY <1>1, <1>2, <1>5 DEF IInv, TypeOK, PoolTypeOK, requestVars
<1>7. Out \subseteq Out'
  BY <1>2 DEF Out
<1> QED BY <1>5, <1>6, <1>7, CallsStay DEF IInv, FailedAreOut, ActiveWasPinned

LEMMA NextJobKeeps == ASSUME IInv, NextJob PROVE IInv'
<1> USE DEF NextJob, poolVars, historyVars
<1>1. TypeOK'
  BY DEF IInv, TypeOK, PoolTypeOK, requestVars, Egress
<1>2. PagesMoveOn'
  BY DEF IInv, PagesMoveOn
<1> QED BY <1>1, <1>2, CallsStay DEF IInv, Out, FailedAreOut, ActiveWasPinned

LEMMA WarmsKeeps == ASSUME IInv, NEW p \in Proxies, Warms(p) PROVE IInv'
<1> USE DEF Warms, Thaw, pageVars, historyVars
<1>1. TypeOK'
  BY DEF IInv, TypeOK, PoolTypeOK, requestVars
<1>2. PagesMoveOn'
  BY DEF IInv, PagesMoveOn
<1>3. \A r \in Requests : failed[r] \subseteq Out' /\ active[r] \in {NoProxy, pin} \cup Out'
  <2>1. CASE p \notin young
    <3>1. Out' = Out
      BY <2>1 DEF Out
    <3> QED BY <3>1 DEF IInv, FailedAreOut, ActiveWasPinned
  <2>2. CASE InFlight = {}
    <3>1. \A r \in Requests : at[r] = "idle"
      BY <2>2 DEF InFlight
    <3> QED BY <3>1 DEF IInv, BetweenAttempts
  <2> QED BY <2>1, <2>2
<1> QED BY <1>1, <1>2, <1>3, CallsStay

LEMMA IInvStep == IInv /\ [Next]_vars => IInv'
<1> SUFFICES ASSUME IInv, [Next]_vars PROVE IInv'
  OBVIOUS
<1>1. CASE \E r \in Requests : Begin(r) \/ RequestStep(r) \/ Cancelled(r)
  BY <1>1, BeginKeeps, RequestStepKeeps
<1>2. CASE \E g \in Pages : PageBegins(g) \/ PageStep(g) \/ PageCancelled(g)
  BY <1>2, PageBeginsKeeps, PageEndsKeeps, PageFailsKeeps DEF PageStep
<1>3. CASE NextJob
  BY <1>3, NextJobKeeps
<1>4. CASE \E p \in Proxies : Warms(p)
  BY <1>4, WarmsKeeps
<1>5. CASE UNCHANGED vars
  BY <1>5 DEF IInv, vars, poolVars, requestVars, pageVars, historyVars, TypeOK, PoolTypeOK,
     BetweenAttempts, FailedAreOut, ActiveWasPinned, Out, PagesMoveOn
<1> QED BY <1>1, <1>2, <1>3, <1>4, <1>5 DEF Next

\* The inductive invariant holds in every reachable state.
THEOREM Inductive == Spec => []IInv
  BY IInvInit, IInvStep, PTL DEF Spec

\* No attempt of a call and no page goes back to a proxy that failed it, whatever
\* the other calls and pages do to the pin, the pool and the sticky proxy
\* (SourceContext._request_response, _rotate_and_retry_origin_block,
\* fetch_image_via_pool).
THEOREM FailedProxiesStayBehind == Spec => []NoProxyTwice
<1>1. IInv => NoProxyTwice
  BY DEF IInv, PagesMoveOn, NoProxyTwice
<1> QED BY <1>1, Inductive, PTL
=============================================================================
