--------------------------- MODULE Sidecar_proofs ---------------------------
(* What TLAPS proves of the sidecar.  Of Sidecar, for any jobs, lanes,       *)
(* upstreams and restarts: a device is driven by one worker, although the    *)
(* lock of its lane is released while an orphan still drives; the hop that   *)
(* all lanes share serves its holder alone, mints for it and is left clean   *)
(* by it; no wait closes a circle.  Of PageDrive, for any operations and     *)
(* batches: what an operation does to the page of its device does not spoil  *)
(* what it or the next one finds.                                            *)
EXTENDS Sidecar, PageDrive, TLAPS

InExecutor(j) == pc[j] \notin {"none", "end"}
IsIn(s, j) == \E i \in 1..Len(s) : s[i] = j

Types ==
  /\ DOMAIN at = Jobs /\ DOMAIN pc = Jobs
  /\ job \in [Jobs -> Requests \cup {None}]
  /\ queue \in [Lanes -> Seq(Jobs)]

\* A pipeline is in the executor of its lane until it ends, whatever became of
\* its handler; the one that drives is the head.
ExecutorsHold ==
  \A j \in Jobs :
    /\ at[j] = "new" => pc[j] = "none"
    /\ InExecutor(j) => job[j] \in Requests /\ IsIn(queue[Lane(j)], j)
    /\ Driving(j) => Head(queue[Lane(j)]) = j

IInv == Types /\ ExecutorsHold

\* What is in an executor is in it once, for this lane, and has not ended.
QueuesHold ==
  \A l \in Lanes : \A i \in 1..Len(queue[l]) :
    /\ InExecutor(queue[l][i]) /\ Lane(queue[l][i]) = l
    /\ \A n \in 1..Len(queue[l]) : queue[l][n] = queue[l][i] => n = i

Owns(j)   == Proxied(j) /\ pc[j] \in InHop \cup {"unforward", "clear", "release"}
Routed(j) == Proxied(j) /\ pc[j] \in (InHop \ {"route"}) \cup {"unforward"}

\* The hop has at most one owner, whose upstream and lane it has been set to
\* from the repoint to the teardown.
HopHasOwner ==
  /\ hop.holder \in Jobs => Owns(hop.holder)
  /\ \A j \in Jobs :
       /\ pc[j] \in {"hop", "route", "verify", "clear", "release"} => Proxied(j)
       /\ Owns(j) => hop.holder = j
       /\ Routed(j) => hop.up = job[j].via /\ Lane(j) \in proxied

\* Only the lane of the owner goes through the hop, and none before its release.
HopIsClean ==
  ~leaked =>
    /\ hop.holder = None => proxied = {} /\ hop.up = None
    /\ \A j \in Jobs : Owns(j) =>
         /\ proxied \subseteq {Lane(j)}
         /\ pc[j] = "release" => proxied = {} /\ hop.up = None

Solves(j) == Proxied(j) /\ job[j].op = "solve"
Brings(j) == (out[j] = "ok" /\ at[j] # "gone") \/ at[j] = "200"

\* From the wipe of its device to its session, a solve has the WebView of its
\* lane to itself: no cookie, no session of another lane, no port that leads there.
Early == {"hop", "route", "open", "forward"}
MintsItsOwn(j) ==
  /\ at[j] = "new" => out[j] = "none"
  /\ at[j] = "200" => pc[j] = "end"
  /\ Solves(j) =>
       /\ pc[j] \in Early =>
            cookie[Lane(j)] = None /\ fwd # Lane(j) /\ \A k \in Jobs : page[k] # Lane(j)
       /\ pc[j] \in InSession => cookie[Lane(j)] \in {None, job[j].via}
       /\ ~leaked /\ pc[j] = "drive" => page[j] \in {None, Lane(j)}
       /\ ~leaked /\ Brings(j) => got[j] = job[j].via

Mints == cookie \in [Lanes -> Upstreams \cup {Direct, None}] /\ \A j \in Jobs : MintsItsOwn(j)

HopInv == QueuesHold /\ TypeOK /\ HopHasOwner /\ HopIsClean /\ Mints
SInv   == IInv /\ HopInv

LEMMA IInvInit == Init => IInv
BY DEF Init, IInv, Types, ExecutorsHold, InExecutor, Driving

LEMMA LaneIsLane == ASSUME NEW r \in Requests PROVE r.lane \in Lanes
BY DEF Requests

-----------------------------------------------------------------------------
\* The head leaves its executor, or stays and goes on.
LEMMA GoKeeps ==
  ASSUME IInv, NEW j \in Jobs, Driving(j) \/ Runnable(j), NEW to, NEW how, Go(j, to, how)
  PROVE  IInv'
<1> USE DEF IInv, Types, Go
<1> DEFINE l == Lane(j)
           q == queue[l]
<1>1. InExecutor(j)
  BY DEF Driving, Runnable, InExecutor
<1>2. job[j] \in Requests /\ l \in Lanes /\ q \in Seq(Jobs) /\ IsIn(q, j)
  BY <1>1, LaneIsLane DEF ExecutorsHold, Lane
<1>3. q # <<>> /\ Head(q) = j
  BY <1>2 DEF ExecutorsHold, Runnable, IsIn
<1>4. \A k \in Jobs : at'[k] = at[k]
  OBVIOUS
<1>5. CASE to = "end"
  <2>1. queue' = [queue EXCEPT ![l] = Tail(q)]
    BY <1>5
  <2>2. job' \in [Jobs -> Requests \cup {None}] /\ \A k \in Jobs \ {j} : job'[k] = job[k]
    BY DEF Forgotten
  <2>3. Types'
    BY <1>2, <1>3, <2>1, <2>2
  <2>4. pc'[j] = "end"
    BY <1>5
  <2>5. ASSUME NEW k \in Jobs, k # j
        PROVE  /\ at'[k] = "new" => pc'[k] = "none"
               /\ InExecutor(k)' => job'[k] \in Requests /\ IsIn(queue'[Lane(k)'], k)
               /\ Driving(k)' => Head(queue'[Lane(k)']) = k
    <3>1. pc'[k] = pc[k] /\ Lane(k)' = Lane(k)
      BY <2>2, <2>5 DEF Lane
    <3>2. at'[k] = "new" => pc'[k] = "none"
      BY <3>1 DEF ExecutorsHold
    <3>3. CASE ~InExecutor(k)
      BY <3>1, <3>2, <3>3 DEF InExecutor, Driving
    <3>4. CASE InExecutor(k) /\ Lane(k) # l
      <4>1. queue'[Lane(k)] = queue[Lane(k)]
        BY <2>1, <3>4, LaneIsLane DEF ExecutorsHold, Lane
      <4> QED BY <2>2, <2>5, <3>1, <3>2, <3>4, <4>1 DEF ExecutorsHold, InExecutor, Driving
    <3>5. CASE InExecutor(k) /\ Lane(k) = l
      <4>1. ~Driving(k)
        BY <1>3, <2>5, <3>5 DEF ExecutorsHold
      <4>2. PICK i \in 1..Len(q) : q[i] = k
        BY <3>5 DEF ExecutorsHold, IsIn
      <4>3. i # 1 /\ i \in Nat /\ Len(q) \in Nat
        BY <1>2, <1>3, <2>5, <4>2
      <4>4. i - 1 \in 1..Len(Tail(q)) /\ Tail(q)[i - 1] = k
        BY <1>2, <1>3, <4>2, <4>3
      <4>5. queue'[l] = Tail(q)
        BY <1>2, <2>1
      <4>6. IsIn(queue'[Lane(k)'], k)
        BY <3>1, <3>5, <4>4, <4>5 DEF IsIn
      <4>7. job'[k] \in Requests
        BY <2>2, <2>5, <3>5 DEF ExecutorsHold
      <4> QED BY <3>1, <3>2, <4>1, <4>6, <4>7 DEF Driving
    <3> QED BY <3>3, <3>4, <3>5
  <2>6. at'[j] # "new"
    BY <1>1, <1>4 DEF ExecutorsHold, InExecutor
  <2> QED BY <2>3, <2>4, <2>5, <2>6 DEF ExecutorsHold, InExecutor, Driving
<1>6. CASE to # "end"
  <2>1. UNCHANGED <<queue, job, at>> /\ pc' = [pc EXCEPT ![j] = to]
    BY <1>6
  <2>2. Types'
    BY <2>1
  <2>3. at[j] # "new"
    BY <1>1 DEF ExecutorsHold, InExecutor
  <2> QED BY <1>2, <1>3, <2>1, <2>2, <2>3 DEF ExecutorsHold, InExecutor, Driving, Lane
<1> QED BY <1>5, <1>6

\* Every step of a worker is one of a pipeline that drives or is about to.
LEMMA WorkKeeps == ASSUME IInv, NEW j \in Jobs, Works(j) PROVE IInv'
<1> USE DEF Proceed, Raise, MayCall, Driving
<1>1. CASE Start(j) \/ Clean(j) \/ TakeHop(j) \/ Route(j) \/ Open(j)
  <2>1. Driving(j) \/ Runnable(j)
    BY <1>1 DEF Start, Clean, TakeHop, Route, Open
  <2>2. \E to, how : Go(j, to, how)
    BY <1>1 DEF Start, Clean, TakeHop, Route, Open
  <2> QED BY <2>1, <2>2, GoKeeps
<1>2. CASE ForwardPort(j) \/ Attach(j) \/ Verify(j) \/ Succeed(j) \/ Fail(j) \/ Abort(j)
  <2>1. Driving(j) \/ Runnable(j)
    BY <1>2 DEF ForwardPort, Attach, Verify, Succeed, Fail, Abort, Cancelled, InHop, InSession
  <2>2. \E to, how : Go(j, to, how)
    BY <1>2 DEF ForwardPort, Attach, Verify, Succeed, Fail, Abort
  <2> QED BY <2>1, <2>2, GoKeeps
<1>3. CASE RemoveForward(j) \/ ClearRoute(j) \/ Release(j) \/ Reset(j)
  <2>1. Driving(j)
    BY <1>3 DEF RemoveForward, ClearRoute, Release, Reset
  <2>2. \E to, how : Go(j, to, how)
    BY <1>3 DEF RemoveForward, ClearRoute, Release, Reset
  <2> QED BY <2>1, <2>2, GoKeeps
<1> QED BY <1>1, <1>2, <1>3 DEF Works, Ends

-----------------------------------------------------------------------------
LEMMA AskKeeps == ASSUME IInv, NEW j \in Jobs, Ask(j) PROVE IInv'
<1> USE DEF IInv, Types, Ask
<1>1. PICK r \in Requests :
        IF Free(r.lane)
        THEN /\ job' = [job EXCEPT ![j] = r]
             /\ at' = [at EXCEPT ![j] = "run"]
             /\ pc' = [pc EXCEPT ![j] = "queued"]
             /\ queue' = [queue EXCEPT ![r.lane] = Append(@, j)]
        ELSE /\ at' = [at EXCEPT ![j] = "refused"]
             /\ UNCHANGED <<job, pc, queue>>
  OBVIOUS
<1>2. r.lane \in Lanes
  BY LaneIsLane
<1>3. CASE Free(r.lane)
  <2>1. Types'
    <3>1. Append(queue[r.lane], j) \in Seq(Jobs)
      BY <1>2
    <3>2. queue' \in [Lanes -> Seq(Jobs)]
      BY <1>1, <1>2, <1>3, <3>1
    <3>3. job' \in [Jobs -> Requests \cup {None}]
      BY <1>1, <1>3
    <3>4. DOMAIN at' = Jobs /\ DOMAIN pc' = Jobs
      BY <1>1, <1>3
    <3> QED BY <3>2, <3>3, <3>4
  <2>2. /\ queue'[r.lane] = Append(queue[r.lane], j)
        /\ \A l \in Lanes \ {r.lane} : queue'[l] = queue[l]
    BY <1>1, <1>2, <1>3
  <2>3. \A l \in Lanes, k \in Jobs :
          IsIn(queue[l], k) => IsIn(queue'[l], k) /\ Head(queue'[l]) = Head(queue[l])
    <3> SUFFICES ASSUME NEW l \in Lanes, NEW k \in Jobs, IsIn(queue[l], k)
                 PROVE  IsIn(queue'[l], k) /\ Head(queue'[l]) = Head(queue[l])
      OBVIOUS
    <3>1. CASE l # r.lane
      BY <2>2, <3>1
    <3>2. CASE l = r.lane
      <4>1. PICK i \in 1..Len(queue[l]) : queue[l][i] = k
        BY DEF IsIn
      <4>2. queue[l] \in Seq(Jobs) /\ Len(queue[l]) \in Nat /\ queue'[l] = Append(queue[l], j)
        BY <2>2, <3>2
      <4>3. i \in 1..Len(queue'[l]) /\ queue'[l][i] = k
        BY <4>1, <4>2
      <4>4. Head(queue'[l]) = Head(queue[l])
        BY <4>1, <4>2
      <4> QED BY <4>3, <4>4 DEF IsIn
    <3> QED BY <3>1, <3>2
  <2>4. IsIn(queue'[r.lane], j)
    <3>1. Len(queue[r.lane]) + 1 \in 1..Len(queue'[r.lane])
          /\ queue'[r.lane][Len(queue[r.lane]) + 1] = j
      BY <1>2, <2>2
    <3> QED BY <3>1 DEF IsIn
  <2>5. ASSUME NEW k \in Jobs, k # j
        PROVE  /\ at'[k] = "new" => pc'[k] = "none"
               /\ InExecutor(k)' => job'[k] \in Requests /\ IsIn(queue'[Lane(k)'], k)
               /\ Driving(k)' => Head(queue'[Lane(k)']) = k
    <3>1. at'[k] = at[k] /\ pc'[k] = pc[k] /\ job'[k] = job[k] /\ Lane(k)' = Lane(k)
      BY <1>1, <1>3, <2>5 DEF Lane
    <3>2. InExecutor(k) => Lane(k) \in Lanes
      BY LaneIsLane DEF ExecutorsHold, Lane
    <3> QED BY <2>3, <3>1, <3>2 DEF ExecutorsHold, InExecutor, Driving
  <2>6. at'[j] = "run" /\ pc'[j] = "queued" /\ job'[j] = r /\ Lane(j)' = r.lane
    BY <1>1, <1>3 DEF Lane
  <2> QED BY <2>1, <2>4, <2>5, <2>6 DEF ExecutorsHold, InExecutor, Driving
<1>4. CASE ~Free(r.lane)
  BY <1>1, <1>4 DEF ExecutorsHold, InExecutor, Driving, Lane
<1> QED BY <1>3, <1>4

\* The other steps of a handler touch a job only when its pipeline has ended.
LEMMA HandlerKeeps == ASSUME IInv, NEW j \in Jobs, Handler(j) PROVE IInv'
<1> USE DEF IInv, Types, ExecutorsHold, InExecutor, Driving, Lane, Forgotten
<1>1. CASE Refuse(j) \/ GiveUp(j)
  BY <1>1 DEF Refuse, GiveUp
<1>2. CASE Ask(j)
  BY <1>2, AskKeeps
<1>3. CASE Answer(j) \/ Drained(j)
  <2>1. UNCHANGED <<pc, queue>> /\ \A k \in Jobs : at'[k] = "new" => at[k] = "new"
    BY <1>3 DEF Answer, Drained
  <2>2. /\ DOMAIN at' = Jobs /\ job' \in [Jobs -> Requests \cup {None}]
        /\ \A k \in Jobs : pc[k] # "end" => job'[k] = job[k]
    BY <1>3 DEF Answer, Drained
  <2> QED BY <2>1, <2>2
<1> QED BY <1>1, <1>2, <1>3 DEF Handler

LEMMA RestartKeeps == ASSUME IInv, Restart PROVE IInv'
<1>1. Types'
  BY DEF IInv, Types, Restart
<1>2. \A j \in Jobs : pc'[j] \in {"none", "end"} /\ (at'[j] = "new" => pc'[j] = "none")
  BY DEF IInv, Types, ExecutorsHold, Restart
<1> QED BY <1>1, <1>2 DEF IInv, ExecutorsHold, InExecutor, Driving

LEMMA IInvStep == IInv /\ [Next]_vars => IInv'
<1> SUFFICES ASSUME IInv, [Next]_vars PROVE IInv'
  OBVIOUS
<1>1. ASSUME NEW j \in Jobs, Clear(j) PROVE IInv'
  BY <1>1 DEF Clear, service, IInv, Types, ExecutorsHold, InExecutor, Driving, Lane
<1>2. CASE UNCHANGED vars
  BY <1>2 DEF vars, service, IInv, Types, ExecutorsHold, InExecutor, Driving, Lane
<1> QED BY <1>1, <1>2, HandlerKeeps, WorkKeeps, RestartKeeps DEF Next

\* Whoever drives a device is the head of its executor.
THEOREM Inductive == Spec => []IInv
  BY IInvInit, IInvStep, PTL DEF Spec

\* A device is driven by one worker at a time, although the handler that gave up
\* releases the lock of the lane while its orphan still drives (_Worker,
\* _run_solve, _cancel_and_drain).
THEOREM DevicesHaveOneDriver == Spec => []OneDriverPerDevice
<1>1. IInv => OneDriverPerDevice
  BY DEF IInv, ExecutorsHold, OneDriverPerDevice
<1> QED BY <1>1, Inductive, PTL
-----------------------------------------------------------------------------
\* Where a pipeline goes from each point.
LEMMA NextPoint ==
  ASSUME NEW j \in Jobs, NEW how
  PROVE  /\ Finish(j, how) \in {"reset", "end"}
         /\ After(j, "queued", how)
              = IF job[j].op # "eval" THEN "clean" ELSE IF Proxied(j) THEN "hop" ELSE "open"
         /\ After(j, "clean", how) = IF Proxied(j) THEN "hop" ELSE "open"
         /\ After(j, "hop", how) = "route"
         /\ After(j, "route", how) = "open"
         /\ After(j, "open", how) = "forward"
         /\ After(j, "forward", how) = "attach"
         /\ After(j, "attach", how) = IF Proxied(j) THEN "verify" ELSE "drive"
         /\ After(j, "verify", how) = "drive"
         /\ After(j, "unforward", how) = IF Proxied(j) THEN "clear" ELSE Finish(j, how)
         /\ After(j, "clear", how) = "release"
         /\ After(j, "release", how) = Finish(j, how)
BY DEF After, Plan, Finish

LEMMA UnwindPoint ==
  ASSUME NEW j \in Jobs, NEW p, NEW how
  PROVE  /\ p \in InSession => Unwind(j, p, how) = "unforward"
         /\ p \in InHop \ InSession /\ Proxied(j) => Unwind(j, p, how) = "clear"
         /\ p \in InHop \ InSession /\ ~Proxied(j) => Unwind(j, p, how) \in {"reset", "end"}
         /\ p \notin InHop => Unwind(j, p, how) \in {"reset", "end"}
         /\ Unwind(j, p, how) \in {"unforward", "clear", "reset", "end"}
BY DEF Unwind, InHop, InSession, Finish

Outs == {"none", "ok", "failed", "cancelled"}

\* What a step of a pipeline does to the jobs.
LEMMA GoFacts ==
  ASSUME SInv, NEW j \in Jobs, NEW to, NEW how \in Outs, Go(j, to, how), InExecutor(j)
  PROVE  /\ job[j] \in Requests /\ job[j] # None /\ Lane(j) \in Lanes /\ at[j] # "new"
         /\ at' = at /\ pc'[j] = to
         /\ \A k \in Jobs \ {j} : pc'[k] = pc[k] /\ job'[k] = job[k] /\ out'[k] = out[k]
         /\ to # "end" => job'[j] = job[j] /\ out'[j] = how
         /\ out'[j] \in {how, "none"} /\ job'[j] \in {job[j], None}
         /\ job' \in [Jobs -> Requests \cup {None}] /\ out' \in [Jobs -> Outs]
<1> USE DEF SInv, HopInv, IInv, Types, TypeOK, Go, Outs
<1>1. job[j] \in Requests /\ at[j] # "new"
  BY DEF ExecutorsHold, InExecutor
<1>2. Lane(j) \in Lanes
  BY <1>1, LaneIsLane DEF Lane
<1>3. job[j] # None
  BY <1>1, SidecarAssumption
<1>4. job' \in [Jobs -> Requests \cup {None}] /\ \A k \in Jobs \ {j} : job'[k] = job[k]
  BY DEF Forgotten
<1>5. job'[j] \in {job[j], None} /\ (to # "end" => job'[j] = job[j])
  BY DEF Forgotten
<1>6. /\ out' \in [Jobs -> Outs] /\ \A k \in Jobs \ {j} : out'[k] = out[k]
      /\ out'[j] \in {how, "none"} /\ (to # "end" => out'[j] = how)
  OBVIOUS
<1>7. at' = at /\ pc'[j] = to /\ \A k \in Jobs \ {j} : pc'[k] = pc[k]
  OBVIOUS
<1> QED BY <1>1, <1>2, <1>3, <1>4, <1>5, <1>6, <1>7

-----------------------------------------------------------------------------
\* An executor loses its head when the pipeline ends, and nothing else.
LEMMA GoQueues ==
  ASSUME SInv, NEW j \in Jobs, Driving(j) \/ Runnable(j), NEW to, to # "none",
         NEW how \in Outs, Go(j, to, how)
  PROVE  QueuesHold'
<1> DEFINE l == Lane(j)
           q == queue[l]
<1>0. InExecutor(j)
  BY DEF Driving, Runnable, InExecutor
<1>1. l \in Lanes /\ q \in Seq(Jobs) /\ queue \in [Lanes -> Seq(Jobs)]
  BY <1>0, GoFacts DEF SInv, HopInv, IInv, Types
<1>2. q # <<>> /\ Head(q) = j
  BY <1>0, <1>1 DEF SInv, HopInv, IInv, ExecutorsHold, Runnable, IsIn
<1>3. \A k \in Jobs \ {j} : InExecutor(k)' = InExecutor(k) /\ Lane(k)' = Lane(k)
  BY <1>0, GoFacts DEF InExecutor, Lane
<1>4. CASE to # "end"
  <2>1. queue' = queue /\ \A k \in Jobs : Lane(k)' = Lane(k) /\ (InExecutor(k) => InExecutor(k)')
    BY <1>0, <1>3, <1>4, GoFacts DEF Go, InExecutor, Lane
  <2>2. \A m \in Lanes : \A i \in 1..Len(queue[m]) : queue[m][i] \in Jobs
    BY <1>1
  <2> QED BY <2>1, <2>2 DEF SInv, HopInv, QueuesHold
<1>5. CASE to = "end"
  <2>1. queue' = [queue EXCEPT ![l] = Tail(q)]
    BY <1>5 DEF Go
  <2>2. \A m \in Lanes \ {l} : queue'[m] = queue[m]
    BY <1>1, <2>1
  <2>3. queue'[l] = Tail(q)
    BY <1>1, <2>1
  <2>4. ASSUME NEW m \in Lanes, m # l, NEW i \in 1..Len(queue'[m])
        PROVE  /\ pc'[queue'[m][i]] \notin {"none", "end"} /\ job'[queue'[m][i]].lane = m
               /\ \A n \in 1..Len(queue'[m]) : queue'[m][n] = queue'[m][i] => n = i
    <3>1. queue'[m] = queue[m] /\ queue[m][i] \in Jobs
      BY <1>1, <2>2, <2>4
    <3>2. InExecutor(queue[m][i]) /\ Lane(queue[m][i]) = m /\ queue[m][i] # j
      BY <2>4, <3>1 DEF SInv, HopInv, QueuesHold
    <3>3. pc'[queue[m][i]] \notin {"none", "end"} /\ job'[queue[m][i]].lane = m
      BY <1>3, <3>1, <3>2 DEF InExecutor, Lane
    <3> QED BY <3>1, <3>3 DEF SInv, HopInv, QueuesHold
  <2>5. ASSUME NEW i \in 1..Len(queue'[l])
        PROVE  /\ pc'[queue'[l][i]] \notin {"none", "end"} /\ job'[queue'[l][i]].lane = l
               /\ \A n \in 1..Len(queue'[l]) : queue'[l][n] = queue'[l][i] => n = i
    <3>1. /\ Len(q) \in Nat /\ i + 1 \in 1..Len(q) /\ queue'[l][i] = q[i + 1]
          /\ q[i + 1] \in Jobs /\ 1 \in 1..Len(q) /\ q[1] = j
      BY <1>1, <1>2, <2>3
    <3>2. InExecutor(q[i + 1]) /\ Lane(q[i + 1]) = l /\ q[i + 1] # j
      <4>1. i + 1 # 1
        OBVIOUS
      <4> QED BY <1>1, <3>1, <4>1 DEF SInv, HopInv, QueuesHold
    <3>3. pc'[q[i + 1]] \notin {"none", "end"} /\ job'[q[i + 1]].lane = l
      BY <1>3, <3>1, <3>2 DEF InExecutor, Lane
    <3>4. ASSUME NEW n \in 1..Len(queue'[l]), queue'[l][n] = queue'[l][i] PROVE n = i
      <4>1. n + 1 \in 1..Len(q) /\ queue'[l][n] = q[n + 1]
        BY <1>1, <1>2, <2>3
      <4>2. \A x, y \in 1..Len(q) : q[x] = q[y] => x = y
        BY <1>1 DEF SInv, HopInv, QueuesHold
      <4>3. n + 1 = i + 1
        BY <3>1, <3>4, <4>1, <4>2
      <4> QED BY <4>3
    <3> QED BY <3>1, <3>3, <3>4
  <2> QED BY <2>4, <2>5 DEF QueuesHold, InExecutor, Lane
<1> QED BY <1>4, <1>5

\* The lanes of two pipelines that drive differ.
LEMMA OtherLane ==
  ASSUME SInv, NEW j \in Jobs, NEW k \in Jobs, j # k, Driving(j), Driving(k)
  PROVE  Lane(j) # Lane(k)
BY DEF SInv, HopInv, IInv, ExecutorsHold

\* A step that leaves the hop and the settings alone and neither takes the hop
\* nor leaves it.
LEMMA GoOnHop ==
  ASSUME SInv, NEW j \in Jobs, InExecutor(j), NEW to, NEW how \in Outs, Go(j, to, how),
         UNCHANGED route,
         to \in {"hop", "route", "verify", "clear", "release"} => Proxied(j),
         Proxied(j) => (to \in InHop \cup {"unforward", "clear", "release"} <=> Owns(j)),
         Proxied(j) /\ to \in (InHop \ {"route"}) \cup {"unforward"} => Routed(j),
         to # "release"
  PROVE  HopHasOwner' /\ HopIsClean'
<1> USE DEF SInv, HopInv, HopHasOwner, HopIsClean, Owns, Routed, Proxied, route, Lane
<1>1. \A k \in Jobs \ {j} : Owns(k)' = Owns(k) /\ Routed(k)' = Routed(k) /\ pc'[k] = pc[k]
                            /\ job'[k] = job[k]
  BY GoFacts
<1>2. /\ Owns(j)' <=> Owns(j)
      /\ Routed(j)' => Routed(j)
      /\ to # "end" => job'[j] = job[j]
      /\ pc'[j] = to
  BY GoFacts DEF InHop, InSession
<1>3. HopHasOwner'
  <2>1. hop' = hop /\ proxied' = proxied
    OBVIOUS
  <2>2. hop.holder \in Jobs => Owns(hop.holder)'
    BY <1>1, <1>2
  <2>3. ASSUME NEW k \in Jobs
        PROVE  /\ pc'[k] \in {"hop", "route", "verify", "clear", "release"} => Proxied(k)'
               /\ Owns(k)' => hop.holder = k
               /\ Routed(k)' => hop.up = job'[k].via /\ Lane(k)' \in proxied
    <3>1. CASE k # j
      BY <1>1, <3>1
    <3>2. CASE k = j
      BY <1>2, <3>2 DEF InHop, InSession
    <3> QED BY <3>1, <3>2
  <2> QED BY <2>1, <2>2, <2>3
<1>4. HopIsClean'
  <2>1. Owns(j)' => job'[j] = job[j]
    BY <1>2 DEF InHop, InSession
  <2> QED BY <1>1, <1>2, <2>1
<1> QED BY <1>3, <1>4

-----------------------------------------------------------------------------
\* A step that leaves the devices alone and brings nothing.
LEMMA GoMints ==
  ASSUME SInv, NEW j \in Jobs, InExecutor(j), NEW to, NEW how \in Outs, Go(j, to, how),
         UNCHANGED <<got, device>>, leaked => leaked',
         how = "ok" => out[j] = "ok",
         Solves(j) /\ to \in Early => pc[j] \in Early,
         Solves(j) /\ to \in InSession => pc[j] \in InSession \cup Early,
         Solves(j) /\ to = "drive" => leaked \/ page[j] \in {None, Lane(j)}
  PROVE  Mints'
<1> USE DEF SInv, HopInv, Mints, Solves, Proxied, Lane, Brings, device
<1>1. ASSUME NEW k \in Jobs, k # j PROVE MintsItsOwn(k)'
  BY <1>1, GoFacts DEF MintsItsOwn
<1>2. MintsItsOwn(j)'
  <2>1. at'[j] = at[j] /\ at[j] # "new" /\ pc'[j] = to
    BY GoFacts
  <2>2. at[j] # "200"
    BY DEF MintsItsOwn, InExecutor
  <2>3. CASE Solves(j)'
    <3>1. job'[j] = job[j] /\ Solves(j)
      BY <2>3, GoFacts
    <3>2. Brings(j)' => Brings(j)
      BY <2>1, <2>2, GoFacts
    <3>3. to \in Early => cookie[Lane(j)] = None /\ fwd # Lane(j) /\ \A k \in Jobs : page[k] # Lane(j)
      BY <3>1 DEF MintsItsOwn
    <3>4. to \in InSession => cookie[Lane(j)] \in {None, job[j].via}
      BY <3>1 DEF MintsItsOwn
    <3>5. ~leaked' /\ Brings(j)' => got[j] = job[j].via
      BY <3>1, <3>2 DEF MintsItsOwn
    <3> QED BY <2>1, <2>2, <3>1, <3>3, <3>4, <3>5 DEF MintsItsOwn
  <2> QED BY <2>1, <2>2, <2>3 DEF MintsItsOwn
<1> QED BY <1>1, <1>2

\* The outcome a pipeline carries, and the types of a step that leaves what it
\* brings, the hop and the settings in their types.
LEMMA GoTypes ==
  ASSUME SInv, NEW j \in Jobs, InExecutor(j), NEW to, NEW how \in Outs, Go(j, to, how),
         got' \in [Jobs -> Upstreams \cup {Direct, None}],
         page' \in [Jobs -> Lanes \cup {None}],
         hop' \in [holder : Jobs \cup {None}, up : Upstreams \cup {None}],
         proxied' \subseteq Lanes, fwd' \in Lanes \cup {None}
  PROVE  TypeOK'
BY GoFacts DEF TypeOK, SInv, HopInv, Outs

LEMMA OutIsOut == ASSUME SInv, NEW j \in Jobs PROVE out[j] \in Outs
BY DEF SInv, HopInv, TypeOK, Outs

\* force-stop and clear of a lane breaks nobody's promise.
LEMMA WipedMints ==
  ASSUME SInv, NEW j \in Jobs, InExecutor(j), NEW to, NEW how \in Outs, Go(j, to, how),
         got' = got, Wiped(Lane(j)), leaked => leaked',
         how = "ok" => out[j] = "ok", to \in {"hop", "open", "end"}
  PROVE  /\ Mints' /\ page' \in [Jobs -> Lanes \cup {None}] /\ fwd' \in Lanes \cup {None}
<1> USE DEF SInv, HopInv, Mints, Solves, Proxied, Lane, Brings
<1>1. /\ cookie' \in [Lanes -> Upstreams \cup {Direct, None}]
      /\ \A l \in Lanes : cookie'[l] \in {cookie[l], None}
      /\ cookie'[Lane(j)] = None
  BY GoFacts DEF Wiped
<1>2. /\ page' \in [Jobs -> Lanes \cup {None}]
      /\ \A k \in Jobs : page'[k] \in {page[k], None} /\ page'[k] # Lane(j)
  <2>1. None \notin Lanes /\ Lane(j) # None
    BY GoFacts, SidecarAssumption
  <2> QED BY <2>1 DEF Wiped, TypeOK
<1>3. fwd' \in Lanes \cup {None} /\ fwd' \in {fwd, None} /\ fwd' # Lane(j)
  <2>1. Lane(j) # None
    BY GoFacts, SidecarAssumption
  <2> QED BY <2>1 DEF Wiped, TypeOK
<1>4. \A k \in Jobs : Proxied(k) => Lane(k) \in Lanes /\ Lane(k) # None
  BY LaneIsLane, SidecarAssumption DEF TypeOK
<1>5. ASSUME NEW k \in Jobs, k # j PROVE MintsItsOwn(k)'
  BY <1>1, <1>2, <1>3, <1>4, <1>5, GoFacts DEF MintsItsOwn
<1>6. MintsItsOwn(j)'
  <2>1. at'[j] = at[j] /\ at[j] # "new" /\ pc'[j] = to /\ at[j] # "200"
    BY GoFacts DEF MintsItsOwn, InExecutor
  <2>2. CASE Solves(j)'
    <3>1. job'[j] = job[j] /\ Solves(j)
      BY <2>2, GoFacts
    <3>2. Brings(j)' => Brings(j)
      BY <2>1, GoFacts
    <3> QED BY <1>1, <1>2, <1>3, <2>1, <3>1, <3>2 DEF MintsItsOwn, Early, InSession
  <2> QED BY <2>1, <2>2 DEF MintsItsOwn
<1> QED BY <1>1, <1>2, <1>3, <1>5, <1>6

-----------------------------------------------------------------------------
\* A step that only moves on, out of no place it should not leave and into no
\* place it should not enter.
LEMMA QuietKeeps ==
  ASSUME SInv, NEW j \in Jobs, Driving(j) \/ Runnable(j), NEW to, NEW how \in Outs,
         Go(j, to, how), UNCHANGED <<got, device, route>>, to \notin {"none", "release"},
         to \in {"hop", "route", "verify", "clear"} => Proxied(j),
         Proxied(j) => (to \in InHop \cup {"unforward", "clear"} <=> Owns(j)),
         Proxied(j) /\ to \in (InHop \ {"route"}) \cup {"unforward"} => Routed(j),
         how = "ok" => out[j] = "ok",
         Solves(j) /\ to \in Early => pc[j] \in Early,
         Solves(j) /\ to \in InSession => pc[j] \in InSession \cup Early,
         Solves(j) /\ to = "drive" => leaked \/ page[j] \in {None, Lane(j)}
  PROVE  HopInv'
<1>1. InExecutor(j)
  BY DEF Driving, Runnable, InExecutor
<1>2. QueuesHold'
  BY GoQueues
<1>3. TypeOK'
  <2>1. /\ got' \in [Jobs -> Upstreams \cup {Direct, None}] /\ page' \in [Jobs -> Lanes \cup {None}]
        /\ hop' \in [holder : Jobs \cup {None}, up : Upstreams \cup {None}]
        /\ proxied' \subseteq Lanes /\ fwd' \in Lanes \cup {None}
    BY DEF SInv, HopInv, TypeOK, device, route
  <2> QED BY <1>1, <2>1, GoTypes
<1>4. HopHasOwner' /\ HopIsClean'
  BY <1>1, GoOnHop
<1>5. Mints'
  BY <1>1, GoMints DEF route
<1> QED BY <1>2, <1>3, <1>4, <1>5 DEF HopInv

-----------------------------------------------------------------------------
\* The worker, one action at a time.
LEMMA StartKeeps == ASSUME SInv, NEW j \in Jobs, Start(j) PROVE HopInv'
<1> DEFINE to == After(j, "queued", out[j])
<1>1. pc[j] = "queued" /\ Go(j, to, out[j]) /\ UNCHANGED <<got, device, route>> /\ Runnable(j)
  BY DEF Start, Proceed, Runnable
<1>2. /\ to \in {"clean", "hop", "open"} /\ (to = "hop" => Proxied(j))
      /\ (Proxied(j) => to # "open") /\ (Solves(j) => to = "clean")
  BY <1>1, NextPoint DEF Solves
<1> HIDE DEF to
<1> QED BY <1>1, <1>2, QuietKeeps, OutIsOut DEF Owns, InHop, InSession, Early

LEMMA OpenKeeps == ASSUME SInv, NEW j \in Jobs, Open(j) PROVE HopInv'
<1>1. pc[j] = "open" /\ Go(j, "forward", out[j]) /\ UNCHANGED <<got, device, route>>
  BY NextPoint DEF Open, Proceed, MayCall
<1>2. Driving(j)
  BY <1>1 DEF Driving
<1> QED BY <1>1, <1>2, QuietKeeps, OutIsOut DEF Owns, Routed, InHop, InSession, Early

\* What a verified page shows is the upstream of the job: it is the page of its
\* own lane, as no other goes through the hop.
LEMMA VerifyKeeps == ASSUME SInv, NEW j \in Jobs, Verify(j) PROVE HopInv'
<1>1. pc[j] = "verify" /\ Go(j, "drive", out[j]) /\ UNCHANGED <<got, device, route>>
  BY NextPoint DEF Verify, Proceed, MayCall
<1>2. Driving(j) /\ Proxied(j) /\ Owns(j)
  BY <1>1 DEF Driving, SInv, HopInv, HopHasOwner, Owns, InHop, InSession
<1>3. ~leaked => page[j] = Lane(j)
  <2>1. Egress(page[j]) = job[j].via /\ job[j].via # Direct
    BY <1>2 DEF Verify, EgressMatches, Proxied
  <2>2. page[j] \in proxied
    BY <2>1 DEF Egress
  <2> QED BY <1>2, <2>2 DEF SInv, HopInv, HopIsClean
<1> QED BY <1>1, <1>2, <1>3, QuietKeeps, OutIsOut DEF Owns, Routed, InHop, InSession, Early

\* An exception or a cancellation leaves by the finally clauses it has entered.
LEMMA LeaveKeeps == ASSUME SInv, NEW j \in Jobs, Fail(j) \/ Abort(j) PROVE HopInv'
<1>1. PICK h \in {"failed", "cancelled"} : Raise(j, h) /\ UNCHANGED <<got, device, route>>
  BY DEF Fail, Abort
<1> DEFINE to == Unwind(j, pc[j], h)
<1>2. Go(j, to, h) /\ h \in Outs /\ h # "ok"
  BY <1>1 DEF Raise, Outs
<1>3. /\ Driving(j) \/ Runnable(j)
      /\ pc[j] \in {"clean", "hop", "queued"} \cup InHop
  BY DEF Fail, Abort, Cancelled, InHop, InSession, Driving, Runnable
<1>4. /\ to \in {"unforward", "clear", "reset", "end"}
      /\ to = "clear" => Proxied(j)
      /\ Proxied(j) => (to \in {"unforward", "clear"} <=> pc[j] \in InHop)
      /\ to = "unforward" => pc[j] \in InSession
  BY <1>3, UnwindPoint DEF Unwind, InHop, InSession, Finish
<1> HIDE DEF to
<1>5. Proxied(j) => (to \in InHop \cup {"unforward", "clear"} <=> Owns(j))
  BY <1>3, <1>4 DEF Owns, InHop, InSession
<1>6. Proxied(j) /\ to \in (InHop \ {"route"}) \cup {"unforward"} => Routed(j)
  BY <1>4 DEF Routed, InHop, InSession
<1> QED BY <1>1, <1>2, <1>3, <1>4, <1>5, <1>6, QuietKeeps DEF Early, InSession

LEMMA CleanKeeps == ASSUME SInv, NEW j \in Jobs, Clean(j) PROVE HopInv'
<1> DEFINE to == IF Proxied(j) THEN "hop" ELSE "open"
<1>1. pc[j] = "clean" /\ Go(j, to, out[j]) /\ Wiped(Lane(j)) /\ UNCHANGED <<got, route>>
  BY NextPoint DEF Clean, Proceed, MayCall
<1>2. InExecutor(j) /\ Driving(j)
  BY <1>1 DEF InExecutor, Driving
<1>3. QueuesHold'
  BY <1>1, <1>2, GoQueues, OutIsOut
<1>4. Mints' /\ page' \in [Jobs -> Lanes \cup {None}] /\ fwd' \in Lanes \cup {None}
  BY <1>1, <1>2, WipedMints, OutIsOut DEF route
<1>5. TypeOK'
  <2>1. /\ got' \in [Jobs -> Upstreams \cup {Direct, None}] /\ proxied' \subseteq Lanes
        /\ hop' \in [holder : Jobs \cup {None}, up : Upstreams \cup {None}]
    BY <1>1 DEF SInv, HopInv, TypeOK, route
  <2> QED BY <1>1, <1>2, <1>4, <2>1, GoTypes, OutIsOut
<1>6. HopHasOwner' /\ HopIsClean'
  BY <1>1, <1>2, GoOnHop, OutIsOut DEF Owns, Routed, InHop, InSession
<1> QED BY <1>3, <1>4, <1>5, <1>6 DEF HopInv

\* The hop is free, so it has no owner; it is clean, so the lane of the taker
\* is the first that goes through it.
LEMMA TakeHopKeeps == ASSUME SInv, NEW j \in Jobs, TakeHop(j) PROVE HopInv'
<1>1. /\ pc[j] = "hop" /\ hop.holder = None /\ hop' = [hop EXCEPT !.holder = j]
      /\ Go(j, "route", out[j]) /\ UNCHANGED <<got, device, proxied, leaked>>
  BY NextPoint DEF TakeHop, Proceed, MayCall, HopFree
<1>2. InExecutor(j) /\ Driving(j) /\ Proxied(j)
  BY <1>1 DEF InExecutor, Driving, SInv, HopInv, HopHasOwner
<1>3. hop \in [holder : Jobs \cup {None}, up : Upstreams \cup {None}]
  BY DEF SInv, HopInv, TypeOK
<1>4. hop'.holder = j /\ hop'.up = hop.up
      /\ hop' \in [holder : Jobs \cup {None}, up : Upstreams \cup {None}]
  BY <1>1, <1>3
<1>5. QueuesHold'
  BY <1>1, <1>2, GoQueues, OutIsOut
<1>6. TypeOK'
  <2>1. /\ got' \in [Jobs -> Upstreams \cup {Direct, None}] /\ page' \in [Jobs -> Lanes \cup {None}]
        /\ proxied' \subseteq Lanes /\ fwd' \in Lanes \cup {None}
    BY <1>1 DEF SInv, HopInv, TypeOK, device
  <2> QED BY <1>1, <1>2, <1>4, <2>1, GoTypes, OutIsOut
<1>7. Mints'
  BY <1>1, <1>2, GoMints, OutIsOut DEF Early, InSession
<1>8. \A k \in Jobs : ~Owns(k)
  BY <1>1, SidecarAssumption DEF SInv, HopInv, HopHasOwner
<1>9. \A k \in Jobs \ {j} : job'[k] = job[k] /\ pc'[k] = pc[k]
  BY <1>1, <1>2, GoFacts, OutIsOut
<1>10. job'[j] = job[j] /\ pc'[j] = "route"
  BY <1>1, <1>2, GoFacts, OutIsOut
<1>11. \A k \in Jobs \ {j} : ~Owns(k)' /\ ~Routed(k)'
  BY <1>8, <1>9 DEF Owns, Routed, Proxied
<1>12. Owns(j)' /\ ~Routed(j)'
  BY <1>2, <1>10 DEF Owns, Routed, Proxied, InHop, InSession
<1>13. HopHasOwner'
  BY <1>2, <1>4, <1>9, <1>10, <1>11, <1>12 DEF HopHasOwner, SInv, HopInv, Proxied
<1>14. HopIsClean'
  BY <1>1, <1>4, <1>10, <1>11, SidecarAssumption DEF HopIsClean, SInv, HopInv
<1> QED BY <1>5, <1>6, <1>7, <1>13, <1>14 DEF HopInv

\* The only owner sets the hop to its upstream.
LEMMA RouteKeeps == ASSUME SInv, NEW j \in Jobs, Route(j) PROVE HopInv'
<1>1. /\ pc[j] = "route" /\ hop' = [hop EXCEPT !.up = job[j].via]
      /\ UNCHANGED <<got, device, leaked>>
  BY DEF Route, MayCall
<1>2. InExecutor(j) /\ Driving(j) /\ Proxied(j) /\ Owns(j)
  BY <1>1 DEF InExecutor, Driving, SInv, HopInv, HopHasOwner, Owns, InHop
<1>3. hop \in [holder : Jobs \cup {None}, up : Upstreams \cup {None}]
  BY DEF SInv, HopInv, TypeOK
<1>4. job[j] \in Requests /\ job[j].via \in Upstreams /\ Lane(j) \in Lanes
  BY <1>2, LaneIsLane DEF SInv, HopInv, TypeOK, Proxied, Requests, Lane
<1>5. hop'.up = job[j].via /\ hop'.holder = hop.holder
      /\ hop' \in [holder : Jobs \cup {None}, up : Upstreams \cup {None}]
  BY <1>1, <1>3, <1>4
<1>6. PICK to \in {"open", "clear"}, h \in Outs :
        /\ Go(j, to, h) /\ (h = "ok" => out[j] = "ok")
        /\ IF to = "open" THEN proxied' = proxied \cup {Lane(j)} ELSE proxied' = proxied
  <2>1. CASE proxied' = proxied \cup {Lane(j)} /\ Proceed(j)
    BY <1>1, <2>1, NextPoint, OutIsOut DEF Proceed
  <2>2. CASE proxied' = proxied /\ Raise(j, "failed")
    <3>1. Unwind(j, "route", "failed") = "clear"
      BY <1>2 DEF Unwind, InHop, InSession
    <3> QED BY <1>1, <2>2, <3>1 DEF Raise, Outs
  <2> QED BY <2>1, <2>2 DEF Route
<1>7. QueuesHold'
  BY <1>2, <1>6, GoQueues
<1>8. TypeOK'
  <2>1. /\ got' \in [Jobs -> Upstreams \cup {Direct, None}] /\ page' \in [Jobs -> Lanes \cup {None}]
        /\ proxied' \subseteq Lanes /\ fwd' \in Lanes \cup {None}
    BY <1>1, <1>4, <1>6 DEF SInv, HopInv, TypeOK, device
  <2> QED BY <1>2, <1>5, <1>6, <2>1, GoTypes
<1>9. Mints'
  BY <1>1, <1>2, <1>6, GoMints DEF Early, InSession
<1>10. \A k \in Jobs \ {j} : job'[k] = job[k] /\ pc'[k] = pc[k] /\ ~Owns(k)
  BY <1>2, <1>6, GoFacts DEF SInv, HopInv, HopHasOwner
<1>11. job'[j] = job[j] /\ pc'[j] = to
  BY <1>2, <1>6, GoFacts
<1>12. \A k \in Jobs \ {j} : ~Owns(k)' /\ ~Routed(k)'
  BY <1>10 DEF Owns, Routed, Proxied, InHop, InSession
<1>13. hop.holder = j
  BY <1>2 DEF SInv, HopInv, HopHasOwner
<1>14. HopHasOwner'
  BY <1>2, <1>5, <1>6, <1>10, <1>11, <1>12, <1>13
     DEF HopHasOwner, SInv, HopInv, Proxied, Owns, Routed, Lane, InHop, InSession
<1>15. HopIsClean'
  BY <1>1, <1>2, <1>5, <1>6, <1>11, <1>12, <1>13, SidecarAssumption
     DEF HopIsClean, SInv, HopInv, Lane, Proxied
<1> QED BY <1>7, <1>8, <1>9, <1>14, <1>15 DEF HopInv

\* The teardown leaves the hop clean, or a teardown has failed.
LEMMA ClearRouteKeeps == ASSUME SInv, NEW j \in Jobs, ClearRoute(j) PROVE HopInv'
<1>1. /\ pc[j] = "clear" /\ Go(j, "release", out[j]) /\ UNCHANGED <<got, device>>
      /\ proxied' \in {proxied \ {Lane(j)}, proxied}
      /\ hop' \in {[hop EXCEPT !.up = None], hop}
      /\ leaked' = (leaked \/ Lane(j) \in proxied' \/ hop'.up # None)
  BY NextPoint DEF ClearRoute, Proceed
<1>2. InExecutor(j) /\ Driving(j) /\ Proxied(j) /\ Owns(j)
  BY <1>1 DEF InExecutor, Driving, SInv, HopInv, HopHasOwner, Owns
<1>3. hop \in [holder : Jobs \cup {None}, up : Upstreams \cup {None}]
  BY DEF SInv, HopInv, TypeOK
<1>4. hop'.up \in {None, hop.up} /\ hop'.holder = hop.holder
      /\ hop' \in [holder : Jobs \cup {None}, up : Upstreams \cup {None}]
  BY <1>1, <1>3
<1>5. QueuesHold'
  BY <1>1, <1>2, GoQueues, OutIsOut
<1>6. TypeOK'
  <2>1. /\ got' \in [Jobs -> Upstreams \cup {Direct, None}] /\ page' \in [Jobs -> Lanes \cup {None}]
        /\ proxied' \subseteq Lanes /\ fwd' \in Lanes \cup {None}
    BY <1>1 DEF SInv, HopInv, TypeOK, device
  <2> QED BY <1>1, <1>2, <1>4, <2>1, GoTypes, OutIsOut
<1>7. Mints'
  BY <1>1, <1>2, GoMints, OutIsOut DEF Early, InSession
<1>8. \A k \in Jobs \ {j} : job'[k] = job[k] /\ pc'[k] = pc[k] /\ ~Owns(k)
  BY <1>1, <1>2, GoFacts, OutIsOut DEF SInv, HopInv, HopHasOwner
<1>9. job'[j] = job[j] /\ pc'[j] = "release"
  BY <1>1, <1>2, GoFacts, OutIsOut
<1>10. \A k \in Jobs \ {j} : ~Owns(k)' /\ ~Routed(k)'
  BY <1>8 DEF Owns, Routed, Proxied, InHop, InSession
<1>11. hop.holder = j
  BY <1>2 DEF SInv, HopInv, HopHasOwner
<1>12. HopHasOwner'
  BY <1>2, <1>4, <1>8, <1>9, <1>10, <1>11
     DEF HopHasOwner, SInv, HopInv, Proxied, Owns, Routed, Lane, InHop, InSession
<1>13. ~leaked' => proxied' = {} /\ hop'.up = None
  BY <1>1, <1>2 DEF SInv, HopInv, HopIsClean
<1>14. HopIsClean'
  BY <1>13 DEF HopIsClean
<1> QED BY <1>5, <1>6, <1>7, <1>12, <1>14 DEF HopInv

LEMMA ReleaseKeeps == ASSUME SInv, NEW j \in Jobs, Release(j) PROVE HopInv'
<1> DEFINE to == Finish(j, out[j])
<1>1. /\ pc[j] = "release" /\ Go(j, to, out[j]) /\ UNCHANGED <<got, device, proxied, leaked>>
      /\ hop' = [hop EXCEPT !.holder = None] /\ to \in {"reset", "end"}
  BY NextPoint DEF Release, Released, Proceed
<1> HIDE DEF to
<1>2. InExecutor(j) /\ Driving(j) /\ Proxied(j) /\ Owns(j)
  BY <1>1 DEF InExecutor, Driving, SInv, HopInv, HopHasOwner, Owns
<1>3. hop \in [holder : Jobs \cup {None}, up : Upstreams \cup {None}]
  BY DEF SInv, HopInv, TypeOK
<1>4. hop'.up = hop.up /\ hop'.holder = None
      /\ hop' \in [holder : Jobs \cup {None}, up : Upstreams \cup {None}]
  BY <1>1, <1>3
<1>5. QueuesHold'
  BY <1>1, <1>2, GoQueues, OutIsOut
<1>6. TypeOK'
  <2>1. /\ got' \in [Jobs -> Upstreams \cup {Direct, None}] /\ page' \in [Jobs -> Lanes \cup {None}]
        /\ proxied' \subseteq Lanes /\ fwd' \in Lanes \cup {None}
    BY <1>1 DEF SInv, HopInv, TypeOK, device
  <2> QED BY <1>1, <1>2, <1>4, <2>1, GoTypes, OutIsOut
<1>7. Mints'
  BY <1>1, <1>2, GoMints, OutIsOut DEF Early, InSession
<1>8. \A k \in Jobs \ {j} : job'[k] = job[k] /\ pc'[k] = pc[k] /\ ~Owns(k)
  BY <1>1, <1>2, GoFacts, OutIsOut DEF SInv, HopInv, HopHasOwner
<1>9. pc'[j] \in {"reset", "end"}
  BY <1>1, <1>2, GoFacts, OutIsOut
<1>10. \A k \in Jobs : ~Owns(k)' /\ ~Routed(k)'
  BY <1>8, <1>9 DEF Owns, Routed, Proxied, InHop, InSession
<1>11. HopHasOwner'
  BY <1>4, <1>8, <1>9, <1>10, SidecarAssumption DEF HopHasOwner, SInv, HopInv, Proxied
<1>12. HopIsClean'
  BY <1>1, <1>2, <1>4, <1>10 DEF HopIsClean, SInv, HopInv
<1> QED BY <1>5, <1>6, <1>7, <1>11, <1>12 DEF HopInv

-----------------------------------------------------------------------------
\* The steps at the port and the pages leave the hop alone.
LEMMA ForwardKeeps == ASSUME SInv, NEW j \in Jobs, ForwardPort(j) PROVE HopInv'
<1>1. /\ pc[j] = "forward" /\ Go(j, "attach", out[j]) /\ fwd' = Lane(j)
      /\ UNCHANGED <<got, page, cookie, route>>
  BY NextPoint DEF ForwardPort, Proceed, MayCall
<1>2. InExecutor(j) /\ Driving(j)
  BY <1>1 DEF InExecutor, Driving
<1>3. QueuesHold'
  BY <1>1, <1>2, GoQueues, OutIsOut
<1>4. TypeOK'
  <2>1. /\ got' \in [Jobs -> Upstreams \cup {Direct, None}] /\ page' \in [Jobs -> Lanes \cup {None}]
        /\ hop' \in [holder : Jobs \cup {None}, up : Upstreams \cup {None}]
        /\ proxied' \subseteq Lanes
    BY <1>1 DEF SInv, HopInv, TypeOK, route
  <2>2. fwd' \in Lanes \cup {None}
    BY <1>1, <1>2, GoFacts, OutIsOut
  <2> QED BY <1>1, <1>2, <2>1, <2>2, GoTypes, OutIsOut
<1>5. HopHasOwner' /\ HopIsClean'
  BY <1>1, <1>2, GoOnHop, OutIsOut DEF Owns, Routed, InHop, InSession
<1>6. Mints'
  <2>1. ASSUME NEW k \in Jobs, k # j PROVE MintsItsOwn(k)'
    <3>1. /\ at'[k] = at[k] /\ pc'[k] = pc[k] /\ job'[k] = job[k] /\ out'[k] = out[k]
          /\ got' = got /\ page' = page /\ cookie' = cookie /\ leaked' = leaked
      BY <1>1, <1>2, <2>1, GoFacts, OutIsOut DEF route
    <3>2. pc[k] \in Early => fwd' # Lane(k)
      BY <1>1, <1>2, <2>1, OtherLane DEF Early, Driving
    <3> QED BY <3>1, <3>2 DEF SInv, HopInv, Mints, MintsItsOwn, Solves, Proxied, Lane, Brings
  <2>2. MintsItsOwn(j)'
    <3>1. /\ at'[j] = at[j] /\ pc'[j] = "attach" /\ job'[j] = job[j] /\ out'[j] = out[j]
          /\ got' = got /\ cookie' = cookie /\ leaked' = leaked /\ at[j] # "new"
      BY <1>1, <1>2, GoFacts, OutIsOut DEF route
    <3> QED BY <1>1, <3>1 DEF SInv, HopInv, Mints, MintsItsOwn, Solves, Proxied, Lane, Brings, Early, InSession
  <2> QED BY <1>1, <2>1, <2>2 DEF SInv, HopInv, Mints
<1> QED BY <1>3, <1>4, <1>5, <1>6 DEF HopInv

LEMMA AttachKeeps == ASSUME SInv, NEW j \in Jobs, Attach(j) PROVE HopInv'
<1> DEFINE to == IF Proxied(j) THEN "verify" ELSE "drive"
<1>1. /\ pc[j] = "attach" /\ Go(j, to, out[j]) /\ page' = [page EXCEPT ![j] = fwd]
      /\ UNCHANGED <<got, fwd, cookie, route>>
  BY NextPoint DEF Attach, Proceed, MayCall
<1>2. InExecutor(j) /\ Driving(j)
  BY <1>1 DEF InExecutor, Driving
<1>3. QueuesHold'
  BY <1>1, <1>2, GoQueues, OutIsOut
<1>4. page' \in [Jobs -> Lanes \cup {None}] /\ page'[j] = fwd /\ \A k \in Jobs \ {j} : page'[k] = page[k]
  BY <1>1 DEF SInv, HopInv, TypeOK
<1>5. TypeOK'
  <2>1. /\ got' \in [Jobs -> Upstreams \cup {Direct, None}] /\ fwd' \in Lanes \cup {None}
        /\ hop' \in [holder : Jobs \cup {None}, up : Upstreams \cup {None}]
        /\ proxied' \subseteq Lanes
    BY <1>1 DEF SInv, HopInv, TypeOK, route
  <2> QED BY <1>1, <1>2, <1>4, <2>1, GoTypes, OutIsOut
<1>6. HopHasOwner' /\ HopIsClean'
  BY <1>1, <1>2, GoOnHop, OutIsOut DEF Owns, Routed, InHop, InSession
<1>7. Mints'
  <2>1. ASSUME NEW k \in Jobs, k # j PROVE MintsItsOwn(k)'
    <3>1. /\ at'[k] = at[k] /\ pc'[k] = pc[k] /\ job'[k] = job[k] /\ out'[k] = out[k]
          /\ got' = got /\ fwd' = fwd /\ cookie' = cookie /\ leaked' = leaked
      BY <1>1, <1>2, <2>1, GoFacts, OutIsOut DEF route
    <3> QED BY <1>4, <2>1, <3>1 DEF SInv, HopInv, Mints, MintsItsOwn, Solves, Proxied, Lane, Brings
  <2>2. MintsItsOwn(j)'
    <3>1. /\ at'[j] = at[j] /\ pc'[j] = to /\ job'[j] = job[j] /\ out'[j] = out[j]
          /\ got' = got /\ cookie' = cookie /\ leaked' = leaked /\ at[j] # "new"
      BY <1>1, <1>2, GoFacts, OutIsOut DEF route
    <3> QED BY <1>1, <3>1 DEF SInv, HopInv, Mints, MintsItsOwn, Solves, Proxied, Lane, Brings, Early, InSession
  <2> QED BY <1>1, <2>1, <2>2 DEF SInv, HopInv, Mints
<1> QED BY <1>3, <1>5, <1>6, <1>7 DEF HopInv

LEMMA RemoveForwardKeeps == ASSUME SInv, NEW j \in Jobs, RemoveForward(j) PROVE HopInv'
<1> DEFINE to == IF Proxied(j) THEN "clear" ELSE Finish(j, out[j])
<1>1. /\ pc[j] = "unforward" /\ Go(j, to, out[j]) /\ page' = [page EXCEPT ![j] = None]
      /\ fwd' = None /\ UNCHANGED <<got, cookie, route>>
  BY NextPoint DEF RemoveForward, Proceed
<1>2. InExecutor(j) /\ Driving(j)
  BY <1>1 DEF InExecutor, Driving
<1>3. to \in {"clear", "reset", "end"} /\ (to = "clear" <=> Proxied(j))
  BY NextPoint
<1> HIDE DEF to
<1>4. QueuesHold'
  BY <1>1, <1>2, <1>3, GoQueues, OutIsOut
<1>5. page' \in [Jobs -> Lanes \cup {None}] /\ \A k \in Jobs : page'[k] \in {page[k], None}
  BY <1>1 DEF SInv, HopInv, TypeOK
<1>6. TypeOK'
  <2>1. /\ got' \in [Jobs -> Upstreams \cup {Direct, None}] /\ fwd' \in Lanes \cup {None}
        /\ hop' \in [holder : Jobs \cup {None}, up : Upstreams \cup {None}]
        /\ proxied' \subseteq Lanes
    BY <1>1 DEF SInv, HopInv, TypeOK, route
  <2> QED BY <1>1, <1>2, <1>5, <2>1, GoTypes, OutIsOut
<1>7. HopHasOwner' /\ HopIsClean'
  BY <1>1, <1>2, <1>3, GoOnHop, OutIsOut DEF Owns, Routed, InHop, InSession
<1>8. Mints'
  <2>1. \A k \in Jobs : Proxied(k) => Lane(k) # None
    BY LaneIsLane, SidecarAssumption DEF SInv, HopInv, TypeOK, Proxied, Lane
  <2>2. ASSUME NEW k \in Jobs, k # j PROVE MintsItsOwn(k)'
    <3>1. /\ at'[k] = at[k] /\ pc'[k] = pc[k] /\ job'[k] = job[k] /\ out'[k] = out[k]
          /\ got' = got /\ cookie' = cookie /\ leaked' = leaked
      BY <1>1, <1>2, <2>2, GoFacts, OutIsOut DEF route
    <3> QED BY <1>1, <1>5, <2>1, <3>1 DEF SInv, HopInv, Mints, MintsItsOwn, Solves, Proxied, Lane, Brings
  <2>3. MintsItsOwn(j)'
    <3>1. /\ at'[j] = at[j] /\ pc'[j] = to /\ got' = got /\ leaked' = leaked
          /\ at[j] # "new" /\ job'[j] \in {job[j], None} /\ out'[j] \in {out[j], "none"}
      BY <1>1, <1>2, GoFacts, OutIsOut DEF route
    <3> QED BY <1>1, <1>3, <3>1 DEF SInv, HopInv, Mints, MintsItsOwn, Solves, Proxied, Lane, Brings, Early, InSession
  <2> QED BY <1>1, <2>2, <2>3 DEF SInv, HopInv, Mints
<1> QED BY <1>4, <1>6, <1>7, <1>8 DEF HopInv

LEMMA ResetKeeps == ASSUME SInv, NEW j \in Jobs, Reset(j) PROVE HopInv'
<1>1. pc[j] = "reset" /\ Go(j, "end", out[j]) /\ UNCHANGED <<got, route>>
  BY DEF Reset
<1>2. InExecutor(j) /\ Driving(j)
  BY <1>1 DEF InExecutor, Driving
<1>3. CASE UNCHANGED device
  BY <1>1, <1>2, <1>3, QuietKeeps, OutIsOut DEF Owns, InHop, InSession, Early
<1>4. CASE Wiped(Lane(j))
  <2>1. QueuesHold'
    BY <1>1, <1>2, GoQueues, OutIsOut
  <2>2. Mints' /\ page' \in [Jobs -> Lanes \cup {None}] /\ fwd' \in Lanes \cup {None}
    BY <1>1, <1>2, <1>4, WipedMints, OutIsOut DEF route
  <2>3. TypeOK'
    <3>1. /\ got' \in [Jobs -> Upstreams \cup {Direct, None}] /\ proxied' \subseteq Lanes
          /\ hop' \in [holder : Jobs \cup {None}, up : Upstreams \cup {None}]
      BY <1>1 DEF SInv, HopInv, TypeOK, route
    <3> QED BY <1>1, <1>2, <2>2, <3>1, GoTypes, OutIsOut
  <2>4. HopHasOwner' /\ HopIsClean'
    BY <1>1, <1>2, GoOnHop, OutIsOut DEF Owns, Routed, InHop, InSession
  <2> QED BY <2>1, <2>2, <2>3, <2>4 DEF HopInv
<1> QED BY <1>3, <1>4 DEF Reset

\* What a proxied solve extracts is on the page of its own lane.
LEMMA SucceedKeeps == ASSUME SInv, NEW j \in Jobs, Succeed(j) PROVE HopInv'
<1>1. /\ pc[j] = "drive" /\ page[j] # None /\ Go(j, "unforward", "ok")
      /\ job[j].op = "solve" => Extracted(j) # None
      /\ got' = [got EXCEPT ![j] = IF job[j].op = "solve" /\ at[j] # "gone" THEN Extracted(j) ELSE None]
      /\ UNCHANGED <<device, route>>
  BY DEF Succeed, MayCall
<1>2. InExecutor(j) /\ Driving(j) /\ "ok" \in Outs
  BY <1>1 DEF InExecutor, Driving, Outs
<1>3. QueuesHold'
  BY <1>1, <1>2, GoQueues
<1>4. got' \in [Jobs -> Upstreams \cup {Direct, None}]
  <2>1. page[j] \in Lanes
    BY <1>1 DEF SInv, HopInv, TypeOK
  <2>2. Extracted(j) \in Upstreams \cup {Direct, None}
    BY <2>1 DEF Extracted, SInv, HopInv, Mints
  <2> QED BY <1>1, <2>2 DEF SInv, HopInv, TypeOK
<1>5. TypeOK'
  <2>1. /\ page' \in [Jobs -> Lanes \cup {None}] /\ fwd' \in Lanes \cup {None}
        /\ hop' \in [holder : Jobs \cup {None}, up : Upstreams \cup {None}]
        /\ proxied' \subseteq Lanes
    BY <1>1 DEF SInv, HopInv, TypeOK, route, device
  <2> QED BY <1>1, <1>2, <1>4, <2>1, GoTypes
<1>6. HopHasOwner' /\ HopIsClean'
  BY <1>1, <1>2, GoOnHop DEF Owns, Routed, InHop, InSession
<1>7. Mints'
  <2>1. ASSUME NEW k \in Jobs, k # j PROVE MintsItsOwn(k)'
    <3>1. /\ at'[k] = at[k] /\ pc'[k] = pc[k] /\ job'[k] = job[k] /\ out'[k] = out[k]
          /\ got'[k] = got[k] /\ UNCHANGED <<device, leaked>>
      BY <1>1, <1>2, <2>1, GoFacts DEF route
    <3> QED BY <3>1 DEF SInv, HopInv, Mints, MintsItsOwn, Solves, Proxied, Lane, Brings, device
  <2>2. MintsItsOwn(j)'
    <3>1. /\ at'[j] = at[j] /\ pc'[j] = "unforward" /\ job'[j] = job[j] /\ UNCHANGED <<device, leaked>>
          /\ at[j] # "new" /\ at[j] # "200"
      BY <1>1, <1>2, GoFacts DEF route, SInv, HopInv, Mints, MintsItsOwn
    <3>2. Solves(j) /\ ~leaked /\ at[j] # "gone" => got'[j] = job[j].via
      <4> SUFFICES ASSUME Solves(j), ~leaked, at[j] # "gone" PROVE got'[j] = job[j].via
        OBVIOUS
      <4>1. got'[j] = Extracted(j) /\ Extracted(j) # None
        BY <1>1 DEF Solves, SInv, HopInv, TypeOK
      <4>2. page[j] = Lane(j) /\ cookie[Lane(j)] \in {None, job[j].via}
        BY <1>1 DEF SInv, HopInv, Mints, MintsItsOwn, InSession
      <4> QED BY <4>1, <4>2 DEF Extracted
    <3> QED BY <3>1, <3>2 DEF SInv, HopInv, MintsItsOwn, Solves, Proxied, Lane, Brings, Early, InSession
  <2> QED BY <1>1, <2>1, <2>2 DEF SInv, HopInv, Mints, device
<1> QED BY <1>3, <1>5, <1>6, <1>7 DEF HopInv

\* Whoever clears a challenge on the page of a lane, the cookie is minted over
\* the egress of that lane.
LEMMA ClearKeeps == ASSUME SInv, NEW j \in Jobs, Clear(j) PROVE HopInv'
<1>1. /\ page[j] \in Lanes /\ cookie' = [cookie EXCEPT ![page[j]] = Egress(page[j])]
      /\ UNCHANGED <<job, at, queue, pc, out, got, page, fwd, hop, proxied, leaked>>
  BY DEF Clear, MayCall, service, route, SInv, HopInv, TypeOK
<1>2. QueuesHold' /\ TypeOK' /\ HopHasOwner' /\ HopIsClean'
  BY <1>1 DEF SInv, HopInv, QueuesHold, InExecutor, Lane, TypeOK, HopHasOwner, HopIsClean, Owns, Routed, Proxied
<1>3. Egress(page[j]) \in Upstreams \cup {Direct, None}
  BY DEF Egress, SInv, HopInv, TypeOK
<1>4. cookie' \in [Lanes -> Upstreams \cup {Direct, None}]
  BY <1>1, <1>3 DEF SInv, HopInv, Mints
<1>5. ASSUME NEW k \in Jobs PROVE MintsItsOwn(k)'
  <2>1. CASE Solves(k) /\ Lane(k) = page[j]
    <3>1. pc[k] \notin Early
      BY <2>1 DEF SInv, HopInv, Mints, MintsItsOwn
    <3>2. cookie'[Lane(k)] = Egress(Lane(k))
      BY <1>1, <2>1 DEF SInv, HopInv, Mints
    <3>3. pc[k] \in InSession => Egress(Lane(k)) = job[k].via
      <4>1. pc[k] \in InSession => Routed(k) /\ job[k].via \in Upstreams
        BY <2>1 DEF Routed, Solves, Proxied, InHop, InSession, SInv, HopInv, TypeOK, Requests
      <4> QED BY <4>1, SidecarAssumption DEF SInv, HopInv, HopHasOwner, Egress
    <3> QED BY <1>1, <3>1, <3>2, <3>3 DEF SInv, HopInv, Mints, MintsItsOwn, Solves, Proxied, Lane, Brings
  <2>2. CASE Solves(k) /\ Lane(k) # page[j]
    <3>1. Lane(k) \in Lanes
      BY <2>2, LaneIsLane DEF Solves, Proxied, Lane, SInv, HopInv, TypeOK
    <3>2. cookie'[Lane(k)] = cookie[Lane(k)]
      BY <1>1, <2>2, <3>1 DEF SInv, HopInv, Mints
    <3> QED BY <1>1, <3>2 DEF SInv, HopInv, Mints, MintsItsOwn, Solves, Proxied, Lane, Brings
  <2>3. CASE ~Solves(k)
    BY <1>1, <2>3 DEF SInv, HopInv, Mints, MintsItsOwn, Solves, Proxied
  <2> QED BY <2>1, <2>2, <2>3
<1> QED BY <1>2, <1>4, <1>5 DEF HopInv, Mints

-----------------------------------------------------------------------------
\* The handlers.  A new job enters an executor it is not in yet.
LEMMA AskQueues == ASSUME SInv, NEW j \in Jobs, Ask(j) PROVE QueuesHold'
<1> USE DEF SInv, HopInv, IInv, Types
<1>1. PICK r \in Requests :
        IF Free(r.lane)
        THEN /\ job' = [job EXCEPT ![j] = r]
             /\ pc' = [pc EXCEPT ![j] = "queued"]
             /\ queue' = [queue EXCEPT ![r.lane] = Append(@, j)]
        ELSE UNCHANGED <<job, pc, queue>>
  BY DEF Ask
<1>2. CASE ~Free(r.lane)
  BY <1>1, <1>2 DEF QueuesHold, InExecutor, Lane
<1>3. CASE Free(r.lane)
  <2> DEFINE l == r.lane
             q == queue[l]
  <2>1. l \in Lanes /\ q \in Seq(Jobs)
    BY LaneIsLane
  <2>2. queue'[l] = Append(q, j) /\ \A m \in Lanes \ {l} : queue'[m] = queue[m]
    BY <1>1, <1>3, <2>1
  <2>3. pc[j] = "none"
    BY DEF Ask, ExecutorsHold
  <2>8. /\ Len(q) \in Nat /\ Len(queue'[l]) = Len(q) + 1 /\ queue'[l][Len(q) + 1] = j
        /\ \A n \in 1..Len(q) : queue'[l][n] = q[n]
    BY <2>1, <2>2
  <2>4. pc'[j] = "queued" /\ job'[j] = r
    BY <1>1, <1>3
  <2>5. \A k \in Jobs \ {j} : pc'[k] = pc[k] /\ job'[k] = job[k]
    BY <1>1, <1>3
  <2>6. \A m \in Lanes : \A i \in 1..Len(queue[m]) : queue[m][i] \in Jobs \ {j}
    BY <2>3 DEF QueuesHold, InExecutor
  <2>7. ASSUME NEW m \in Lanes, NEW i \in 1..Len(queue'[m])
        PROVE  /\ pc'[queue'[m][i]] \notin {"none", "end"} /\ job'[queue'[m][i]].lane = m
               /\ \A n \in 1..Len(queue'[m]) : queue'[m][n] = queue'[m][i] => n = i
    <3>1. CASE m # l
      BY <2>2, <2>5, <2>6, <3>1 DEF QueuesHold, InExecutor, Lane
    <3>2. CASE m = l /\ i \in 1..Len(q)
      <4>1. queue'[m][i] = q[i] /\ q[i] \in Jobs \ {j}
        BY <2>1, <2>6, <2>8, <3>2
      <4>2. \A n \in 1..Len(queue'[m]) : queue'[m][n] = queue'[m][i] => n \in 1..Len(q) /\ queue'[m][n] = q[n]
        BY <2>8, <3>2, <4>1
      <4> QED BY <2>1, <2>5, <3>2, <4>1, <4>2 DEF QueuesHold, InExecutor, Lane
    <3>3. CASE m = l /\ i \notin 1..Len(q)
      <4>1. i = Len(q) + 1 /\ queue'[m][i] = j
        BY <2>8, <3>3
      <4>2. \A n \in 1..Len(queue'[m]) : n # i => queue'[m][n] \in Jobs \ {j}
        <5>1. \A n \in 1..Len(queue'[m]) : n # i => n \in 1..Len(q)
          BY <2>8, <3>3, <4>1
        <5> QED BY <2>1, <2>6, <2>8, <3>3, <5>1
      <4> QED BY <2>4, <3>3, <4>1, <4>2
    <3> QED BY <3>1, <3>2, <3>3
  <2> QED BY <2>7 DEF QueuesHold, InExecutor, Lane
<1> QED BY <1>2, <1>3

\* It neither owns the hop nor brings anything yet.
LEMMA AskKeepsHop == ASSUME SInv, NEW j \in Jobs, Ask(j) PROVE HopInv'
<1> USE DEF SInv, HopInv
<1>1. /\ at[j] = "new" /\ pc[j] = "none" /\ out[j] = "none"
      /\ UNCHANGED <<out, got, page, fwd, cookie, hop, proxied, leaked>>
  BY DEF Ask, device, route, IInv, ExecutorsHold, Mints, MintsItsOwn
<1>2. /\ \A k \in Jobs \ {j} : pc'[k] = pc[k] /\ job'[k] = job[k] /\ at'[k] = at[k]
      /\ pc'[j] \in {"queued", "none"} /\ at'[j] \in {"run", "refused"}
      /\ job' \in [Jobs -> Requests \cup {None}]
      /\ at' \in [Jobs -> {"new", "run", "drain"} \cup Answers]
  <2>1. /\ at' \in [Jobs -> {"new", "run", "drain"} \cup Answers] /\ at'[j] \in {"run", "refused"}
        /\ \A k \in Jobs \ {j} : at'[k] = at[k]
    BY DEF Ask, TypeOK, Answers
  <2>2. /\ job' \in [Jobs -> Requests \cup {None}]
        /\ \A k \in Jobs \ {j} : job'[k] = job[k]
    BY DEF Ask, TypeOK
  <2>3. pc'[j] \in {"queued", "none"} /\ \A k \in Jobs \ {j} : pc'[k] = pc[k]
    BY <1>1 DEF Ask, IInv, Types
  <2> QED BY <2>1, <2>2, <2>3
<1>3. TypeOK'
  BY <1>1, <1>2 DEF TypeOK
<1>4. \A k \in Jobs : (Owns(k)' <=> Owns(k)) /\ (Routed(k)' <=> Routed(k)) /\ (Owns(k) => job'[k] = job[k])
  BY <1>1, <1>2 DEF Owns, Routed, Proxied, InHop, InSession
<1>5. HopHasOwner'
  BY <1>1, <1>2, <1>4 DEF HopHasOwner, Proxied, Lane, Owns, Routed, InHop, InSession
<1>6. HopIsClean'
  BY <1>1, <1>2, <1>4 DEF HopIsClean, Lane, Owns, InHop, InSession
<1>7. ASSUME NEW k \in Jobs PROVE MintsItsOwn(k)'
  <2>1. CASE k = j
    BY <1>1, <1>2, <2>1 DEF Mints, MintsItsOwn, Brings, Early, InSession
  <2>2. CASE k # j
    BY <1>1, <1>2, <2>2 DEF Mints, MintsItsOwn, Brings, Solves, Proxied, Lane
  <2> QED BY <2>1, <2>2
<1> QED BY <1>1, <1>3, <1>5, <1>6, <1>7, AskQueues DEF Mints

\* The other steps of a handler leave the pipelines alone.
LEMMA HandlerKeepsHop == ASSUME SInv, NEW j \in Jobs, Handler(j) PROVE HopInv'
<1> USE DEF SInv, HopInv
<1>1. CASE Ask(j)
  BY <1>1, AskKeepsHop
<1>2. CASE Refuse(j) \/ GiveUp(j) \/ Answer(j) \/ Drained(j)
  <2>1. /\ UNCHANGED <<queue, pc, page, fwd, cookie, hop, proxied, leaked>>
        /\ \A k \in Jobs \ {j} : job'[k] = job[k] /\ at'[k] = at[k] /\ out'[k] = out[k] /\ got'[k] = got[k]
    <3>1. CASE Refuse(j) \/ GiveUp(j)
      BY <3>1 DEF Refuse, GiveUp, device, route, TypeOK
    <3>2. CASE Answer(j)
      BY <3>2 DEF Answer, Forgotten, device, route, TypeOK
    <3>3. CASE Drained(j)
      <4>1. UNCHANGED <<queue, pc, page, fwd, cookie, hop, proxied, leaked>>
            /\ at' = [at EXCEPT ![j] = "gone"]
        BY <3>3 DEF Drained, device, route
      <4>2. \/ UNCHANGED <<job, out, got>>
            \/ job' = Forgotten(j) /\ out' = [out EXCEPT ![j] = "none"] /\ got' = [got EXCEPT ![j] = None]
        BY <3>3 DEF Drained
      <4>3. \A k \in Jobs \ {j} : job'[k] = job[k] /\ out'[k] = out[k] /\ got'[k] = got[k]
        BY <4>2 DEF Forgotten, TypeOK
      <4> QED BY <4>1, <4>3 DEF TypeOK
    <3> QED BY <1>2, <3>1, <3>2, <3>3
  <2>2. /\ job'[j] \in {job[j], None} /\ (pc[j] # "end" => job'[j] = job[j])
        /\ at'[j] \in {"refused", "drain", "gone", "200", "failed"} /\ at[j] \in {"new", "run", "drain"}
        /\ at'[j] = "200" => pc[j] = "end" /\ at[j] = "run" /\ out[j] = "ok" /\ job'[j] = job[j] /\ got'[j] = got[j]
        /\ at'[j] = "drain" => at[j] = "run" /\ out'[j] = out[j] /\ got'[j] = got[j]
        /\ at'[j] \in {"refused", "failed"} => out'[j] = "none"
    BY <1>2 DEF Refuse, GiveUp, Answer, Drained, Forgotten, TypeOK, Mints, MintsItsOwn, IInv, Types
  <2>3. TypeOK'
    <3>1. /\ job' \in [Jobs -> Requests \cup {None}]
          /\ at' \in [Jobs -> {"new", "run", "drain"} \cup Answers]
      BY <1>2 DEF Refuse, GiveUp, Answer, Drained, Forgotten, TypeOK, Answers
    <3>2. /\ out' \in [Jobs -> {"none", "ok", "failed", "cancelled"}]
          /\ got' \in [Jobs -> Upstreams \cup {Direct, None}]
      BY <1>2 DEF Refuse, GiveUp, Answer, Drained, TypeOK
    <3> QED BY <2>1, <3>1, <3>2 DEF TypeOK
  <2>4. \A k \in Jobs : pc[k] \notin {"none", "end"} => job'[k] = job[k]
    BY <2>1, <2>2
  <2>5. QueuesHold'
    <3>1. \A l \in Lanes : \A i \in 1..Len(queue[l]) : queue[l][i] \in Jobs
      BY DEF IInv, Types
    <3> QED BY <2>1, <2>4, <3>1 DEF QueuesHold, InExecutor, Lane
  <2>6. \A k \in Jobs : (Owns(k)' <=> Owns(k)) /\ (Routed(k)' <=> Routed(k)) /\ (Owns(k) => job'[k] = job[k])
    BY <2>1, <2>4 DEF Owns, Routed, Proxied, InHop, InSession
  <2>7. HopHasOwner' /\ HopIsClean'
    BY <2>1, <2>4, <2>6 DEF HopHasOwner, HopIsClean, Proxied, Lane, Owns, Routed, InHop, InSession
  <2>8. ASSUME NEW k \in Jobs PROVE MintsItsOwn(k)'
    <3>1. CASE k # j
      BY <2>1, <3>1 DEF Mints, MintsItsOwn, Brings, Solves, Proxied, Lane
    <3>2. CASE k = j
      <4>1. Solves(j)' => Solves(j) /\ job'[j] = job[j]
        BY <2>2 DEF Solves, Proxied
      <4>2. Solves(j)' /\ Brings(j)' => Brings(j) /\ got'[j] = got[j]
        BY <2>2 DEF Brings
      <4> QED BY <2>1, <2>2, <3>2, <4>1, <4>2 DEF Mints, MintsItsOwn, Lane
    <3> QED BY <3>1, <3>2
  <2> QED BY <2>1, <2>3, <2>5, <2>7, <2>8 DEF Mints
<1> QED BY <1>1, <1>2 DEF Handler

\* A boot forgets every job; the settings of the devices survive it.
LEMMA RestartKeepsHop == ASSUME SInv, Restart PROVE HopInv'
<1> USE DEF SInv, HopInv
<1>1. /\ \A j \in Jobs : job'[j] = None /\ pc'[j] \in {"none", "end"} /\ out'[j] = "none"
      /\ \A j \in Jobs : at'[j] = "new" <=> at[j] = "new"
      /\ \A j \in Jobs : at'[j] = "200" => pc'[j] = "end"
      /\ hop'.holder = None /\ hop'.up = None /\ cookie' = cookie
      /\ leaked' = (proxied' # {})
  BY DEF Restart, TypeOK, Mints, MintsItsOwn
<1>2. QueuesHold'
  BY DEF Restart, QueuesHold
<1>3. TypeOK'
  <2>1. job' \in [Jobs -> Requests \cup {None}] /\ at' \in [Jobs -> {"new", "run", "drain"} \cup Answers]
    BY DEF Restart, TypeOK, Answers
  <2>2. hop' \in [holder : Jobs \cup {None}, up : Upstreams \cup {None}]
    BY DEF Restart
  <2> QED BY <2>1, <2>2 DEF Restart, TypeOK
<1>4. HopHasOwner' /\ HopIsClean'
  BY <1>1, SidecarAssumption DEF HopHasOwner, HopIsClean, Owns, Routed, Proxied
<1>5. Mints'
  BY <1>1 DEF Mints, MintsItsOwn, Solves, Proxied
<1> QED BY <1>2, <1>3, <1>4, <1>5

LEMMA SInvInit == Init => SInv
<1> SUFFICES ASSUME Init PROVE HopInv
  BY IInvInit DEF SInv
<1>1. TypeOK
  BY DEF Init, TypeOK, Answers
<1>2. HopHasOwner /\ HopIsClean
  BY SidecarAssumption DEF Init, HopHasOwner, HopIsClean, Owns, Routed, Proxied
<1> QED BY <1>1, <1>2 DEF Init, HopInv, QueuesHold, Mints, MintsItsOwn, Solves, Proxied

LEMMA SInvStep == SInv /\ [Next]_vars => SInv'
<1> SUFFICES ASSUME SInv, [Next]_vars PROVE HopInv'
  BY IInvStep DEF SInv
<1>1. ASSUME NEW j \in Jobs, Works(j) PROVE HopInv'
  BY <1>1, StartKeeps, CleanKeeps, TakeHopKeeps, RouteKeeps, OpenKeeps, ForwardKeeps, AttachKeeps,
     VerifyKeeps, SucceedKeeps, LeaveKeeps, RemoveForwardKeeps, ClearRouteKeeps, ReleaseKeeps,
     ResetKeeps DEF Works, Ends
<1>2. CASE UNCHANGED vars
  <2> USE <1>2 DEF vars, service, device, route, SInv, HopInv
  <2>1. QueuesHold' /\ TypeOK'
    BY DEF QueuesHold, InExecutor, Lane, TypeOK
  <2>2. HopHasOwner' /\ HopIsClean'
    BY DEF HopHasOwner, HopIsClean, Owns, Routed, Proxied, Lane
  <2>3. Mints'
    BY DEF Mints, MintsItsOwn, Solves, Proxied, Brings, Lane
  <2> QED BY <2>1, <2>2, <2>3
<1> QED BY <1>1, <1>2, ClearKeeps, HandlerKeepsHop, RestartKeepsHop DEF Next

\* The same, with the hop, the devices and the outcomes.
THEOREM HopInductive == Spec => []SInv
  BY SInvInit, SInvStep, PTL DEF Spec

\* The hop shared by all the lanes is the holder's own from its repoint to its
\* teardown, what a proxied solve returns was minted over its own upstream
\* although an orphan of another lane may attach to its page, and the devices
\* go direct when nobody holds it (_hold_hop_lock, _solve,
\* _clear_proxy_quietly).
THEOREM HopServesItsHolder == Spec => []HopIsSound
<1>1. SInv => HopIsSound
  <2> SUFFICES ASSUME SInv PROVE HopIsSound
    OBVIOUS
  <2>1. HopIsMine
    BY DEF SInv, HopInv, HopHasOwner, HopIsMine, Routed
  <2>2. ClearanceOfItsEgress
    BY DEF SInv, HopInv, Mints, MintsItsOwn, Solves, Brings, ClearanceOfItsEgress
  <2>3. HopLeftClean
    BY DEF SInv, HopInv, HopIsClean, HopLeftClean
  <2> QED BY <2>1, <2>2, <2>3 DEF SInv, HopInv, HopIsSound
<1> QED BY <1>1, HopInductive, PTL

\* Some worker can always go on while one has something to do: the owner of the
\* hop never waits, and behind a waiting job there is the head of its executor
\* (_hold_hop_lock, _Worker).
THEOREM WaitsCloseNoCircle == Spec => []NothingIsStuck
<1>1. SInv => NothingIsStuck
  <2> SUFFICES ASSUME SInv, NEW j \in Jobs, pc[j] \notin {"none", "end"} \/ hop.holder = j
               PROVE  \E k \in Jobs : pc[k] \notin {"none", "end"} /\ ~Waits(k)
    BY DEF NothingIsStuck
  <2> USE DEF SInv, HopInv
  <2>1. CASE hop.holder \in Jobs
    <3>1. Owns(hop.holder)
      BY <2>1 DEF HopHasOwner
    <3> QED BY <2>1, <3>1 DEF Owns, InHop, InSession, Waits
  <2>2. CASE hop.holder = None /\ pc[j] \notin {"none", "end"}
    <3>1. CASE pc[j] # "queued"
      BY <2>2, <3>1 DEF Waits, HopFree
    <3>2. CASE pc[j] = "queued"
      <4> DEFINE q == queue[Lane(j)]
      <4>1. Lane(j) \in Lanes /\ q \in Seq(Jobs) /\ IsIn(q, j)
        BY <3>2, LaneIsLane DEF IInv, Types, ExecutorsHold, InExecutor, Lane
      <4>2. 1 \in 1..Len(q) /\ q[1] = Head(q) /\ Head(q) \in Jobs
        BY <4>1 DEF IsIn
      <4>3. InExecutor(Head(q)) /\ Lane(Head(q)) = Lane(j)
        BY <4>1, <4>2 DEF QueuesHold
      <4>4. ~Waits(Head(q))
        BY <2>2, <4>3 DEF Waits, Runnable, HopFree
      <4> QED BY <4>2, <4>3, <4>4 DEF InExecutor
    <3> QED BY <3>1, <3>2
  <2>3. hop.holder \in Jobs \cup {None}
    BY DEF TypeOK
  <2> QED BY <2>1, <2>2, <2>3
<1> QED BY <1>1, HopInductive, PTL

-----------------------------------------------------------------------------
(* The page of a device.                                                   *)

Points == {"idle", "egress", "echoed", "frame", "clear", "cookie", "probe", "tap", "warm", "hydrate",
           "client", "paused", "resume", "remove", "disable", "js", "ready", "batch"}
DriveTypeOK ==
  /\ op \in [kind : Kinds \cup {"none"}, proxied : BOOLEAN]
  /\ point \in Points
  /\ doc \in Challenged \cup {"blank", "echo", "loading", "block", "clean", "app"}
  /\ jar \in {"none", "fresh", "stale"} /\ tapped \in {"never", "recent", "before"}
  /\ mine \in BOOLEAN /\ blind \in BOOLEAN /\ stashed \in BOOLEAN
  /\ dbg \in [on : BOOLEAN, bp : BOOLEAN, paused : BOOLEAN]
  /\ res \in {"none", "200", "failed"}

\* A solve begins without a clearance, taps until there is one, and does nothing else.
SolvesTap ==
  /\ op.kind = "solve" =>
       jar # "stale" /\ point \in {"egress", "echoed", "frame", "cookie", "probe", "tap"}
  /\ point # "idle" => res = "none"

\* The verification that a tap has started is told by its banner, or by the interval
\* that the next tap waits for; who comes to tap has looked for both.
TapsAreSeen ==
  /\ mine => doc \in {"registered", "verifying"}
  /\ point \in {"echoed", "frame", "clear"} => ~mine
  /\ point \in {"cookie", "probe", "tap"} /\ mine /\ doc = "registered" => tapped = "recent"
  /\ point = "tap" /\ ~blind => ~mine

\* The debugger is on only while the client is captured, and its breakpoint is gone
\* before it is turned off.
CaptureEnds ==
  /\ point \notin {"paused", "resume", "remove", "disable"} => dbg = Off
  /\ point = "disable" => ~dbg.bp

DInv == DriveTypeOK /\ SolvesTap /\ TapsAreSeen /\ CaptureEnds

LEMMA DriveInitInv == DriveInit => DInv
<1> SUFFICES ASSUME DriveInit PROVE DInv
  OBVIOUS
<1> USE DEF DriveInit
<1>1. DriveTypeOK
  BY DEF DriveTypeOK, Off, Points, Challenged
<1>2. SolvesTap /\ TapsAreSeen /\ CaptureEnds
  BY DEF SolvesTap, TapsAreSeen, CaptureEnds
<1> QED BY <1>1, <1>2 DEF DInv

\* The operation ends and leaves the page as it is.
LEMMA EndKeeps ==
  ASSUME DInv, NEW r \in {"200", "failed"}, End(r), UNCHANGED <<doc, mine, stashed>>
  PROVE  DInv'
<1> USE DEF DInv, DriveTypeOK
<1>1. /\ op' = [kind |-> "none", proxied |-> FALSE] /\ point' = "idle" /\ res' = r /\ dbg' = Off
      /\ tapped' = "never" /\ blind' = FALSE /\ UNCHANGED <<doc, mine, stashed, jar>>
  BY DEF End
<1>2. DriveTypeOK'
  BY <1>1 DEF Off, Points
<1>3. SolvesTap' /\ TapsAreSeen'
  BY <1>1 DEF SolvesTap, TapsAreSeen
<1> QED BY <1>1, <1>2, <1>3 DEF CaptureEnds

LEMMA PageKeeps == ASSUME DInv, PageMoves \/ Mint \/ Breaks \/ Ages \/ Interval PROVE DInv'
<1> USE DEF DInv, DriveTypeOK
<1>1. CASE PageMoves
  <2>1. UNCHANGED <<op, point, jar, stashed, tapped, blind, dbg, res>>
    BY <1>1 DEF PageMoves
  <2>2. /\ doc' \in Challenged \cup {"blank", "echo", "loading", "block", "clean", "app"} /\ mine' \in BOOLEAN
        /\ mine' => mine /\ doc' = "verifying" /\ doc \in {"registered", "verifying"}
    <3> USE DEF TapsAreSeen, Challenged
    <3>1. CASE Loads /\ UNCHANGED mine
      BY <3>1 DEF Loads
    <3>2. CASE doc = "clean" /\ doc' = "app" /\ UNCHANGED mine
      BY <3>2
    <3>3. CASE Widget
      <4>1. CASE doc = "challenge" /\ doc' = "checkbox" /\ UNCHANGED mine
        BY <4>1
      <4>2. CASE doc \in {"challenge", "checkbox"} /\ doc' = "verifying" /\ mine' = FALSE
        BY <4>2
      <4>3. CASE doc = "registered" /\ doc' = "verifying" /\ UNCHANGED mine
        BY <4>3
      <4>4. CASE /\ doc = "verifying" /\ mine' = FALSE
                 /\ doc' = (IF jar = "fresh" THEN "clean" ELSE "challenge")
        BY <4>4
      <4> QED BY <3>3, <4>1, <4>2, <4>3, <4>4 DEF Widget
    <3> QED BY <1>1, <3>1, <3>2, <3>3 DEF PageMoves
  <2>3. TapsAreSeen'
    BY <2>1, <2>2 DEF TapsAreSeen
  <2> QED BY <2>1, <2>2, <2>3 DEF SolvesTap, CaptureEnds
<1>2. CASE Mint
  <2>1. jar' = "fresh" /\ UNCHANGED <<op, point, doc, mine, stashed, tapped, blind, dbg, res>>
    BY <1>2 DEF Mint, document
  <2>2. DriveTypeOK'
    BY <2>1
  <2> QED BY <2>1, <2>2 DEF SolvesTap, TapsAreSeen, CaptureEnds
<1>3. CASE Breaks
  <2>1. dbg.bp /\ dbg' = [dbg EXCEPT !.paused = TRUE]
        /\ UNCHANGED <<op, point, doc, mine, stashed, jar, tapped, blind, res>>
    BY <1>3 DEF Breaks, document
  <2>2. point \in {"paused", "resume", "remove"}
    BY <2>1 DEF CaptureEnds, Off
  <2>3. dbg' \in [on : BOOLEAN, bp : BOOLEAN, paused : BOOLEAN]
    BY <2>1
  <2>4. DriveTypeOK'
    BY <2>1, <2>3
  <2>5. SolvesTap' /\ TapsAreSeen'
    BY <2>1 DEF SolvesTap, TapsAreSeen
  <2>6. CaptureEnds'
    BY <2>1, <2>2 DEF CaptureEnds
  <2> QED BY <2>4, <2>5, <2>6
<1>4. CASE Ages
  BY <1>4 DEF Ages, document, SolvesTap, TapsAreSeen, CaptureEnds
<1>5. CASE Interval
  BY <1>5 DEF Interval, Settled, document, SolvesTap, TapsAreSeen, CaptureEnds
<1> QED BY <1>1, <1>2, <1>3, <1>4, <1>5

LEMMA BeginKeeps == ASSUME DInv, Begin PROVE DInv'
<1> USE DEF DInv, DriveTypeOK
<1>1. PICK k \in Kinds, p \in BOOLEAN :
        /\ k = "fetch" => ~p
        /\ op' = [kind |-> k, proxied |-> p]
        /\ jar' = IF Wipes(k) THEN "none" ELSE jar
        /\ IF k = "solve" \/ Wipes(k) \/ doc = "blank" THEN Navigate("loading") ELSE UNCHANGED document
        /\ point' = CASE p -> "egress" [] k = "fetch" -> "ready"
                      [] k = "solve" /\ ~p -> "frame" [] OTHER -> "warm"
  BY DEF Begin
<1>2. point = "idle" /\ tapped' = "never" /\ res' = "none" /\ UNCHANGED <<blind, dbg>>
  BY DEF Begin
<1>3. /\ doc' \in {"loading", doc} /\ stashed' \in BOOLEAN /\ mine' \in BOOLEAN
      /\ mine' => mine /\ doc' = doc
      /\ k = "solve" => ~mine' /\ jar' = "none"
      /\ jar' \in {"none", jar}
  BY <1>1 DEF Navigate, document, Wipes
<1>4. /\ point' \in {"egress", "ready", "frame", "warm"}
      /\ point' = "frame" => k = "solve"
      /\ k = "solve" => point' \in {"egress", "frame"}
  BY <1>1
<1>5. DriveTypeOK'
  BY <1>1, <1>2, <1>3, <1>4 DEF Points, Kinds
<1>6. SolvesTap' /\ TapsAreSeen'
  BY <1>1, <1>2, <1>3, <1>4 DEF SolvesTap, TapsAreSeen
<1> QED BY <1>2, <1>4, <1>5, <1>6 DEF CaptureEnds

\* A call of the pipeline that leaves the debugger, the clearance and the taps alone.
LEMMA CallKeeps ==
  ASSUME DInv, NEW to \in Points, Goto(to), UNCHANGED jar,
         point \notin {"idle", "paused", "resume", "remove", "disable"},
         to \notin {"idle", "paused", "resume", "remove", "disable", "tap"},
         op.kind = "solve" => to \in {"echoed", "frame", "cookie", "probe"},
         \/ UNCHANGED document /\ to \notin {"echoed", "frame", "clear"}
              /\ (to \in {"cookie", "probe"} => ~mine \/ point \in {"cookie", "probe", "tap"})
         \/ \E d \in {"loading", "echo"} : Navigate(d)
  PROVE  DInv'
<1> USE DEF DInv, DriveTypeOK
<1>1. point' = to /\ UNCHANGED <<op, tapped, blind, dbg, res, jar>>
  BY DEF Goto
<1>2. /\ doc' \in {"loading", "echo", doc} /\ mine' \in BOOLEAN /\ stashed' \in BOOLEAN
      /\ mine' => mine /\ doc' = doc /\ to \notin {"echoed", "frame", "clear"}
           /\ (to \in {"cookie", "probe"} => point \in {"cookie", "probe", "tap"})
  <2>1. CASE /\ UNCHANGED document /\ to \notin {"echoed", "frame", "clear"}
             /\ (to \in {"cookie", "probe"} => ~mine \/ point \in {"cookie", "probe", "tap"})
    <3>1. UNCHANGED <<doc, mine, stashed>>
      BY <2>1 DEF document
    <3> QED BY <2>1, <3>1
  <2>2. CASE \E d \in {"loading", "echo"} : Navigate(d)
    <3>1. doc' \in {"loading", "echo"} /\ mine' = FALSE /\ stashed' = FALSE
      BY <2>2 DEF Navigate
    <3> QED BY <3>1
  <2> QED BY <2>1, <2>2
<1>3. DriveTypeOK'
  BY <1>1, <1>2
<1>4. SolvesTap' /\ TapsAreSeen'
  BY <1>1, <1>2 DEF SolvesTap, TapsAreSeen
<1> QED BY <1>1, <1>3, <1>4 DEF CaptureEnds

LEMMA CallsKeep ==
  ASSUME DInv, InPage \/ Echo \/ Echoed \/ Frame \/ AwaitClear \/ NoCookie \/ CookieErr \/ NotFound
               \/ Warm \/ Hydrate \/ HasClient \/ Ready
  PROVE  DInv'
<1>0. /\ op.kind = "solve" => point \in {"egress", "echoed", "frame", "cookie", "probe", "tap"}
      /\ point \in {"frame", "clear"} => ~mine
  BY DEF DInv, SolvesTap, TapsAreSeen
<1> USE <1>0, CallKeeps DEF Points
<1>1. CASE InPage
  BY <1>1 DEF InPage
<1>2. CASE Echo
  BY <1>2 DEF Echo
<1>3. CASE Echoed
  BY <1>3 DEF Echoed
<1>4. CASE Frame
  BY <1>4 DEF Frame
<1>5. CASE AwaitClear
  BY <1>5 DEF AwaitClear
<1>6. CASE NoCookie
  BY <1>6 DEF NoCookie
<1>7. CASE CookieErr
  BY <1>7 DEF CookieErr
<1>8. CASE NotFound
  BY <1>8 DEF NotFound
<1>9. CASE Warm
  BY <1>9 DEF Warm
<1>10. CASE Hydrate
  BY <1>10 DEF Hydrate
<1>11. CASE HasClient
  BY <1>11 DEF HasClient
<1>12. CASE Ready
  BY <1>12 DEF Ready
<1> QED BY <1>1, <1>2, <1>3, <1>4, <1>5, <1>6, <1>7, <1>8, <1>9, <1>10, <1>11, <1>12

\* The taps.
LEMMA TapKeeps == ASSUME DInv, Probe \/ Tap PROVE DInv'
<1> USE DEF DInv, DriveTypeOK
<1>1. CASE Probe
  <2>1. PICK err \in BOOLEAN :
          /\ blind' = err
          /\ point' = IF (InVerification /\ ~err) \/ tapped = "recent" THEN "cookie" ELSE "tap"
    BY <1>1 DEF Probe
  <2>2. point = "probe" /\ UNCHANGED <<op, doc, mine, stashed, jar, tapped, dbg, res>>
    BY <1>1 DEF Probe, document
  <2>3. point' \in {"cookie", "tap"} /\ (point' = "tap" /\ ~blind' => doc # "verifying" /\ tapped # "recent")
    BY <2>1 DEF InVerification
  <2> QED BY <2>1, <2>2, <2>3 DEF SolvesTap, TapsAreSeen, CaptureEnds, Points
<1>2. CASE Tap
  <2>1. /\ point = "tap" /\ point' = "cookie" /\ tapped' = "recent"
        /\ UNCHANGED <<op, stashed, jar, blind, dbg, res>>
    BY <1>2 DEF Tap
  <2>2. /\ doc' \in Challenged /\ mine' \in BOOLEAN
        /\ mine' => doc' = "registered" \/ (mine /\ doc' = doc)
    BY <1>2 DEF Tap, CFFrame, Challenged
  <2>3. TapsAreSeen'
    BY <2>1, <2>2 DEF TapsAreSeen
  <2> QED BY <2>1, <2>2, <2>3 DEF SolvesTap, CaptureEnds, Points
<1> QED BY <1>1, <1>2

\* The capture of the client.
LEMMA CaptureKeeps == ASSUME DInv, Capture \/ Captured \/ Resume \/ Remove \/ Disable PROVE DInv'
<1> USE DEF DInv, DriveTypeOK
<1>1. point \in {"client", "paused", "resume", "remove", "disable"} /\ op.kind # "solve"
  BY DEF Capture, Captured, Resume, Remove, Disable, SolvesTap
<1>2. /\ UNCHANGED <<op, doc, mine, jar, tapped, blind, res>> /\ stashed' \in BOOLEAN
      /\ point' \in {"paused", "resume", "remove", "disable", "js"}
  BY DEF Capture, Captured, Resume, Remove, Disable, document, Goto, Hydrated
<1>3. /\ dbg' \in [on : BOOLEAN, bp : BOOLEAN, paused : BOOLEAN]
      /\ point' = "disable" => ~dbg'.bp
      /\ point' = "js" => dbg' = Off
  <2>6. Off \in [on : BOOLEAN, bp : BOOLEAN, paused : BOOLEAN] /\ ~Off.bp
    BY DEF Off
  <2>1. CASE Capture
    BY <2>1 DEF Capture
  <2>2. CASE Captured
    BY <2>2 DEF Captured, Goto
  <2>3. CASE Resume
    BY <2>3, <2>6 DEF Resume
  <2>4. CASE Remove
    BY <2>4, <2>6 DEF Remove
  <2>5. CASE Disable
    BY <2>5 DEF Disable, Disabled, Off
  <2> QED BY <2>1, <2>2, <2>3, <2>4, <2>5
<1> QED BY <1>1, <1>2, <1>3 DEF SolvesTap, TapsAreSeen, CaptureEnds, Points

LEMMA EndsKeep == ASSUME DInv, GivesUp \/ Cookie \/ Js \/ Batch PROVE DInv'
<1>1. ASSUME NEW r \in {"200", "failed"}, End(r) PROVE DInv'
  BY <1>1, EndKeeps DEF End, document
<1>2. CASE Cookie
  <2>1. point = "cookie" /\ jar # "none"
    BY <1>2 DEF Cookie
  <2>2. CASE op.kind = "solve"
    BY <1>1, <1>2, <2>2 DEF Cookie
  <2>3. CASE op.kind # "solve"
    BY <1>2, <2>1, <2>3, CallKeeps DEF Cookie, Points
  <2> QED BY <2>2, <2>3
<1>3. CASE Batch
  <2>1. CASE left = 0
    BY <1>1, <1>3, <2>1 DEF Batch
  <2>2. CASE left # 0
    BY <1>3, <2>2 DEF Batch, document, DInv, DriveTypeOK, SolvesTap, TapsAreSeen, CaptureEnds
  <2> QED BY <2>1, <2>2
<1> QED BY <1>1, <1>2, <1>3 DEF GivesUp, Js

LEMMA DInvStep == DInv /\ [DriveNext]_driveVars => DInv'
<1>1. CASE UNCHANGED driveVars
  BY <1>1 DEF driveVars, document, DInv, DriveTypeOK, SolvesTap, TapsAreSeen, CaptureEnds
<1>2. CASE DriveNext
  BY <1>2, PageKeeps, BeginKeeps, CallsKeep, TapKeeps, CaptureKeeps, EndsKeep DEF DriveNext, Drive
<1> QED BY <1>1, <1>2

\* DInv holds of every reachable state (AndroidSolvePipeline).
THEOREM DriveInductive == DriveSpec => []DInv
BY DriveInitInv, DInvStep, PTL DEF DriveSpec

\* A tap that has registered is not disrupted by the next one, no eval and no later
\* operation finds the page stopped by the debugger, and a solve brings a clearance
\* that it has minted itself, for any number of operations and batches.
THEOREM DrivesAreSound == DriveSpec => DriveIsSound
<1> DEFINE Kept == point = "tap" /\ tapped' = "recent" /\ tapped # "recent" => ~mine \/ blind
           Own  == op.kind = "solve" /\ res' = "200" => jar = "fresh"
<1>1. DInv => PageNotPaused
  BY DEF DInv, CaptureEnds, PageNotPaused, Off
<1>2. DInv => Kept
  BY DEF DInv, TapsAreSeen
<1>3. DInv /\ [DriveNext]_driveVars => Own
  <2> SUFFICES ASSUME DInv, [DriveNext]_driveVars, op.kind = "solve", res' = "200" PROVE jar = "fresh"
    OBVIOUS
  <2>1. /\ point \in {"egress", "echoed", "frame", "cookie", "probe", "tap"} /\ res = "none"
        /\ jar \in {"none", "fresh"}
    BY DEF DInv, DriveTypeOK, SolvesTap
  <2>2. CASE Cookie
    BY <2>1, <2>2 DEF Cookie
  <2> QED BY <2>1, <2>2 DEF DriveNext, Drive, Begin, GivesUp, InPage, Echo, Echoed, Frame, AwaitClear,
         NoCookie, CookieErr, Probe, Tap, NotFound, Warm, Hydrate, HasClient, Capture, Captured, Resume,
         Remove, Disable, Js, Ready, Batch, PageMoves, Mint, Breaks, Ages, Interval, End, Goto, driveVars
<1>4. DriveSpec => []PageNotPaused /\ [][Kept]_driveVars /\ [][Own]_driveVars
  BY <1>1, <1>2, <1>3, DriveInductive, PTL DEF DriveSpec
<1> QED BY <1>4, PTL DEF DriveIsSound, TapNotDisrupted, SolveMintsItsOwn
=============================================================================
