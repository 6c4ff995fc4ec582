------------------------------ MODULE Sidecar ------------------------------
(* The Android solver sidecar (src/android_solver/service.py): HTTP handler *)
(* threads, one lane (lock, single-worker executor, redroid device) per adb *)
(* target, and what all the lanes share: the proxy hop with one upstream    *)
(* and the port 9222 of the adb server's forward table.                     *)
(*                                                                          *)
(* A job is one POST: its handler, and its pipeline in the executor, which  *)
(* may outlive the handler.  Deadlines, the grace of a drain and the loss   *)
(* of the client are choices.  An egress is an upstream or Direct.          *)
EXTENDS Naturals, Sequences

CONSTANTS Jobs, Lanes, DefaultLane, Ops, Upstreams, Direct, None,
          MaxBoots          \* bound on the restarts of the sidecar

(* A solve, an eval that keeps the session of the WebView, one that recycles *)
(* it; fetch-images drives the WebView as an eval that goes direct.          *)
Requests == [op : Ops, lane : Lanes, via : Upstreams \cup {Direct}]

ASSUME SidecarAssumption ==
  /\ DefaultLane \in Lanes
  /\ Direct \notin Upstreams /\ None \notin Upstreams \cup {Direct} \cup Lanes \cup Jobs \cup Requests
  /\ Ops \subseteq {"solve", "eval", "recycle"}
  /\ MaxBoots \in Nat

VARIABLES
  job,      \* the request of each POST
  at,       \* where its handler is: "new", "run", "drain" or its answer
  pc,       \* where its pipeline is
  out,      \* how its pipeline ended or is unwinding
  got,      \* the egress over which the clearance it returns was minted
  page,     \* the lane whose WebView its devtools session is attached to
  queue,    \* the executor of each lane; its head is running
  hop,      \* holder of _HOP_LOCK and upstream of the hop
  proxied,  \* the lanes whose device has the global http_proxy set
  fwd,      \* the lane whose running WebView tcp:9222 leads to
  cookie,   \* the egress over which the lane's clearance cookie was minted
  leaked,   \* a teardown has failed (bound: one at most)
  boots

service == <<job, at, queue>>
device  == <<page, fwd, cookie>>
route   == <<hop, proxied, leaked>>
vars == <<service, pc, out, got, device, route, boots>>

Answers  == {"200", "gone", "failed", "refused"}
Proxied(j) == job[j] # None /\ job[j].via # Direct
Lane(j)    == job[j].lane

(* The point that follows each point of a pipeline; a direct one skips the  *)
(* hop, an eval the wipe.                                                   *)
Plan(j) ==
  LET enter == IF Proxied(j) THEN "hop" ELSE "open"
  IN  [queued |-> IF job[j].op # "eval" THEN "clean" ELSE enter, clean |-> enter,
       hop |-> "route", route |-> "open", open |-> "forward", forward |-> "attach",
       attach |-> IF Proxied(j) THEN "verify" ELSE "drive", verify |-> "drive",
       drive |-> "unforward", unforward |-> IF Proxied(j) THEN "clear" ELSE "end",
       clear |-> "release", release |-> "end"]
InSession == {"attach", "verify", "drive"}
InHop     == {"route", "open", "forward"} \cup InSession

(* A cancelled solve force-stops its device on the way out. *)
Finish(j, how) == IF job[j].op = "solve" /\ how = "cancelled" THEN "reset" ELSE "end"
After(j, p, how) ==
  IF Plan(j)[p] = "end" THEN Finish(j, how) ELSE Plan(j)[p]
BugUnwind(j, p, how) ==
  IF p \in InSession THEN "unforward"
  ELSE IF p = "open" /\ Proxied(j) THEN "release"
  ELSE IF p \in InHop /\ Proxied(j) THEN "clear" ELSE Finish(j, how)
(* Where an exception at p goes: through the finally clauses entered so far. *)
Unwind(j, p, how) ==
  IF p \in InSession THEN "unforward"
  ELSE IF p \in InHop /\ Proxied(j) THEN "clear" ELSE Finish(j, how)

(* No check of the cancel event precedes these calls. *)
Unchecked(j) == IF Proxied(j) THEN {"open"} ELSE {}

(* The cancel event of the job is set: its handler gave up. *)
CancelSet(j) == at[j] \in {"drain", "gone"}

Egress(l) == IF l \in proxied /\ hop.up # None THEN hop.up ELSE Direct
Free(l)   == \A k \in Jobs : at[k] \in {"run", "drain"} => Lane(k) # l

Init ==
  /\ job = [j \in Jobs |-> None]
  /\ at = [j \in Jobs |-> "new"]
  /\ pc = [j \in Jobs |-> "none"] /\ out = [j \in Jobs |-> "none"]
  /\ got = [j \in Jobs |-> None] /\ page = [j \in Jobs |-> None]
  /\ queue = [l \in Lanes |-> <<>>]
  /\ hop = [holder |-> None, up |-> None]
  /\ proxied = {} /\ fwd = None /\ leaked = FALSE
  /\ cookie = [l \in Lanes |-> None]
  /\ boots = 0

----------------------------------------------------------------------------
(* The handler threads.                                                     *)

(* A request that does not validate is answered before the lane is touched. *)
Refuse(j) ==
  /\ at[j] = "new"
  /\ at' = [at EXCEPT ![j] = "refused"]
  /\ UNCHANGED <<job, queue, pc, out, got, device, route, boots>>

(* 503 at once while another handler holds the lane. *)
Ask(j) ==
  /\ at[j] = "new"
  /\ \E r \in Requests :
       IF Free(r.lane)
       THEN /\ job' = [job EXCEPT ![j] = r]
            /\ at' = [at EXCEPT ![j] = "run"]
            /\ pc' = [pc EXCEPT ![j] = "queued"]
            /\ queue' = [queue EXCEPT ![r.lane] = Append(@, j)]
       ELSE /\ at' = [at EXCEPT ![j] = "refused"]
            /\ UNCHANGED <<job, pc, queue>>
  /\ UNCHANGED <<out, got, device, route, boots>>

(* Neither a handler nor a pipeline has to do with the job any more. *)
Forgotten(j) == [job EXCEPT ![j] = None]

(* A pipeline that raised a TimeoutError is taken for one that still runs   *)
(* (in Python 3.12 it is the exception that future.result polls with): the  *)
(* handler then spins until it gives up.                                    *)
Answer(j) ==
  /\ at[j] = "run" /\ pc[j] = "end"
  /\ at' = [at EXCEPT ![j] = IF out[j] = "ok" THEN "200" ELSE "failed"]
  /\ out' = [out EXCEPT ![j] = "none"]
  /\ job' = IF out[j] = "ok" THEN job ELSE Forgotten(j)
  /\ UNCHANGED <<queue, pc, got, device, route, boots>>

(* The deadline passes or the peer hangs up: _cancel_and_drain begins. *)
GiveUp(j) ==
  /\ at[j] = "run"
  /\ at' = [at EXCEPT ![j] = "drain"]
  /\ UNCHANGED <<job, queue, pc, out, got, device, route, boots>>

(* The pipeline ended or the grace is over: the handler answers, and its    *)
(* finally releases the lane whatever the worker still does.                *)
Drained(j) ==
  /\ at[j] = "drain"
  /\ at' = [at EXCEPT ![j] = "gone"]
  /\ IF pc[j] = "end"
     THEN job' = Forgotten(j) /\ out' = [out EXCEPT ![j] = "none"] /\ got' = [got EXCEPT ![j] = None]
     ELSE UNCHANGED <<job, out, got>>
  /\ UNCHANGED <<queue, pc, device, route, boots>>

Handler(j) == Refuse(j) \/ Ask(j) \/ Answer(j) \/ GiveUp(j) \/ Drained(j)

----------------------------------------------------------------------------
(* The worker threads.                                                      *)

BugRunnable(j) == pc[j] = "queued"
(* The executor of a lane has one worker and takes its jobs in order. *)
Runnable(j) == pc[j] = "queued" /\ Head(queue[Lane(j)]) = j

(* Job j moves on; at the end it leaves its executor, and what it brings is *)
(* dropped if no handler waits for it.                                      *)
Go(j, to, how) ==
  /\ pc' = [pc EXCEPT ![j] = to]
  /\ out' = [out EXCEPT ![j] = IF to = "end" /\ at[j] = "gone" THEN "none" ELSE how]
  /\ queue' = IF to = "end" THEN [queue EXCEPT ![Lane(j)] = Tail(@)] ELSE queue
  /\ job' = IF to = "end" /\ at[j] = "gone" THEN Forgotten(j) ELSE job
  /\ UNCHANGED <<at, boots>>
Proceed(j)    == Go(j, After(j, pc[j], out[j]), out[j])
Raise(j, how) == Go(j, Unwind(j, pc[j], how), how)
MayCall(j, p) == pc[j] = p /\ (CancelSet(j) => p \in Unchecked(j))

(* force-stop and clear of lane l: its WebView, its cookies and every       *)
(* devtools session on it are gone.                                         *)
Wiped(l) ==
  /\ cookie' = [cookie EXCEPT ![l] = None]
  /\ page' = [k \in Jobs |-> IF page[k] = l THEN None ELSE page[k]]
  /\ fwd' = IF fwd = l THEN None ELSE fwd

(* The worker thread takes the job and connects adb; nothing has looked at  *)
(* the cancel event yet, also if the handler gave up while it was queued.   *)
Start(j) ==
  /\ Runnable(j) /\ Proceed(j)
  /\ UNCHANGED <<got, device, route>>

Clean(j) ==
  /\ MayCall(j, "clean") /\ Wiped(Lane(j)) /\ Proceed(j)
  /\ UNCHANGED <<got, route>>

BugHopFree(j) == TRUE
HopFree(j) == hop.holder = None
TakeHop(j) ==
  /\ MayCall(j, "hop") /\ HopFree(j)
  /\ hop' = [hop EXCEPT !.holder = j]
  /\ Proceed(j)
  /\ UNCHANGED <<got, device, proxied, leaked>>

(* The hop is repointed, then the device is sent through it; the second     *)
(* call may fail when the first is done.                                    *)
Route(j) ==
  /\ MayCall(j, "route")
  /\ hop' = [hop EXCEPT !.up = job[j].via]
  /\ \/ proxied' = proxied \cup {Lane(j)} /\ Proceed(j)
     \/ UNCHANGED proxied /\ Raise(j, "failed")
  /\ UNCHANGED <<got, device, leaked>>

(* launch_url of a solve; pidof, or a relaunch, of an eval. *)
Open(j) ==
  /\ MayCall(j, "open") /\ Proceed(j)
  /\ UNCHANGED <<got, device, route>>

(* adb forward tcp:9222: rebinds the port, whoever has it. *)
ForwardPort(j) ==
  /\ MayCall(j, "forward")
  /\ fwd' = Lane(j)
  /\ Proceed(j)
  /\ UNCHANGED <<got, page, cookie, route>>

(* The page list and the websocket are whatever answers on the port. *)
Attach(j) ==
  /\ MayCall(j, "attach") /\ fwd # None
  /\ page' = [page EXCEPT ![j] = fwd]
  /\ Proceed(j)
  /\ UNCHANGED <<got, fwd, cookie, route>>

(* What the WebView observes is the egress that the sidecar itself gets     *)
(* from the upstream.                                                       *)
BugEgressMatches(j) == TRUE
EgressMatches(j) == Egress(page[j]) = job[j].via
Verify(j) ==
  /\ MayCall(j, "verify") /\ page[j] # None /\ EgressMatches(j)
  /\ Proceed(j)
  /\ UNCHANGED <<got, device, route>>

(* The challenge clears on the page that the job drives. *)
Clear(j) ==
  /\ MayCall(j, "drive") /\ page[j] # None
  /\ cookie[page[j]] = None
  /\ cookie' = [cookie EXCEPT ![page[j]] = Egress(page[j])]
  /\ UNCHANGED <<service, pc, out, got, page, fwd, route, boots>>

(* What extract_clearance brings: it opens a connection of its own, which   *)
(* finds the page only while the port still leads to it.                    *)
Extracted(j) == IF fwd = page[j] THEN cookie[page[j]] ELSE None

Succeed(j) ==
  /\ MayCall(j, "drive") /\ page[j] # None
  /\ job[j].op = "solve" => Extracted(j) # None
  /\ got' = [got EXCEPT ![j] = IF job[j].op = "solve" /\ at[j] # "gone" THEN Extracted(j) ELSE None]
  /\ Go(j, "unforward", "ok")
  /\ UNCHANGED <<device, route>>

(* Any call to adb, the devtools or the hop may fail, and the pipeline's    *)
(* own deadlines pass.                                                      *)
Fail(j) ==
  /\ pc[j] \in {"clean", "route", "open", "forward"} \cup InSession \/ Runnable(j)
  /\ Raise(j, "failed")
  /\ UNCHANGED <<got, device, route>>

(* The pipeline sees its cancel event at its next check. *)
Cancelled(j) == CancelSet(j) /\ pc[j] \in (InHop \cup {"clean", "hop"}) \ Unchecked(j)
Abort(j) ==
  /\ Cancelled(j) /\ Raise(j, "cancelled")
  /\ UNCHANGED <<got, device, route>>

(* The finally clauses.  Removing the forward removes the port's entry,     *)
(* whichever lane it leads to.                                              *)
RemoveForward(j) ==
  /\ pc[j] = "unforward"
  /\ fwd' = None /\ page' = [page EXCEPT ![j] = None]
  /\ Proceed(j)
  /\ UNCHANGED <<got, cookie, route>>

(* _clear_proxy_quietly: either call may fail without a trace. *)
ClearRoute(j) ==
  /\ pc[j] = "clear"
  /\ proxied' \in {proxied \ {Lane(j)}, proxied}
  /\ hop' \in {[hop EXCEPT !.up = None], hop}
  /\ leaked' = (leaked \/ Lane(j) \in proxied' \/ hop'.up # None)
  /\ leaked => Lane(j) \notin proxied' /\ hop'.up = None
  /\ Proceed(j)
  /\ UNCHANGED <<got, device>>

BugReleased == hop
Released == [hop EXCEPT !.holder = None]
Release(j) ==
  /\ pc[j] = "release"
  /\ hop' = Released
  /\ Proceed(j)
  /\ UNCHANGED <<got, device, proxied, leaked>>

(* _reset_device_quietly: the outcome stays a cancellation if it fails. *)
Reset(j) ==
  /\ pc[j] = "reset"
  /\ Wiped(Lane(j)) \/ UNCHANGED device
  /\ Go(j, "end", out[j])
  /\ UNCHANGED <<got, route>>

Ends(j) == Succeed(j) \/ Fail(j) \/ Abort(j)
Works(j) ==
  \/ Start(j) \/ Clean(j) \/ TakeHop(j) \/ Route(j)
  \/ Open(j) \/ ForwardPort(j) \/ Attach(j) \/ Verify(j) \/ Ends(j)
  \/ RemoveForward(j) \/ ClearRoute(j) \/ Release(j) \/ Reset(j)

----------------------------------------------------------------------------
(* The container dies and boots: the sidecar, its hop and its adb server    *)
(* start afresh, the devices keep their setting, WebView and cookies.  The  *)
(* boot clears the setting of the default lane, or fails five times.        *)
Restart ==
  /\ boots < MaxBoots
  /\ boots' = boots + 1
  /\ at' = [j \in Jobs |-> IF at[j] \in {"run", "drain"} THEN "gone" ELSE at[j]]
  /\ pc' = [j \in Jobs |-> IF pc[j] = "none" THEN "none" ELSE "end"]
  /\ out' = [j \in Jobs |-> "none"]
  /\ job' = [j \in Jobs |-> None] /\ got' = [j \in Jobs |-> None]
  /\ queue' = [l \in Lanes |-> <<>>]
  /\ page' = [j \in Jobs |-> None] /\ fwd' = None
  /\ hop' = [holder |-> None, up |-> None]
  /\ proxied' \in {proxied, proxied \ {DefaultLane}}
  /\ leaked' = (proxied' # {})
  /\ UNCHANGED cookie

Next == (\E j \in Jobs : Handler(j) \/ Works(j) \/ Clear(j)) \/ Restart

Spec == Init /\ [][Next]_vars

----------------------------------------------------------------------------
TypeOK ==
  /\ job \in [Jobs -> Requests \cup {None}] /\ at \in [Jobs -> {"new", "run", "drain"} \cup Answers]
  /\ out \in [Jobs -> {"none", "ok", "failed", "cancelled"}]
  /\ got \in [Jobs -> Upstreams \cup {Direct, None}] /\ page \in [Jobs -> Lanes \cup {None}]
  /\ hop \in [holder : Jobs \cup {None}, up : Upstreams \cup {None}]
  /\ proxied \subseteq Lanes /\ fwd \in Lanes \cup {None}

Driving(j) == pc[j] \notin {"none", "queued", "end"}

(* From the repoint of the hop to its teardown, the upstream is the job's   *)
(* own, also across the lanes and across workers whose handler has gone     *)
(* (_hold_hop_lock).                                                        *)
HopIsMine ==
  \A j \in Jobs : Proxied(j) /\ pc[j] \in InHop \ {"route"} => hop.up = job[j].via

(* A clearance that a proxied solve returns was minted over the egress it   *)
(* is labelled with: wiped device, verified page, one upstream (_solve),    *)
(* as long as no teardown has failed.                                       *)
ClearanceOfItsEgress ==
  ~leaked => \A j \in Jobs : at[j] = "200" /\ Proxied(j) /\ job[j].op = "solve" => got[j] = job[j].via

(* A device drives one job at a time, though its lock is released while an  *)
(* orphan of a handler that gave up still runs (_Worker).                   *)
OneDriverPerDevice ==
  \A j, k \in Jobs : j # k /\ Driving(j) /\ Driving(k) => Lane(j) # Lane(k)

(* Between proxied operations every device goes direct and the hop is idle, *)
(* unless a teardown has failed (_clear_proxy_quietly in every finally).    *)
HopLeftClean ==
  ~leaked /\ hop.holder = None => proxied = {} /\ hop.up = None

(* The hop serves its holder, mints for it and is left clean by it. *)
HopIsSound == TypeOK /\ HopIsMine /\ ClearanceOfItsEgress /\ HopLeftClean

(* The two waits of a worker; a call that fails ends any other step. *)
Waits(j) ==
  \/ pc[j] = "queued" /\ ~Runnable(j)
  \/ pc[j] = "hop" /\ ~HopFree(j) /\ ~CancelSet(j)

(* While a pipeline is queued or drives, or the hop is held, some worker    *)
(* can go on: no wait for the lock of the hop or for the one worker of a    *)
(* lane closes a circle, and a holder never leaves without its release; no  *)
(* step repeats, so every device is freed in the end (_hold_hop_lock).      *)
NothingIsStuck ==
  (\E j \in Jobs : pc[j] \notin {"none", "end"} \/ hop.holder = j)
    => \E k \in Jobs : pc[k] \notin {"none", "end"} /\ ~Waits(k)

(* "Two DIFFERENT targets each hold their own lock/executor so the lanes    *)
(* run concurrently" (_Worker): a devtools session is one of the job's own  *)
(* device, whatever the other lanes do.                                     *)
LanesAreIsolated == \A j \in Jobs : page[j] # None => page[j] = Lane(j)
=============================================================================
