# Verification of the manga gateway

TLA+ models of the gateway, the TLC runs that check them on small instances and
the theorems about them that TLAPS proves for every instance.  `PROJECT.json`
is the index: the source lines behind every definition, the runs with their
properties, a mutant of the code for every property, the hazards, the theorems.

Paths below are relative to `src/src/manga_gateway/` unless they say otherwise.

## 1. The system

The gateway is one Python process with **one asyncio event loop**.  The code
between two `await`s is atomic; every `await` is a point where any other
request, job, timer or cancellation may run.  Worker threads (`asyncio.to_thread`,
aiosqlite, one per SQLite connection) run beside the loop.  A second process, the
Android solver sidecar (`src/android_solver`), is a threaded HTTP server that
drives emulated devices.

Requests come from a client (Mangarr) in two streams that share the layers below:

    POST /search, GET /recent                 POST, GET, DELETE /downloads
        |                                          |
    fan_out, one task per source, deadline     JobManager -> JobEngine -> package
    SourceFailureCooldown, EnumerationCache        |            |
        |                                      JobStore     HandleStore
        +------------> SourceContext <-------------+
                  (retries, clearance, CSRF, proxies, rate limits)
                       |            |            |
                  Transport     ProxyPool    SolverRouter
                               pinned proxy    |       |
                                    CloudflareSolver  AndroidSolver -> sidecar
                                    BrowserLifecycle

Started and stopped by the lifespan (`app.py`), watched by `Metrics` and
`SourceHealth`.

### Inventory

| Component | State | Operations | What is hard | What makes it correct |
|---|---|---|---|---|
| Download jobs: `jobs/manager.py`, `engine.py`, `store.py`, `package.py`, `model.py` | table `jobs` with a partial unique index, `_projection`, the `Job` objects, tasks, staging temps, outputs | submit, remove, list, `_run_guarded`, the transitions, writers, `rehydrate`, `sweep_orphans`, `resume_interrupted`, `drain`, `cancel_all` | three actors on one job (request, task, thread) with an await between any two effects; crashes between any two; a store that is written after memory | one live row per handle, no live row without a driver, table and projection agree, a deleted row stays deleted, a completed row has its file, every job settles |
| Admission: `JobManager._spawn`, `_run_guarded` | a semaphore per source, a global one | acquire, release in order | two layers, hand-over of permits to woken waiters | no leak, no over-admission, no capped source that squats on global permits, no starvation |
| Page fetch: `JobEngine._fetch_*` | results, counters, attempts | fetch, validate, retry, re-resolve | cancelled siblings that still take a step | all or nothing, honest progress, an end |
| Handle store: `handles/store.py` | `TTLCache`, table, scheduled persists | mint, resolve, persist, prune, rehydrate, close | two tiers with a clock each; write-behind | no handle lost or immortal |
| Search: `framework/fanout.py`, `cooldown.py`, `enum_cache.py` | streaks, cooldowns, cached entries, shared futures | fan-out, skip, lookup, lead, follow, expire | a future shared by tasks with deadlines of their own | misses collapse, no waiter is forgotten, a cooldown is earned and ends, one source never fails another |
| Source context: `framework/context.py`, `transport.py`, `lanes.py`, `ratelimit.py`, `session.py` | active proxy (context variable), sticky proxy, attempts | get/post/bytes, reconcile, rotate, image through the pool | three nested retry loops around shared state | no return to a proxy that failed, an end |
| Proxies: `framework/proxy_pool.py`, `source_pin.py`, `proxy.py` | cooldowns, pins | acquire, mark failed, pin, rotate | the pin is shared by all calls of a source | never a cooled proxy |
| Browser solver: `framework/antibot.py`, `solver_lifecycle.py` | persistent context, driver, held clearances, three locks | launch, solve, fetch, recycle, close | launches, recycles, crashes, cancellations and shutdown race | one browser per profile, none left behind, solves are single flight |
| Android client: `framework/android_solver.py`, `solver_router.py` | held clearances, expiries, in-flight tasks, block windows, leases, the lock of the device, the warm-up gate | get clearance, force, evaluate, refresh loop, warm | shared tasks that outlive their callers, pop and restore of a clearance, cancellation in the instant a lock is granted | foreground solves are shared, background gives way to a lease, a valid clearance is served through a block, nobody waits for nobody |
| Android sidecar: `src/android_solver/*.py` | a lock, an executor and a device per lane; the proxy hop; the forward table of adb; the page of each device | solve, eval, fetch images, cancel, drain, tap, capture | threads, deadlines of work that cannot be killed, one hop and one port for all lanes, a page that changes between two calls | one driver per device, the hop is its holder's and left clean, a clearance has the egress of its label, an operation does not spoil the next |
| Session credentials: `framework/session_prep.py`, `sources/mangafire_vrf.py` | cached CSRF credentials, cached signer, a lock per source | prepare, refresh, sign | double-checked lock, stale reference | the retry carries something newer than what was refused |
| Health and watchdog: `framework/health.py`, `app.py` | breaker and latch per source, a supervisor each | record, disable, probe, supervise | several writers, long sleeps | a source that is up comes back without any query |
| Metrics: `metrics/*.py` | ids, counters, queue, rollup and ring tables | ingest, flush, snapshot, prune, rehydrate | the queue is swapped before an await, one transaction for several writers, restarts | an id names one request, a restart finds the last snapshot |
| Sources: `sources/*.py`, `api/sorting.py` | signer and CDN zone of MangaFire, stash of MangaBall | search, recent, manifest, image | offset walks while chapters appear, one cache key for differing requests, ids of two namespaces, multi-step manifests | an answer is a window of the feed, a manifest is the whole of the right chapter |
| Pure algorithms: `framework/relevance.py`, `external_links.py`, `decrypt.py`, `util/sanitize.py` | none | scores, normal forms | boundary cases | agree with a definition |
| Configuration, security, logging, DTOs, scripts, deployment | none that changes | validation and wording | nothing to interleave | not modelled |

## 2. Modules

| Module | Stands for | Composition |
|---|---|---|
| `Downloads` | the download surface: requests, tasks, writer threads, boot, shutdown, crash | |
| `DownloadsProps` | its properties and its inductive invariant | extends `Downloads` |
| `JobLifecycle` | what the surface promises: the durable life of a job | implemented by `Downloads` (property `Lifecycle`) |
| `JobScheduler` | admission: the two layers of semaphores | details the nondeterministic `Admit` of `Downloads` |
| `PageFetch` | the fetch of the pages of a job | details the atomic `FetchPages` of `Downloads` |
| `HandleStore` | `handles/store.py` | |
| `SingleFlight` | `EnumerationCache.get_or_fetch`, and what a single flight promises | implemented by `BrowserLifecycle` (property `SolvesAreSingleFlight`) |
| `FanOut` | `fan_out` and `SourceFailureCooldown` | extends `SingleFlight`: each task of a search runs a lookup |
| `SourceHealth` | breaker, warm-up verdict and recovery watchdog of the Cloudflare sources | |
| `BrowserLifecycle` | `BrowserLifecycle` and the calls `CloudflareSolver` makes of it | instance of `SingleFlight` |
| `ProxyPool` | the pool and the pin of one source | |
| `SourceRequest` | the retries of `SourceContext` over the pool | extends `ProxyPool` |
| `Credentials` | the CSRF session and the signer that the calls of a source share | |
| `AndroidSolver` | the gateway's client of the sidecar | |
| `Sidecar` | the lanes of `src/android_solver/service.py`, the hop and the forward table they share | |
| `PageDrive` | what a pipeline of one lane does to the page of its device | details the `drive` of `Sidecar` |
| `Metrics` | collector, counters, ring, snapshots, restart | |
| `Source` | the source that is asked, and the filter its lists go through | |
| `SourceSearch` | what each of the nine sources answers to `/search` and `/recent`, and the page the route cuts | extends `Source` |
| `ChapterPages` | from a release to the bytes of its pages, for each of the nine sources | extends `Source` |
| `MCDownloads`, `MCFanOut`, `MCSourceRequest`, `MCBrowserLifecycle`, `MCAndroidSolver`, `MCSidecar` | instances of one module for TLC | |
| `MCJobs` | `Downloads`, `JobScheduler` and `PageFetch` side by side, under fairness | extends `MCDownloads`, `JobScheduler`, `PageFetch` |
| `MCSearch` | `FanOut`, `SourceHealth` and `BrowserLifecycle` side by side, under fairness | extends `MCFanOut` |
| `MCServices` | `HandleStore`, `Metrics`, `Credentials`, `SourceSearch` and `ChapterPages` side by side | extends the five |
| `MCSolvers` | `Sidecar`, `PageDrive` and `BrowserLifecycle` side by side | extends `MCSidecar`, `PageDrive` |
| `Downloads_proofs` | theorems about `Downloads` and its refinement of `JobLifecycle` | extends `DownloadsProps` |
| `Jobs_proofs` | about `JobScheduler` and `PageFetch` | extends both |
| `FanOut_proofs` | about `SingleFlight` and `FanOut` | extends `FanOut` |
| `Services_proofs` | about `HandleStore`, `Credentials`, `Metrics`, `SourceSearch` and `ChapterPages` | extends the five |
| `SourceRequest_proofs`, `BrowserLifecycle_proofs`, `AndroidSolver_proofs` | about the module of that name | extend it |
| `Sidecar_proofs` | about `Sidecar` and `PageDrive` | extends both |

**Side by side.**  The parts of `MCJobs`, `MCSearch`, `MCServices` and `MCSolvers`
do not read each other's state: one fetches pages whatever the semaphores hold, and
the metrics count whatever the handles do.  The product of their behaviours would
say nothing that the parts do not, so a behaviour of these modules is one of a
single part, chosen in the initial state (`part`); the others stay where they begin.
Each property speaks of its own part, under that part's own fairness.  Parts that
do meet share a module: `FanOut` extends `SingleFlight`, `SourceRequest` extends
`ProxyPool`, `BrowserLifecycle` instantiates `SingleFlight`, the solves of
`AndroidSolver`, its device and its background loops are one module, and so are the
lanes, the hop and the forward of `Sidecar`.

### How state and actions correspond to the code

* **Downloads.**  `row` is the table, `mem` the `Job` objects, `projection`
  `_projection`, `task[j]` and `client[c].at` the *next* thing that a coroutine or
  a thread does, so each value names one await.  `files` and `temps` are the disk.
  A store statement and its commit are one step: the connection has one thread and
  a FIFO queue, so nobody can see a row before its commit and answer earlier.
  `older` is the order of `updated_at` and nothing else of the clock.  A crash
  (`Crash`) may come at any point, boot included; a shutdown drains, cancels the
  tasks that are left, and still waits for threads that no cancellation reaches.
* **JobScheduler.**  `asyncio.Semaphore` is external and modelled by what CPython
  3.12 does: `release` hands the permit to the first waiter, which runs one hop of
  the loop later; `ready` is that queue.
* **PageFetch.**  One task per page; `errors` are what the group collects.  A task
  that was ready when a sibling failed may still take its step.
* **HandleStore.**  `cache[h]` and `disk[h]` are expiry times on one clock.  A
  resolve that misses the cache reads the table (`select`), decides on what it has
  read (`fetched`) and either warms the cache again or deletes the row (`prune`).
  A full cache loses any one entry (`Evicted`); `cachetools` drops the least recently
  used, which no property may depend on.
* **SingleFlight, FanOut.**  A future is named by its leader.  The deadline of a
  task cancels what it awaits: for a follower that is the shared future itself,
  which the code awaits without a shield.
* **SourceHealth.**  `failures` and `forced` are the counter and the latch of
  `SourceHealth`; `watch[s]` is where the supervisor of a source is: its poll, the
  n-th backoff, or a probe that came back good or bad.  A probe forces a solve,
  except for an on-demand source, where it only looks at the clearance held.
* **BrowserLifecycle.**  A context is the number of its launch.  `queue` holds the
  owners and the waiters of `_context_lock`, of the solve permits and of the
  browser permits.
* **ProxyPool, SourceRequest.**  A cooldown is membership in `cooled`.  `at`,
  `attempt`, `tried` and `blocked` are the three nested loops of a call (tenacity,
  transport rotation, origin-block rotation); `picks` and `pageTried` the one loop
  of a page.  The source is one that pins its searches (it solves on demand); the
  page loop belongs to one that fetches images through the pool.  They share a pool
  as in the lifespan.
* **Credentials.**  Credentials are the number of their mint.  `kind` chooses between
  the two places in the code: the session of `CsrfBootstrap`, whose refresh remembers
  what is *cached* when it is asked for, and the signer of MangaFire, whose refresh
  remembers what the refused call *used*.
* **AndroidSolver.**  `held` and `expired` are `_held` and the expiries, `inflight`
  the shared solve of each source, a task of its own that outlives the caller that
  created it (`asyncio.shield`); `dev` is the lock of the device, holder first;
  `Leased` are the page holders with a session.  `awaiting` keeps the order in which
  asyncio resumes those that wait for one task.  A solve that backs off (`BacksOff`)
  sleeps without the device and queues for it again (`Return`); a prime that fails or
  times out leaves its holder with nothing (`Primed`), which is not an error.
* **Sidecar.**  A job is one POST: `at` is its handler, `pc` its pipeline in the
  executor of the lane, which may outlive the handler.  `Plan` says
  which call of a pipeline follows which and `Unwind` the `finally` clauses that an
  exception passes.
  `fwd` is the entry of `tcp:9222` in the one adb server, `page[j]` the device whose
  WebView the devtools session of a job really reached.
* **PageDrive.**  `doc` is the document: loading, challenged (frame, checkbox,
  registered tap, verifying), blocked, clean, hydrated; it moves by itself between
  any two calls of the pipeline.  `dbg` is the debugger, whose breakpoint stops the
  page whenever the application calls its API.  The three calls that end a capture may
  fail unseen (`contextlib.suppress`): the session that such a call has lost takes its
  debugger with it, so that `Resume` and `Remove` may leave it `Off`.
* **Metrics.**  `txn` is what the one connection sees, `committed` what is on disk;
  `writeLock` is `_write_lock`.  A cancellation may hit a writer at any await; the INSERT
  of a snapshot or a commit that was handed to the thread of the connection still runs,
  and what was executed but not committed stays in the transaction.
* **SourceSearch.**  `site` is what the source has, in ascending order; a walk takes
  it page by page while `Publish` may insert a chapter.  `SearchRows` and
  `RecentRows` have one definition per source, since they filter, sort and cut in
  different orders; `Window` is what the route does to all of them.  `Kept` is the
  comprehension or loop that filters, `Descending` the stable sort: the place of an
  element is the number of those that come before it.  Both are defined without a
  predicate argument and without RECURSIVE, so that they can be reasoned about.
* **ChapterPages.**  `entry` says what the source lists for each page (readable,
  blank, null).  The manifest of Comix walks `window.__page` with calls for more and
  races a cold device, MangaBall stashes images of the manifest, MangaFire tries the
  zones of its CDN in an order that prefers the last that served (`NextZone` is
  the next of that order which has not refused the page).  Only a 403 moves it on to the
  next zone; any other error is raised with zones untried (`Lose`).  The other sources ask
  once: a 403 makes the engine fetch the manifest anew (`Forbidden`), `reresolves` times.
  `denials` and `broken` are history: the 403s a job met, and whether it met another error.

## 3. Runs

| Run | Question | Bounds |
|---|---|---|
| `downloads` | the safety of the surface, and `Lifecycle` | 2 jobs of 1 handle and 1 folder path, 2 requests, 1 restart, history of 1 |
| `jobs_live` | the three parts of a job under fairness: completed rows have their archive, accepted jobs settle, pruning never takes a live row; admission is sound and every job runs; a pass is whole and ends | 2 jobs of 2 handles and 1 archive path, 1 request, 2 restarts; 5 jobs, a source capped at 1 and one that asks for 3 of 2 global permits; up to 3 pages of different sizes, 2 at once, 2 attempts, 2 re-resolves |
| `search_live` | what a search waits for, under fairness: shared fetches, cooldowns, the watchdog, the end of every browser call | 2 searches of 1 source, cooldown 2 s doubling to at most 5 s; a warmed-up and an on-demand source, threshold 2, 2 outages; any two of solve, forced solve and fetch, watchdog, 2 launches, 1 crash |
| `requests` | no return to a failed proxy; the nested loops end | 2 calls and 2 pages, 2 of them in flight, 3 proxies, 3 rotations, 2 attempts |
| `browser` | one browser at a time, all of them closed | 2 solves of 1 source and a fetch, watchdog, 2 launches, 1 crash |
| `services` | handles age out and none is lost; metrics survive restarts; retries are newer; searches and manifests are sound | 2 handles in a cache of 1, TTL 2, 5 ticks, 2 clients, 2 restarts; 2 requests with 2 events, a ring of 1, 1 restart; 3 calls, 4 mints, 2 drops; 2 requests over 3 chapters in up to 2 languages, one more published; 2 jobs, 3 chapters, 3 pages, 2 zones, 1 flip, 1 re-resolve |
| `solvers` | the hop and the lanes; the page of a device; solves implement `SingleFlight` | 2 jobs, 2 lanes, 1 upstream, 1 restart; 3 operations; 2 solves, 1 forced solve, watchdog, 2 launches |
| `android` | foreground solves are shared, leases respected, blocks served, nobody waits in vain | 2 calls, a source with a clearance and a page holder, refresh loop, warm-up, 2 mints, 2 attempts, 1 recovery |
| `v_deleted_data`, `v_isolation`, `v_orphan`, `v_lane` | statements of the documentation that the code does not keep | see section 6 |

Why the bounds are enough:

* `downloads`: every bad interleaving of this surface is between *two* requests, or
  a request, the task and the thread of one job, or two jobs that share a handle
  and a path; the bounds have all of these with a restart in the middle.  The
  proofs remove the bounds for most of its properties.  Its path is a folder, so
  that `ClearFolder` (the removal before the swap) happens; `CompletedHasOutput`,
  which that removal breaks, is checked for archives in `jobs_live`.
* `jobs_live`: two handles so that one job can settle while the other is
  interrupted, two restarts so that a requeued job is interrupted again; five jobs
  fill both layers of semaphores and leave waiters in each.
* `search_live`: two searches suffice for the cooldown since its state is per source;
  the sharing and the cooldowns are proved for any number of callers and keys.  Two
  outages let a source fall again while the supervisor is in a backoff.  Two callers of the
  browser are the smallest number that contends for its permits.
* `services`: a cache of one makes every second mint an eviction; five ticks pass
  two whole TTLs and one more tick.  Two drops let a source refuse what a refresh has
  just minted.  Three chapters of two languages distinguish every filter and order of
  the sources; `FeedPage = 1` makes every chapter a page of the walk.  Two chapters
  share a number and two namespaces an id, which is what the handles must tell apart.
* `browser`: two launches are a first browser and its replacement; the third is
  refused, which is the failing launch.
* `requests`: two calls are enough for a rotation to cool the pin of another call.
  A third proxy is what lets a call rotate twice; with three rotations and three
  proxies both ways out of the loops (budget and pool exhausted) are taken.
* `solvers`: two jobs on two lanes, or on one, are the smallest conflict for hop,
  port and executor; a third operation on a page can meet what two left behind.
  One upstream keeps `Direct` and "through the hop" apart, which is what a wrong
  egress means; the repoint between two upstreams is covered by the theorem
  `HopServesItsHolder`, which holds for any upstreams.
* `android`: a forced call and a refresh of one source, a lease and a waiter for the
  device fit into two calls and two background tasks; a second mint is what a restore
  could overwrite.

Deadlock is checked except where the system may stop: everything the bounds allow
has happened (`jobs_live`, `services`, `solvers`, `android`), or the shutdown is over
(`browser`, `v_orphan`).  `NoVainWait` and `NothingIsStuck` state there what deadlock
checking would: a wait has somebody who ends it.

Symmetry is used only in runs without liveness properties, on clients, calls, jobs
and requests that no definition tells apart.

### What the runs showed

* Submits that race are stopped by the partial unique index alone; the check before
  it is an optimisation.  `OneLiveRowPerHandle` needs the index, and the mutant
  without it breaks it.
* `NoHiddenRow` and `NoStrandedRow` hold through the window between the commit of
  the INSERT and the projection because only the submitting request knows the id.
* The order of boot carries the proof: the requeue comes before the projection, so
  the projection shows every interrupted job as queued and the resume spawns it, and
  the sweep of the staging temps comes before any task that could own one.
* A handle may live for almost two TTLs (`AgesOut` is tight): a row that has one
  tick left is loaded for a whole TTL.
* `AdmissionIsSound` relates the value of each semaphore to its holders *and* to the
  waiters that were woken with a permit.
* `NoProxyTwice` holds although a transport error inside the origin-block loop
  reports the *outer* proxy as the failed one: the proxy that really failed is cooled
  because it is the pin by then, or was cooled by whoever moved the pin.
* `Recovers` holds for the sources that a probe solves for, also when the verdict of
  the warm-up comes late; for an on-demand source the probe only looks, so nothing
  but a query brings it back (section 6).
* `SnapshotKept` needs the exception `torn`: a cancellation between the DELETE and
  the INSERT of a snapshot leaves the DELETE in the open transaction of the shared
  connection, and the commit of the final flush takes it along.
* `RetryIsNewer` holds for CSRF although the refresh compares with what is cached
  when it is asked for: it may mint once more than needed, but never goes back.
* `ServedThroughBlock` is about what the callers of a shared solve find when they
  resume one after the other: each one's snapshot counts, and those of a cancelled
  caller are lost.
* A requested page that was ready when a sibling failed still counts itself; the
  progress stays that of the pass because the engine zeroes it only after the group
  has ended (`PassIsWhole`).
* `OneDriverPerDevice` holds although the lock of a lane is released while an orphan
  still drives: the executor has one worker and keeps the order.
* `PageIsTheWindow` is claimed only where it holds: for page one of the sources that
  sort by date, and for every page of MangaDex.  The others cut their candidates
  before the route applies the offset (section 6).

## 4. Fairness

Weak fairness only, and only of steps that the runtime owes:

* a ready coroutine runs, a thread makes progress, a store statement ends
  (`SubmitStep`, `DeleteStep`, `EngineStep`, `ThreadStep` of `Downloads`, `Turn` of
  `JobScheduler`);
* a process that is down is started again and its boot goes on (the deployment
  restarts the container);
* a network call ends, since httpx, the page loads of the browser and the solver
  calls have finite timeouts (`TaskStep`, `RequestStep`, `PageStep` and `GroupStep`
  of `PageFetch`, `Advance` of `BrowserLifecycle`, which for each task is the step it
  awaits);
* time passes (`Tick` of `FanOut`), so the sleeps of a supervisor end (`Supervise` of
  `SourceHealth`) and so does the recycling of the watchdog;
* a job that holds its permits finishes (`Finish` of `JobScheduler`), which is what
  `JobsSettle` and `FetchEnds` say of the engine;
* an outage ends (`SiteReturns`): `Recovers` says what the gateway does about it, not
  that sites are reliable;
* Mangarr goes on searching (`Search` of `FanOut`): `SourceRecovers` is about a
  source that is up for good and is asked again, since only a call clears its streak.

Nothing obliges a deadline to strike, a process to crash or stop, an entry to expire,
a proxy to recover or a download to be asked for.  The fairness of a part in `MCJobs`
and `MCSearch` is that of its module, restricted to the behaviours of that part.

## 5. Proofs

Eight modules, checked with SMT, Zenon and LS4.  The theorems hold for every value of
the constants that the assumptions of the modules admit.  These say that the bounds are
naturals, that the tables have the domains the code gives them, that sets the code
enumerates are finite and that "nobody" is nobody (`None`, `Nobody` and `NoProxy` are
outside the sets they stand beside).  Two need a word.  `FanOutAssumption` says that a
saturated streak has the longest cooldown already, as the constants of `cooldown.py` do.
`PowersOfTwo` states what `2 ^ n` is for the exponents of a streak: the provers take `^`
for an unknown operator, and TLC evaluates the assumption.  TLC evaluates the others
too, on the values of the runs.

A bound that a guard needs only to keep TLC finite (`MaxRestarts`, `MaxBoots`,
`MaxMints`, `MaxOps`, ...) is any natural in a theorem.

**Download surface** (`Downloads_proofs`).  Type correctness first (`TypeCorrect`).  The
properties are not inductive by themselves; `IndInv` (in `DownloadsProps`) is:

* `RequestsOwnJobs`: the id a request is about to insert is nobody else's, and after
  the insert its row is fresh and without a task.  Without it two requests could
  insert or project the same id;
* `UnmintedUntouched`: an id that was never minted has neither row nor task;
* `TasksFollowRows`: what is durable while a task is at a point, and what it holds in
  memory while it waits for the store.  It is what makes each write a legal
  transition;
* `BootOrder`: during boot there is no task, live rows are queued once the requeue is
  done, and the projection equals the table once it is filled;
* the safety properties themselves.

Two lemmas carry most steps: `TaskMoves` (a task moves, its row stays) and
`RequestMoves` (a request reads).  The steps that write a row are treated one by one.
From `IndInv` follow `OneLiveRow`, `NoStranded`, `ProjectionMatchesTable`, the action
properties `DeletedForGood` and `LiveRowsStay`, and that every step is one of
`JobLifecycle` or a stutter: `ImplementsLifecycle`.

The disk has an invariant of its own on top, `DiskInv`.  `PathsFollowTasks`: only the
task that has published an output writes its path, and a DELETE that has read a path
never meets a live task.  `SweptIsClean`: from the sweep of the boot to the first spawn
there is no temp.  `TempsMatchWriters`: each temp is that of a writer at work, whatever
was cancelled or crashed.  `PublishedStays`: what the writer has put in place is there
until its row says so.  It gives `TempsAreTheWriters` and `ArchivesSurvive`.

`HistoryKeepsNewest` needs that `updated_at` is a strict total order of finitely many
rows (`HistoryIsOrdered`), through every write, delete, prune and requeue: pruning
counts rows, and only in a total order does the count say which are the oldest.

**Admission** (`Jobs_proofs`).  `SInv` says of the two layers of semaphores:
`QueuesMatch` (who waits or is woken is in the queue that its point names, once),
`NothingSpare` (a permit that is free is promised to somebody, as long as anybody
waits), `Conserved` (free permits, holders and the woken add up to the bound of each
semaphore) and `InOrder` (of two jobs of one source the first to ask is ahead: at a
later point, or before the other in the same queue).  A release may wake one task per
layer and the loop runs them later, so each step moves a set of tasks between queues
at once: `Follows` describes such a move, and the lemmas on it are what the proof of
`InOrder` uses throughout.  `AdmissionSound` follows.

**Page fetch** (`Jobs_proofs`).  `FInv` adds `PassFits`: while a pass goes on it has a
manifest, a page that did not come has raised something, and between two passes no
page is kept.  The counters are a cardinality and a sum.  The sum (`BytesOf`) is
recursive; what one page adds to it (`OnePageMore`) is proved with an induction over a
*set* of naturals (`AllNaturals`, from the well-foundedness of `<`), since the rule with
a predicate for a parameter cannot be used.  `PassesAreWhole` holds for any sizes; that
the rounded estimate is the exact size when all pages are in is a fact of integer
division (`Rounds`).

**Single flight and fan-out** (`FanOut_proofs`).  `FlightInv` adds `LeadersRegistered`:
a leader whose key has lost no follower to a deadline is the registered one and its
future is pending.  It gives `NobodyWaitsInVain` and `MissesCollapse`.  Every step of a
search is a step of the cache or leaves it alone (`SearchesShareTheFlight`), so this
holds under the fan-out.  `FanOutInv` adds `Earned`: a cooldown is never longer than its
streak earns.  `CooldownsAreFair` is the action property.

**Handle store** (`Services_proofs`).  `IInv` traces rows, cache entries and what a
resolve has read to one mint.  It gives `HandlesAgeOut`, `NothingIsLost`,
`RefusalsAreRight` and `TypeCorrect`; `MemoryIsBounded` uses finite-set cardinalities
on top.

**Credentials** (`Services_proofs`).  `CInv`: who mints has the lock of the source, what
is kept is the last mint, and what a refresh takes for stale is at least what its call
was refused with (for the signer, exactly that).  `RetriesAreNewer` follows for any
calls and any sequence of drops, for both places in the code.

**Metrics** (`Services_proofs`).  `MInv`: an id above the counter is nobody's
(`IdsAreOnes`), a process that is down runs nothing, a writer is alone in its
transaction (`WriterIsAlone`), and what is committed is the last snapshot unless a
cancellation has torn it (`DiskIsSaved`).  A boot takes up the ids after the largest in
the ring: that there is a largest (`MaxIs`) comes from the well-foundedness of `<` once
more.  `RestartsKeepMetrics` follows.

**Proxies** (`SourceRequest_proofs`).  `NoProxyTwice` counts what a call remembers
(`failed`, `tried`), but two nested loops forget each their own part, so it is not
inductive.  `IInv` says why forgetting is harmless: `FailedAreOut` (what an attempt has
seen fail is in cooldown as long as anything is in flight) and `ActiveWasPinned` (what
an attempt is sent over is the pin, or a proxy that was cooled when the pin moved on).
Since a rotation only picks what is not cooled, and a call begins with the pin,
`FailedProxiesStayBehind` follows for any number of calls, pages, proxies, attempts and
rotations.

**Browser lifecycle** (`BrowserLifecycle_proofs`).  `LInv`: whoever launches or closes
is the head of the lock and there is no context meanwhile (`LockHolders`), what a task
holds fits the step it awaits (`StepsFit`), and every Chromium that runs is the context,
being closed, or one that the history names (`BrowsersKnown`).  `BrowsersAccounted`
follows; `LifecycleFlies` maps every step (forced solves, recycles, crashes and the
shutdown included) to one of `SingleFlight`, which is what the run `solvers` checks as
`SolvesAreSingleFlight`.

**Android client** (`AndroidSolver_proofs`).  `AInv` has four layers.  `DeviceInv`: the
lock lists exactly the users that wait for the device or use it, the user first.
`CallInv`: the solves in flight are those that run, and the queue of a solve lists the
calls that wait for it, each once.  `BlockHolds`: what a call that resumed from a
blocked solve had discarded is held again until the last call of that solve has resumed.  `WarmHolds`: the
warm-up works on the first key it has left.  They give `SolvesAreSingleFlight`,
`WaitsAreAnswered`, `LeasesKeepTheDevice` and `BlocksAreServedThrough`, for any calls,
sources, mints and attempts.

**Sidecar** (`Sidecar_proofs`).  `IInv` says that a pipeline stays in the executor of
its lane until it ends, whatever became of its handler, and that the one that drives is
the head: `DevicesHaveOneDriver`.  `SInv` adds that an executor holds nothing else and
nothing twice (`QueuesHold`), that the hop has one owner, past its lock, with its
upstream and its lane from the repoint to the teardown (`HopHasOwner`), that only that
lane goes through it (`HopIsClean`), and that a solve has wiped what it later reads and
reads the egress of its own upstream (`Mints`).  `HopServesItsHolder` and
`WaitsCloseNoCircle` follow, for any jobs, lanes, upstreams and restarts.

**Page of a device** (`Sidecar_proofs`).  `DInv` of `PageDrive`: a tap whose
verification is under way is told by its banner, or by the interval that the next tap
waits for, and who comes to tap has looked for both (`TapsAreSeen`); the debugger is on
only while the client is captured (`CaptureEnds`); a solve begins without a clearance
(`SolvesTap`).  `DrivesAreSound` follows for any number of operations and batches.

**Pages of a chapter** (`Services_proofs`).  `PagesInv` says of each job that it is on
the way of its source (`WayOK`), that its id was made for its chapter by this source
(`ReleaseOK`), that its manifest is what the source could read, in rising order, and on
ProjectSuki that of the calls made so far (`ManifestOK`), and that the pages it has are
the first ones of the manifest (`FetchesOK`).  `RefusalsOK` says what the 403s of a job
amount to: the zones it has `tried` have all refused the page it is at, and each manifest
before the present one met a 403, so that a job which gives up without another error has
been refused all that the code allows for.  Two lemmas carry the rest: the ids tell the
chapters apart (`PickIs` and its kin, with a least element by the well-foundedness of
`<`), and a list from which `Kept` drops nothing is the list, one from which it drops
something is shorter, so that a count that agrees means that nothing was dropped.
`JobsGetTheirChapters` follows, for any chapters, jobs, pages, zones and
re-resolves.

**Searches** (`Services_proofs`).  They rest on lemmas about lists: what `Kept`,
`Reverse`, `Cut`, `Past` and `Descending` return, that two filters are one, that a cut and
what follows it make a longer cut, and that a sorted list stays as it is, so that what the
source has sorted and cut is not changed by the sort of the route.  `SearchInv` has three
parts:

* `SearchBasis`: types, a site without two chapters of a date (`SiteOK`), and what a
  request has at each place (`Asking`).
* `Sweeping`: whatever was listed when a walk began is among its rows or still ahead of
  it, in the site as it is now (`Sweep`).  An insertion moves the elements behind it one
  place away and none towards the walk, which is what `Within` says; for the cursor of
  Kagane the place of the last row moves along.
* `Exact`: as long as nothing is published, the rows of a walk of MangaDex are the
  beginning of its feed, the enumerations are the feeds of their keys, and an answer is
  the window it stands for.

`SearchesAreSound` follows, for any sites, queries, languages, page sizes, requests and
chapters published meanwhile.

### What proof attempts have shown

* `Sidecar`: a restart of the process forgets *every* job, those with an answer too.
  The clearance of a job that had ended before the restart kept the sidecar's claim
  about its egress alive over an adb state that was gone; with four jobs that broke
  `ClearanceOfItsEgress`, beyond the bounds of the run.
* `AndroidSolver`: a call cannot join a task that is done (`_coalesce` looks at
  `done()`), and whoever awaits a finished task resumes before anybody else takes a
  step.  The proof of `WaitersHold` needs both.
* `CompletedHasOutput` cannot say of a folder what it says of an archive
  (`write_folder` removes the earlier one before the swap); it now says of each
  completed row that it names the output of its job, and of archives that they exist.
* `NewestSurvives` is only true because the rows are ordered *totally*: `prune_terminal`
  counts rows from the newest, and breaks a tie of `updated_at` by `rowid`
  (`jobs/store.py:289`).  `older` is that order.
* `SourceSearch`: a chapter published at the end took the number 9 whatever the last
  one had; it now takes the next.  `RecentIsSearchable` asked with the chapter and the
  offset of the poll and a limit of 50, so that it held of the sites of the run only; it
  now asks for as many as the site has.  A row of Comix without an id is shown by
  a poll (`sources/comix.py` mints a deferred id for it) and dropped by a search, which
  the property now says.
* `ChapterPages`: the argument for a done job needed that the pages it has are those of
  its manifest, so `ManifestIsTheChapter` says that too.  A page that is damaged is asked
  for anew, and MangaFire then starts over with its zones: the refusals of a page must be
  kept over its attempts, and those of one page do not count for the next.

### Only model-checked

* Every liveness property (`JobsSettle`, `EveryJobRuns`, `FetchEnds`, `RequestsEnd`,
  `SourceRecovers`, `SearchEnds`, `Recovers`, `CallsEnd`): fairness and ENABLED are out
  of the prover's reach.  `SourceHealth` promises nothing but `Recovers`.
* The four statements that runs refute.

Every invariant and every action property that a passing run checks is also proved.
Where a definition goes by induction (`Kept`, the sum of bytes of a pass) the lemma about
it is proved by induction over a *set* of naturals, the set of those it holds of
(`AllNaturals`), since the theorems of the library that take a predicate cannot be used.


## 6. Where the code and its documentation disagree

Shown by a run:

* `v_deleted_data`: `DELETE ?deleteData=true` of a job in flight removes its row,
  but not its task, and finds no output path yet; the task publishes the archive
  afterwards and only then fails on the missing row.  A file without a row is left.
* `v_isolation`: the deadline of a leader puts its own `CancelledError` in the shared
  future; a follower of another search raises it through `fan_out`, and that whole
  search fails, healthy sources included, against SRCH-03.
* `v_orphan`: `get_context` does not look at `_closed`, and the lifespan closes the
  solver before it drains the jobs: a job that needs the browser meanwhile launches
  one that nothing closes.
* `v_lane`: every lane of the sidecar gets the default devtools port, and an adb
  server has one table of forwards: the forward of a second lane takes the port from
  the first, whose next devtools session attaches to the other device.

Seen while reading, without a run:

* `sources/mangadot.py:521`, `mangaball.py:678`, `kagane.py:354`, `atsumaru.py:405`,
  `weebcentral.py:576`, `projectsuki.py:619`, `mangafire.py:409` cut their candidates
  to the limit whatever the offset is, while `api/routes/search.py:246-252` slices the
  merged list so that "a given (offset, limit) returns the same window": the second page
  of such a source is empty when it is asked alone.  `PageIsTheWindow` is stated without it.
* `src/android_solver/service.py:1809-1817`: an eval takes any `cf_clearance` in the
  jar for a pass, also a stale one, without a tap (compare 1274-1279); `PageDrive` has
  that branch (`Cookie`), and only `SolveMintsItsOwn`, of solves, is claimed.
* `src/android_solver/service.py:950-961`: an eval labels a clearance that an older
  operation minted with the egress of the present one.  `ClearanceOfItsEgress` is
  claimed of solves.
* `src/android_solver/service.py:2474-2484`: in Python 3.12 the `TimeoutError` that a
  pipeline raises is the exception that `future.result` polls with, so the handler
  takes the finished pipeline for a running one.
* `src/android_solver/service.py:2917`: the boot clears the proxy setting of the
  default lane only; a failed `_clear_proxy_quietly` leaves that of a device for the
  next direct operation.  The claims about the hop have `~leaked` for it.
* `framework/android_solver.py:668-699`: the last good clearance that is restored
  through a block window overwrites one that a refresh has earned meanwhile; and a
  caller that is cancelled takes the clearance it discarded with it.
* `framework/android_solver.py:796`, `framework/context.py:1319-1326` (D-04/D-05): a
  forced solve is said to go through the rotated pin, but it joins a task in flight
  that may have begun on the old pin; and the rotation after a transport error changes
  the pin without clearing again.
* `framework/session_prep.py:216-236`: the refresh compares with what is cached when
  it is asked for, so a late 403 of an old session mints again what a peer has just
  minted.
* `app.py:784-791`: the probe of the watchdog only peeks for an on-demand source, so
  one without a held clearance is not re-enabled while nobody queries it, against
  `app.py:802-807`.  `Recovers` leaves these sources out.
* `framework/solver_lifecycle.py:222`: a solve that ends after a recycle holds a
  clearance of the session that was torn down, which `_close_context` (136-141) clears the
  cache to prevent.  `BrowserLifecycle` has that step (`Solved`); no property covers it.
* `metrics/snapshot.py:323`: a cancelled snapshot leaves its DELETE in the open
  transaction, and the next flush commits it; the module's docstring (16-23) counts
  one snapshot interval as the worst loss.
* A transport error of the solver itself, raised inside `_send`, is taken for one of
  the proxy (`framework/context.py:1105`): `SolveFails` of `SourceRequest` has that
  branch, which rotates away from a proxy that did nothing wrong.
* Two calls that failed on one dead proxy may each rotate and cool a good one; the
  comment at `framework/context.py:1088` accepts it, and so does the model.

## 7. What is abstracted or left out

* Content: titles, URLs, bytes, DTOs, wording, logs.  `DestOf` stands for
  `compute_output_path`; two jobs may have the same path, and do.
* Store statements that fail (disk full, locked), except a missing row.
* `CompletedHasOutput` says of the archive formats that the file exists, and of a folder
  only that its row names it: `write_folder` removes the earlier folder before the swap,
  and a crash in between leaves an older completed row without its output (a listed
  hazard).
* The kill switch and the TTL classes of the enumeration cache; which title a search
  of a source matches (relevance), how the remote bodies are parsed: an entry is
  readable or not.
* In `BrowserLifecycle`, what a fetch does inside the page (the paginated and the
  parallel walks of `antibot.py`) and the driver handles that a relaunch overwrites.
  `Recycles` is the recycling watchdog, which `app.py` leaves off (`recycle_seconds`
  stays 0) and the class supports; the runs turn it on, `v_orphan` does not need it.
* `SourceRequest` takes a solve as a call that comes back; the rate limiter, which
  only delays, is left out; so is the CSRF half, which no source that is pinned has.
  Cooldowns are taken to outlast the calls and pages in flight (minutes against
  seconds): with `GATEWAY_*_COOLDOWN_SECONDS=0`, or for a page that outlasts the
  cooldown, `NoProxyTwice` says nothing.
* `HandleStore` reads one clock for both tiers, where the code has a monotonic one for
  the cache and that of the wall for the table.
* `ChapterPages` fetches the pages of a job one after the other, and does not count
  the attempts for a page or the rotations of the pool: what several pages at once, the
  attempts and the proxies do is in `PageFetch` and `SourceRequest`.  A page that failed
  for good (`Lose`) is one whose attempts are used up.  What a site lists does not change
  between two resolves of a manifest, and the challenge of MangaBall is one of the host,
  not of an address.  An image of MangaFire whose address names no zone is fetched like
  that of any other source, which the other eight already are.
* `AndroidSolver` has one device and no pins; the router in front of it is a table
  from sources to solvers.  `fetch_images_in_webview`, which takes the device as an eval
  does, and the peek of an on-demand source (`solve_if_missing=False`), which takes
  nothing, are left out.  An eval of the code has a budget for an origin 5xx and one for
  403s, a light recovery and then a recycling one; `Recoveries` is one budget for both.  `Sidecar` lets every deadline, grace and disconnect strike
  at any time; the location of the checkbox in a screenshot, the bytes relayed by the
  hop and the wording of the protocol are left out.
* `Metrics` keeps one count for all series; percentiles, redaction and the routes that
  render them are reads.  The two DELETEs of a prune are one step that keeps the newest
  rows in the order of insertion, where the code orders by the time of the event first:
  `NamesOneRequest` does not depend on which rows go.  `MetricsSurvive` excuses a snapshot
  that was torn, and so says nothing of that hazard.
* `SourceSearch` has one title and one source per behaviour: what several sources
  bring is merged by `fan_out`, whose failures are in `FanOut`.  Its chapters are named by
  their dates, so no two of a site have the same one (`SearchAssumption`), and what is
  published meanwhile is newer: how a source orders chapters of one instant is not told.

### Not modelled

* Pure algorithms (`relevance.py`, `external_links.py`, `decrypt.py`, `sanitize.py`):
  functions of one input whose content is strings and weights, with dense unit tests;
  their verdicts are choices in `SourceSearch`.
* Configuration, security, logging, DTOs: validation and wording, no state.
* Scripts, tests, deployment: offline tools and reference for the claims.

## 8. What comes next

Theorems: `SourceHealth` has none, since what it promises is liveness; the safety that
its proof would rest on (the breaker and `CooldownsAreFair` agree on what a hard failure
is) is worth a property of its own.  What the sources that cut before the route do promise
of later pages.

Models: the page walks of `antibot.py` with their fallbacks, the transport with its
deadlines and rate limiter (`transport.py`, `lanes.py`, `ratelimit.py`), the pins
behind a forced solve of `AndroidSolver`, and the router.
