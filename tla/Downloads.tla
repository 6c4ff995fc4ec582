----------------------------- MODULE Downloads -----------------------------
(***************************************************************************)
(* The download surface of the gateway: JobManager (jobs/manager.py), the  *)
(* JobEngine that drives one job (jobs/engine.py), the durable JobStore    *)
(* (jobs/store.py), the archive writers (jobs/package.py) and the part of  *)
(* the application lifespan that starts and stops them (app.py).           *)
(*                                                                         *)
(* The gateway is one asyncio event loop, so the code between two awaits   *)
(* is one atomic step and every await is a point where any other request,  *)
(* job or thread may run.  A point of the vocabularies below is named for  *)
(* what the coroutine does NEXT.  A statement of the store takes effect    *)
(* and is committed in one step: the store has one connection served by    *)
(* one thread in FIFO order, so no answer that saw an uncommitted row can  *)
(* leave before the commit that follows it.                                *)
(*                                                                         *)
(* Abstracted: the order in which waiting jobs are admitted (JobScheduler) *)
(* and how the pages of one job are fetched (PageFetch); here a spawned    *)
(* job may be admitted at any time and a fetch succeeds or fails.          *)
(***************************************************************************)
EXTENDS Naturals, FiniteSets

CONSTANTS
  Jobs,          \* the job ids that can be minted, each at most once (CSPRNG)
  Handles,       \* release handles that clients submit
  Paths,         \* output paths
  Clients,       \* concurrent HTTP requests
  HandleOf,      \* the handle a job is minted for
  DestOf,        \* compute_output_path of a job: (mangaId, title, format) fix it
  FolderPaths,   \* the paths of the "folder" format, published by write_folder
  KeepHistory,   \* settings.max_history_jobs
  MaxRestarts,   \* bound on the number of times the process goes down
  DeleteModes,   \* the values of ?deleteData that clients send
  NoPath,        \* output_path IS NULL
  JobObject,     \* remove() holds the Job object itself, not a copy of its row
  Missing,       \* no file at a path, and no DELETE took it away
  Unlinked       \* no file at a path: a DELETE ?deleteData=true removed it

ASSUME JobsAssumption ==
  /\ HandleOf \in [Jobs -> Handles]
  /\ DestOf \in [Jobs -> Paths]
  /\ FolderPaths \subseteq Paths
  /\ DeleteModes \subseteq BOOLEAN
  /\ KeepHistory \in Nat \ {0}
  /\ MaxRestarts \in Nat
  /\ NoPath \notin Paths /\ JobObject \notin Paths /\ NoPath # JobObject
  /\ Missing \notin Jobs /\ Unlinked \notin Jobs /\ Missing # Unlinked

VARIABLES
  phase,       \* where the process is between boot and shutdown
  restarts,    \* how many times it went down so far
  row,         \* the jobs table: status and output_path of every row
  older,       \* the order of updated_at: <<i, j>> when j was written after i
  minted,      \* the ids that were ever inserted
  mem,         \* the Job object of this process for each id
  projection,  \* the ids in JobManager._projection
  task,        \* where the background task of each job is
  files,       \* what is at each output path: the job that published it
  temps,       \* the jobs whose staging temp is on disk
  client       \* where each HTTP request is

dbVars   == <<row, older, minted>>
diskVars == <<files, temps>>
vars == <<phase, restarts, row, older, minted, mem, projection, task, files,
          temps, client>>

-----------------------------------------------------------------------------
LiveStatus     == {"queued", "resolving", "downloading", "archiving"}
TerminalStatus == {"completed", "failed"}
Record == [status : LiveStatus \cup TerminalStatus, path : Paths \cup {NoPath}]
Row    == Record \cup [status : {"absent"}, path : {NoPath}]

NoRow == [status |-> "absent", path |-> NoPath]
BugFreshJob == [status |-> "warning", path |-> NoPath]  \* a wire-only status
FreshJob == [status |-> "queued", path |-> NoPath]

\* Points where the engine awaits store.update, and where it goes from there.
Persisting == {"resolve", "start", "pack", "finish", "fail"}
BugAfterPersist == [resolve |-> "manifest", start |-> "fetch", pack |-> "written",
                    finish |-> "none", fail |-> "none"]  \* COMPLETED before the archive
AfterPersist == [resolve |-> "manifest", start |-> "fetch", pack |-> "stage",
                 finish |-> "none", fail |-> "none"]
\* Points of the writer thread, which runs outside the event loop.
Writing == {"stage", "clear", "publish"}
TaskPoints == {"none", "spawned", "waiting", "manifest", "fetch", "written"}
                \cup Persisting \cup Writing

SubmitPoints == {"find_live", "find_latest", "stat", "insert", "reread", "project"}
DeletePoints == {"lookup", "delete_row", "unlink"}
Idle == [at |-> "idle"]
Request ==
  {Idle} \cup [at : SubmitPoints, job : Jobs, path : Paths \cup {NoPath}]
         \cup [at : DeletePoints, job : Jobs, path : Paths \cup {NoPath, JobObject},
               data : BOOLEAN]

Phases == {"down", "requeued", "projected", "swept", "up", "draining", "closing"}

Rows      == {j \in Jobs : row[j].status # "absent"}
LiveRows  == {j \in Jobs : row[j].status \in LiveStatus}
TerminalRows == {j \in Jobs : row[j].status \in TerminalStatus}
RowsOf(h) == {j \in Rows : HandleOf[j] = h}
LiveRowsOf(h) == {j \in LiveRows : HandleOf[j] = h}

\* A write stamps updated_at with the present: j becomes the newest row.
Touch(order, j) == {p \in order : p[1] # j /\ p[2] # j}
                     \cup {<<i, j>> : i \in Rows \ {j}}
Forget(order, S) == {p \in order : p[1] \notin S /\ p[2] \notin S}

\* store.find_latest_by_handle: ORDER BY updated_at DESC LIMIT 1.
IsLatest(j, h) == j \in RowsOf(h) /\ \A i \in RowsOf(h) : <<j, i>> \notin older

\* The partial unique index ix_jobs_live_handle lets j in.
BugIndexAdmits(j) == TRUE  \* no index: find_live_by_handle is the only check
IndexAdmits(j) == LiveRowsOf(HandleOf[j]) = {}

\* The terminal rows that prune_terminal deletes: all but the newest ones.
BugSurplusOfAll == {j \in Rows :  \* the status filter forgotten
  Cardinality({i \in Rows : <<j, i>> \in older}) >= KeepHistory}
BugSurplusNewest == {j \in TerminalRows :  \* ORDER BY updated_at ASC
  Cardinality({i \in TerminalRows : <<i, j>> \in older}) >= KeepHistory}
Surplus == {j \in TerminalRows :
              Cardinality({i \in TerminalRows : <<j, i>> \in older}) >= KeepHistory}

\* The rows that store.all brings into the projection at boot.
BugListedLive == LiveRows  \* the history forgotten
Listed == Rows \ Surplus

\* The rows that a restart queues again.
BugInterrupted == {j \in Rows : row[j].status # "completed"}  \* failed ones too
Interrupted == LiveRows

\* The projected jobs that resume_interrupted spawns.
BugResumed == {}  \* rehydrated and never spawned
Resumed == {j \in projection : mem[j].status = "queued"}

OnDisk(p) == files[p] \in Jobs

Init ==
  /\ phase = "up"
  /\ restarts = 0
  /\ row = [j \in Jobs |-> NoRow]
  /\ older = {}
  /\ minted = {}
  /\ mem = [j \in Jobs |-> FreshJob]
  /\ projection = {}
  /\ task = [j \in Jobs |-> "none"]
  /\ files = [p \in Paths |-> Missing]
  /\ temps = {}
  /\ client = [c \in Clients |-> Idle]

-----------------------------------------------------------------------------
(* POST /downloads: JobManager.submit, one step per await.                 *)

Goto(c, point) == client' = [client EXCEPT ![c].at = point]
Answer(c)      == client' = [client EXCEPT ![c] = Idle]
At(c, point)   == phase = "up" /\ client[c].at = point

Unused == {j \in Jobs \ minted : \A c \in Clients : client[c] # Idle => client[c].job # j}

\* A request arrives; j is the id it would mint, if it comes to that.
Submit(c, j) ==
  /\ At(c, "idle")
  /\ j \in Unused
  /\ client' = [client EXCEPT ![c] = [at |-> "find_live", job |-> j, path |-> NoPath]]
  /\ UNCHANGED <<phase, restarts, dbVars, mem, projection, task, diskVars>>

\* find_live_by_handle: a live job for this handle is the answer.
SubmitFindLive(c) ==
  /\ At(c, "find_live")
  /\ IF LiveRowsOf(HandleOf[client[c].job]) # {}
       THEN Answer(c)
       ELSE Goto(c, "find_latest")
  /\ UNCHANGED <<phase, restarts, dbVars, mem, projection, task, diskVars>>

\* find_latest_by_handle: a completed job with an output path is worth a stat.
SubmitFindLatest(c) ==
  /\ At(c, "find_latest")
  /\ LET h == HandleOf[client[c].job]
         candidates == {j \in RowsOf(h) : /\ IsLatest(j, h)
                                          /\ row[j].status = "completed"
                                          /\ row[j].path # NoPath}
     IN \/ /\ candidates = {}
           /\ Goto(c, "insert")
        \/ \E j \in candidates :
             client' = [client EXCEPT ![c].at = "stat", ![c].path = row[j].path]
  /\ UNCHANGED <<phase, restarts, dbVars, mem, projection, task, diskVars>>

\* os.path.exists on the output path that was read.
SubmitStat(c) ==
  /\ At(c, "stat")
  /\ IF OnDisk(client[c].path) THEN Answer(c) ELSE Goto(c, "insert")
  /\ UNCHANGED <<phase, restarts, dbVars, mem, projection, task, diskVars>>

\* Mint the Job and INSERT it; the partial unique index refuses a second live
\* row of the handle.
SubmitInsert(c) ==
  /\ At(c, "insert")
  /\ LET j == client[c].job IN
       \/ /\ IndexAdmits(j)
          /\ row' = [row EXCEPT ![j] = FreshJob]
          /\ older' = Touch(older, j)
          /\ minted' = minted \cup {j}
          /\ mem' = [mem EXCEPT ![j] = FreshJob]
          /\ Goto(c, "project")
       \/ /\ ~IndexAdmits(j)
          /\ Goto(c, "reread")
          /\ UNCHANGED <<dbVars, mem>>
  /\ UNCHANGED <<phase, restarts, projection, task, diskVars>>

\* The live job that won the race is the answer; if it is gone again the
\* IntegrityError is the answer.
SubmitReread(c) ==
  /\ At(c, "reread")
  /\ Answer(c)
  /\ UNCHANGED <<phase, restarts, dbVars, mem, projection, task, diskVars>>

\* Back from the insert: publish the job in the projection and spawn its task.
SubmitProject(c) ==
  /\ At(c, "project")
  /\ projection' = projection \cup {client[c].job}
  /\ task' = [task EXCEPT ![client[c].job] = "spawned"]
  /\ Answer(c)
  /\ UNCHANGED <<phase, restarts, dbVars, mem, diskVars>>

SubmitStep(c) ==
  \/ SubmitFindLive(c) \/ SubmitFindLatest(c) \/ SubmitStat(c)
  \/ SubmitInsert(c) \/ SubmitReread(c) \/ SubmitProject(c)

-----------------------------------------------------------------------------
(* DELETE /downloads/{jobId}: JobManager.remove, one step per await.       *)

\* An id is known once the submit that minted it has been answered: another
\* submit that finds the row is answered later still (its reads queue behind
\* the commit, and the loop resumes in the order of the results).
Known == {j \in minted : \A c \in Clients : client[c].at = "project" => client[c].job # j}

\* A projected job is popped at once; any other id is looked up in the store.
Delete(c, j, data) ==
  /\ At(c, "idle")
  /\ j \in Known
  /\ client' = [client EXCEPT ![c] =
       [at |-> IF j \in projection THEN "delete_row" ELSE "lookup", job |-> j,
        path |-> JobObject, data |-> data]]
  /\ projection' = projection \ {j}
  /\ UNCHANGED <<phase, restarts, dbVars, mem, task, diskVars>>

\* store.get: 404 without a row, else remove goes on with a copy of the row.
DeleteLookup(c) ==
  /\ At(c, "lookup")
  /\ LET j == client[c].job IN
       \/ j \notin Rows /\ Answer(c) /\ UNCHANGED projection
       \/ /\ j \in Rows
          /\ client' = [client EXCEPT ![c].at = "delete_row", ![c].path = row[j].path]
          /\ projection' = projection \ {j}
  /\ UNCHANGED <<phase, restarts, dbVars, mem, task, diskVars>>

BugDeleteRow(c) ==  \* only what was projected is forgotten
  /\ At(c, "delete_row")
  /\ IF client[c].data THEN Goto(c, "unlink") ELSE Answer(c)
  /\ UNCHANGED <<phase, restarts, dbVars, mem, projection, task, diskVars>>

\* store.delete.
DeleteRow(c) ==
  /\ At(c, "delete_row")
  /\ row' = [row EXCEPT ![client[c].job] = NoRow]
  /\ older' = Forget(older, {client[c].job})
  /\ IF client[c].data THEN Goto(c, "unlink") ELSE Answer(c)
  /\ UNCHANGED <<phase, restarts, minted, mem, projection, task, diskVars>>

\* The staging temps that _unlink_job_files removes: those of the job itself.
BugOwnTemps(j) == Jobs  \* every *.tmp of the folder (Bug B)
OwnTemps(j) == {j}

\* _unlink_job_files, in a thread: the output path is read from the Job that
\* remove() holds, which the engine may still be writing to.
DeleteUnlink(c) ==
  /\ At(c, "unlink")
  /\ LET j == client[c].job
         path == IF client[c].path = JobObject THEN mem[j].path ELSE client[c].path
     IN \/ path = NoPath /\ UNCHANGED diskVars
        \/ /\ path # NoPath
           /\ files' = [files EXCEPT ![path] = IF OnDisk(path) THEN Unlinked ELSE @]
           /\ temps' = temps \ OwnTemps(j)
  /\ Answer(c)
  /\ UNCHANGED <<phase, restarts, dbVars, mem, projection, task>>

DeleteStep(c) == DeleteLookup(c) \/ DeleteRow(c) \/ DeleteUnlink(c)

-----------------------------------------------------------------------------
(* The background task of a job: JobManager._run_guarded, JobEngine.run.   *)

LoopRuns == phase \in {"up", "draining"}
TaskAt(j, point) == LoopRuns /\ task[j] = point

\* Every transition sets job.status in memory and only then awaits the store.
SetStatus(j, status, point) ==
  /\ mem' = [mem EXCEPT ![j].status = status]
  /\ task' = [task EXCEPT ![j] = point]
  /\ UNCHANGED <<phase, restarts, dbVars, projection, diskVars, client>>

FailJob(j) == SetStatus(j, "failed", "fail")

\* _run_guarded begins: a job that was deleted since the spawn is dropped.
TaskBegin(j) ==
  /\ TaskAt(j, "spawned")
  /\ task' = [task EXCEPT ![j] = IF j \in projection THEN "waiting" ELSE "none"]
  /\ UNCHANGED <<phase, restarts, dbVars, mem, projection, diskVars, client>>

\* Both semaphores are held: RESOLVING, or failed for an unknown source.
Admit(j) ==
  /\ TaskAt(j, "waiting")
  /\ SetStatus(j, "resolving", "resolve") \/ FailJob(j)

BugPersist(j) ==  \* an upsert: a row that was deleted comes back
  /\ LoopRuns /\ task[j] \in Persisting
  /\ row' = [row EXCEPT ![j] = mem[j]]
  /\ older' = Touch(older, j)
  /\ task' = [task EXCEPT ![j] = AfterPersist[task[j]]]
  /\ UNCHANGED <<phase, restarts, minted, mem, projection, diskVars, client>>

\* store.update writes the whole Job to its row.
Persist(j) ==
  /\ LoopRuns /\ task[j] \in Persisting /\ j \in Rows
  /\ row' = [row EXCEPT ![j] = mem[j]]
  /\ older' = Touch(older, j)
  /\ task' = [task EXCEPT ![j] = AfterPersist[task[j]]]
  /\ UNCHANGED <<phase, restarts, minted, mem, projection, diskVars, client>>

\* The row was deleted: rowcount # 1 is a KeyError, which run() turns into one
\* more _fail; the KeyError of that one ends the task.
PersistMissing(j) ==
  /\ LoopRuns /\ task[j] \in Persisting /\ j \notin Rows
  /\ \/ task[j] # "fail" /\ FailJob(j)
     \/ /\ task[j] = "fail"
        /\ task' = [task EXCEPT ![j] = "none"]
        /\ UNCHANGED <<phase, restarts, dbVars, mem, projection, diskVars, client>>

\* fetch_manifest returns pages; or it raises, or there is no page or chapter.
FetchManifest(j) ==
  /\ TaskAt(j, "manifest")
  /\ SetStatus(j, "downloading", "start") \/ FailJob(j)

\* _fetch_all_pages returns every page, or raises.
FetchPages(j) ==
  /\ TaskAt(j, "fetch")
  /\ SetStatus(j, "archiving", "pack") \/ FailJob(j)

\* Back from the writer thread: the path is set and COMPLETED is on its way.
FinishJob(j) ==
  /\ TaskAt(j, "written")
  /\ mem' = [mem EXCEPT ![j] = [status |-> "completed", path |-> DestOf[j]]]
  /\ task' = [task EXCEPT ![j] = "finish"]
  /\ UNCHANGED <<phase, restarts, dbVars, projection, diskVars, client>>

EngineStep(j) ==
  \/ TaskBegin(j) \/ Admit(j) \/ Persist(j) \/ PersistMissing(j)
  \/ FetchManifest(j) \/ FetchPages(j) \/ FinishJob(j)

-----------------------------------------------------------------------------
(* The writer thread of a job: write_cbz, write_cbt, write_folder.         *)

\* asyncio cannot cancel a thread: it goes on until the process has ended.
ThreadAt(j, point) == phase \in {"up", "draining", "closing"} /\ task[j] = point

WriteTemp(j) ==
  /\ ThreadAt(j, "stage")
  /\ temps' = temps \cup {j}
  /\ task' = [task EXCEPT ![j] = IF DestOf[j] \in FolderPaths THEN "clear" ELSE "publish"]
  /\ UNCHANGED <<phase, restarts, dbVars, mem, projection, files, client>>

\* write_folder removes the folder of an earlier grab before the swap.
ClearFolder(j) ==
  /\ ThreadAt(j, "clear")
  /\ files' = [files EXCEPT ![DestOf[j]] = IF OnDisk(DestOf[j]) THEN Missing ELSE @]
  /\ task' = [task EXCEPT ![j] = "publish"]
  /\ UNCHANGED <<phase, restarts, dbVars, mem, projection, temps, client>>

\* os.replace takes the temp to the output path, over a file that is there; a
\* folder that is there again makes it fail.
CanReplace(j) == j \in temps /\ (DestOf[j] \in FolderPaths => ~OnDisk(DestOf[j]))

Publish(j) ==
  /\ ThreadAt(j, "publish")
  /\ CanReplace(j)
  /\ files' = [files EXCEPT ![DestOf[j]] = j]
  /\ temps' = temps \ {j}
  /\ task' = [task EXCEPT ![j] = "written"]
  /\ UNCHANGED <<phase, restarts, dbVars, mem, projection, client>>

\* Any failure of the writer removes its temp and fails the job.
WriteFails(j) ==
  /\ \E point \in Writing : ThreadAt(j, point)
  /\ temps' = temps \ {j}
  /\ mem' = [mem EXCEPT ![j].status = "failed"]
  /\ task' = [task EXCEPT ![j] = "fail"]
  /\ UNCHANGED <<phase, restarts, dbVars, projection, files, client>>

ThreadStep(j) == WriteTemp(j) \/ ClearFolder(j) \/ Publish(j) \/ WriteFails(j)

-----------------------------------------------------------------------------
(* The lifespan: shutdown, crash, and the boot sequence.                   *)

\* Shutdown waits for the requests in flight, then for the tasks (drain).
Stop ==
  /\ phase = "up" /\ restarts < MaxRestarts
  /\ \A c \in Clients : client[c] = Idle
  /\ phase' = "draining"
  /\ UNCHANGED <<restarts, dbVars, mem, projection, task, diskVars, client>>

\* The drain ends, or times out and cancel_all ends the tasks that are left: a
\* cancelled task writes nothing more, but its writer thread runs on.
Close ==
  /\ phase = "draining"
  /\ phase' = "closing"
  /\ task' = [j \in Jobs |-> IF task[j] \in Writing THEN task[j] ELSE "none"]
  /\ UNCHANGED <<restarts, dbVars, mem, projection, diskVars, client>>

ProcessEnds ==
  /\ restarts < MaxRestarts
  /\ phase' = "down"
  /\ restarts' = restarts + 1
  /\ mem' = [j \in Jobs |-> FreshJob]
  /\ projection' = {}
  /\ task' = [j \in Jobs |-> "none"]
  /\ client' = [c \in Clients |-> Idle]
  /\ UNCHANGED <<dbVars, diskVars>>

Exit ==
  /\ phase = "closing"
  /\ \A j \in Jobs : task[j] \notin Writing
  /\ ProcessEnds

Crash == phase # "down" /\ ProcessEnds

\* store.rehydrate: every live row is queued again, its progress cleared.
Requeue ==
  /\ phase = "down"
  /\ phase' = "requeued"
  /\ row' = [j \in Jobs |-> IF j \in Interrupted THEN FreshJob ELSE row[j]]
  /\ older' = {p \in older : p[1] \in Interrupted => p[2] \in Interrupted}
                \cup ((Rows \ Interrupted) \X Interrupted)
  /\ UNCHANGED <<restarts, minted, mem, projection, task, diskVars, client>>

\* prune_terminal, then store.all becomes the projection.
Project ==
  /\ phase = "requeued"
  /\ phase' = "projected"
  /\ row' = [j \in Jobs |-> IF j \in Surplus THEN NoRow ELSE row[j]]
  /\ older' = Forget(older, Surplus)
  /\ projection' = Listed
  /\ mem' = [j \in Jobs |-> IF j \in Listed THEN row[j] ELSE FreshJob]
  /\ UNCHANGED <<restarts, minted, task, diskVars, client>>

\* _sweep_staging unlinks every staging temp under the output root.
Sweep ==
  /\ phase = "projected"
  /\ phase' = "swept"
  /\ temps' = {}
  /\ UNCHANGED <<restarts, dbVars, mem, projection, task, files, client>>

\* resume_interrupted spawns a task for every queued job of the projection.
Resume ==
  /\ phase = "swept"
  /\ phase' = "up"
  /\ task' = [j \in Jobs |-> IF j \in Resumed THEN "spawned" ELSE task[j]]
  /\ UNCHANGED <<restarts, dbVars, mem, projection, diskVars, client>>

Lifespan == Stop \/ Close \/ Exit \/ Requeue \/ Project \/ Sweep \/ Resume

-----------------------------------------------------------------------------
Arrival ==
  \E c \in Clients, j \in Jobs :
    \/ Submit(c, j)
    \/ \E data \in DeleteModes : Delete(c, j, data)

Next ==
  \/ Arrival
  \/ \E c \in Clients : SubmitStep(c) \/ DeleteStep(c)
  \/ \E j \in Jobs : EngineStep(j) \/ ThreadStep(j)
  \/ Lifespan
  \/ Crash

Spec == Init /\ [][Next]_vars

\* The loop runs every ready coroutine, a thread gets its turn, remote calls
\* end (their timeouts are finite) and a process that is down is started again.
\* Nothing obliges clients to ask, nor the process to stop or to crash.
Fairness ==
  /\ \A c \in Clients : WF_vars(SubmitStep(c)) /\ WF_vars(DeleteStep(c))
  /\ \A j \in Jobs : WF_vars(EngineStep(j)) /\ WF_vars(ThreadStep(j))
  /\ WF_vars(Close \/ Exit \/ Requeue \/ Project \/ Sweep \/ Resume)

FairSpec == Spec /\ Fairness
=============================================================================
