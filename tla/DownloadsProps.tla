--------------------------- MODULE DownloadsProps ---------------------------
(* What must hold of the download surface (module Downloads). *)
EXTENDS Downloads

TypeOK ==
  /\ phase \in Phases
  /\ restarts \in 0..MaxRestarts
  /\ row \in [Jobs -> Row]
  /\ older \subseteq Jobs \X Jobs
  /\ minted \subseteq Jobs
  /\ mem \in [Jobs -> Record]
  /\ projection \subseteq Jobs
  /\ task \in [Jobs -> TaskPoints]
  /\ files \in [Paths -> Jobs \cup {Missing, Unlinked}]
  /\ temps \subseteq Jobs
  /\ client \in [Clients -> Request]

\* A request of client c that is about to insert j in the projection, and one
\* that is about to delete the row of j.
Projecting(j) == \E c \in Clients : client[c].at = "project" /\ client[c].job = j
Deleting(j)   == \E c \in Clients : client[c].at = "delete_row" /\ client[c].job = j

\* D-27: a release handle never has two live rows, whatever submits race and
\* whatever a restart requeues.
OneLiveRowPerHandle ==
  \A i, j \in LiveRows : HandleOf[i] = HandleOf[j] => i = j

\* No live row is stranded: while the loop runs, a live row has a task that
\* drives it, or a request that is about to spawn or to delete it.  A stranded
\* row would answer every later submit of its handle and never finish.
NoStrandedRow ==
  LoopRuns => \A j \in LiveRows : task[j] # "none" \/ Projecting(j) \/ Deleting(j)

\* GET /downloads hides no row: it is projected, or a request is on its way to
\* project it or to delete it.
NoHiddenRow ==
  LoopRuns => \A j \in Rows : j \in projection \/ Projecting(j) \/ Deleting(j)

\* GET /downloads lists no ghost: while the loop runs, every projected job has a
\* row, although DELETE takes the two away at different times and a task may
\* outlive both.
ProjectedHasRow == LoopRuns => projection \subseteq Rows

\* The staging temps on disk are those of the writers at work: none is swept or
\* deleted under its writer (Bug B), none survives its job or the next boot.
TempsMatchWriters ==
  phase \in {"up", "draining", "closing"} =>
    temps = {j \in Jobs : task[j] \in {"clear", "publish"}}

\* A durable completed row names the output of its job, and the archive is on
\* disk there, through every crash between the publish and the commit, unless a
\* DELETE took the file.  A folder is there only until the same release is
\* grabbed again: write_folder removes it before the new one is in place.
CompletedHasOutput ==
  \A j \in Jobs : row[j].status = "completed" =>
    /\ row[j].path = DestOf[j]
    /\ row[j].path \notin FolderPaths => files[row[j].path] # Missing

\* A row that was deleted never comes back: a task that outlives the DELETE of
\* its job must not write the row again.
DeletedStaysDeleted ==
  [][\A j \in minted : j \notin Rows => j \notin Rows']_vars

\* Only a DELETE of its own id removes a live row: the pruning of the history
\* never takes a job that is still to be done.
LiveRowOnlyDeleted ==
  [][\A j \in LiveRows : j \notin Rows' => Deleting(j)]_vars

\* IN-05: the history keeps its newest terminal rows through every restart: a
\* terminal row that no DELETE removes has a newer one, and none that stays is
\* older than it.
NewestSurvives ==
  [][\A j \in TerminalRows : j \notin Rows' /\ ~Deleting(j) =>
       /\ \E i \in TerminalRows : <<j, i>> \in older
       /\ \A i \in TerminalRows : i \in Rows' => <<j, i>> \in older]_vars

\* A job that was accepted settles: it ends, or it is deleted, however often
\* the process goes down in between (a bounded number of times).
JobsSettle == \A j \in Jobs : (j \in LiveRows) ~> (j \notin LiveRows)

\* The durable life of the jobs is the one JobLifecycle promises.
LifeOf(j) ==
  IF j \in Rows THEN row[j].status ELSE IF j \in minted THEN "gone" ELSE "unborn"
Life == INSTANCE JobLifecycle WITH status <- [j \in Jobs |-> LifeOf(j)]
Lifecycle == Life!Spec

-----------------------------------------------------------------------------
(* Claims of the code's own documentation that the runs refute.            *)

\* openapi: DELETE removes the job and, with deleteData, its files: nothing that
\* the job published is left once its row, its task and the request are gone.
DeletedDataIsGone ==
  \A j \in minted \ Rows :
    /\ task[j] = "none"
    /\ \A c \in Clients : client[c] # Idle => client[c].job # j
    => files[DestOf[j]] # j

-----------------------------------------------------------------------------
(* The inductive invariant: what the properties above rest on.             *)

\* A request works on a job of its own until the row is in; then the row is as
\* it was inserted until the request projects it.  A request that deletes has
\* already taken its job out of the projection.
RequestsOwnJobs ==
  \A c \in Clients :
    /\ phase # "up" => client[c].at = "idle"
    /\ client[c].at \in SubmitPoints \ {"project"} => client[c].job \notin minted
    /\ client[c].at = "project" =>
         /\ client[c].job \in minted
         /\ row[client[c].job] = FreshJob
         /\ task[client[c].job] = "none"
    /\ client[c].at \in SubmitPoints =>
         \A d \in Clients \ {c} : client[d].at # "idle" => client[d].job # client[c].job
    /\ client[c].at \in DeletePoints => client[c].job \in minted
    /\ client[c].at = "delete_row" => client[c].job \notin projection

UnmintedUntouched == \A j \in Jobs \ minted : row[j] = NoRow /\ task[j] = "none"

\* The status that is durable while a task is at a point, and the one that it
\* holds in memory while it waits for the store.
DurableAt == [point \in TaskPoints |->
  CASE point \in {"spawned", "waiting", "resolve"} -> {"queued"}
    [] point \in {"manifest", "start"} -> {"resolving"}
    [] point \in {"fetch", "pack"} -> {"downloading"}
    [] point \in {"stage", "clear", "publish", "written", "finish"} -> {"archiving"}
    [] point = "fail" -> LiveStatus
    [] OTHER -> LiveStatus \cup TerminalStatus]
PendingAt == [resolve |-> "resolving", start |-> "downloading", pack |-> "archiving",
              finish |-> "completed", fail |-> "failed"]

TasksFollowRows ==
  \A j \in Jobs :
    /\ j \in Rows => row[j].status \in DurableAt[task[j]]
    /\ task[j] \in Persisting => mem[j].status = PendingAt[task[j]]

Booting == phase \in {"down", "requeued", "projected", "swept"}

BootOrder ==
  /\ Booting => \A j \in Jobs : task[j] = "none"
  /\ phase \in {"requeued", "projected", "swept"} => \A j \in LiveRows : row[j].status = "queued"
  /\ phase \in {"projected", "swept"} =>
       projection = Rows /\ \A j \in projection : mem[j] = row[j]

IndInv ==
  /\ TypeOK
  /\ RequestsOwnJobs
  /\ UnmintedUntouched
  /\ TasksFollowRows
  /\ BootOrder
  /\ OneLiveRowPerHandle
  /\ NoStrandedRow
  /\ NoHiddenRow
  /\ ProjectedHasRow

-----------------------------------------------------------------------------
(* What the properties of the disk and of the history rest on, given IndInv. *)

\* The points of a task that has not set the path of its job yet.
PathlessPoints == {"spawned", "waiting", "resolve", "manifest", "start", "fetch", "pack",
                   "stage", "clear", "publish", "written"}

\* Only a job that is done has a path, and no task works on a job whose path a
\* DELETE has read.
PathsFollowTasks ==
  /\ \A j \in LiveRows : row[j].path = NoPath
  /\ \A j \in Jobs : task[j] \in PathlessPoints => mem[j].path = NoPath
  /\ \A j \in Jobs : task[j] = "finish" => mem[j].path = DestOf[j]
  /\ \A c \in Clients :
       /\ client[c].at = "project" => mem[client[c].job].path = NoPath
       /\ client[c].at \in DeletePoints /\ client[c].path \in Paths =>
            task[client[c].job] = "none"

SweptIsClean == phase = "swept" => temps = {}

\* An archive that was published stays, until its row says so and after.
PublishedStays ==
  /\ \A j \in Jobs : task[j] = "clear" => DestOf[j] \in FolderPaths
  /\ \A j \in Jobs : task[j] \in {"written", "finish"} /\ DestOf[j] \notin FolderPaths =>
       files[DestOf[j]] # Missing

DiskInv ==
  /\ PathsFollowTasks
  /\ SweptIsClean
  /\ TempsMatchWriters
  /\ PublishedStays
  /\ CompletedHasOutput

\* A strict total order of the set S.
StrictOrder(order, S) ==
  /\ order \subseteq S \X S
  /\ \A i \in S : <<i, i>> \notin order
  /\ \A i, j \in S : i # j => (<<i, j>> \in order <=> <<j, i>> \notin order)
  /\ \A i, j, k \in S : <<i, j>> \in order /\ <<j, k>> \in order => <<i, k>> \in order

\* updated_at orders the rows, which are finitely many.
HistoryIsOrdered == IsFiniteSet(minted) /\ StrictOrder(older, Rows)
=============================================================================
