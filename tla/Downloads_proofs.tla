--------------------------- MODULE Downloads_proofs ---------------------------
(***************************************************************************)
(* Proofs about the download surface, for every value of the constants:    *)
(* its types, the inductive invariant IndInv of DownloadsProps, the safety *)
(* properties that follow from it, and the refinement of JobLifecycle;     *)
(* then its disk and its history.                                          *)
(*                                                                         *)
(* Most steps are of two kinds, and one lemma treats each: TaskMoves for a *)
(* step of a task that leaves its row alone, RequestMoves for a step of a  *)
(* request that reads.  The steps that write a row follow one by one.      *)
(***************************************************************************)
EXTENDS DownloadsProps, FiniteSetTheorems, TLAPS

\* The kinds of request are told apart by where they are.
LEMMA RequestKinds ==
  ASSUME NEW r \in Request
  PROVE  /\ r.at \in {"idle"} \cup SubmitPoints \cup DeletePoints
         /\ r.at = "idle" <=> r = Idle
         /\ r.at \in SubmitPoints =>
              r \in [at : SubmitPoints, job : Jobs, path : Paths \cup {NoPath}]
         /\ r.at \in DeletePoints =>
              r \in [at : DeletePoints, job : Jobs, path : Paths \cup {NoPath, JobObject},
                     data : BOOLEAN]
BY DEF Request, Idle, SubmitPoints, DeletePoints

\* A request that goes on stays a request of its kind.
LEMMA GotoKeepsRequest ==
  ASSUME NEW r \in Request, NEW point,
         \/ r.at \in SubmitPoints /\ point \in SubmitPoints
         \/ r.at \in DeletePoints /\ point \in DeletePoints
  PROVE  [r EXCEPT !.at = point] \in Request
<1>1. CASE r.at \in SubmitPoints /\ point \in SubmitPoints
  <2>1. r \in [at : SubmitPoints, job : Jobs, path : Paths \cup {NoPath}]
    BY <1>1, RequestKinds
  <2>2. [r EXCEPT !.at = point] \in [at : SubmitPoints, job : Jobs, path : Paths \cup {NoPath}]
    BY <1>1, <2>1
  <2> QED BY <2>2 DEF Request
<1>2. CASE r.at \in DeletePoints /\ point \in DeletePoints
  <2> DEFINE D == [at : DeletePoints, job : Jobs, path : Paths \cup {NoPath, JobObject},
                   data : BOOLEAN]
  <2>1. r \in D
    BY <1>2, RequestKinds
  <2>2. [r EXCEPT !.at = point] \in D
    BY <1>2, <2>1
  <2> QED BY <2>2 DEF Request
<1> QED BY <1>1, <1>2

\* So does a POST that takes up the path of a row.
LEMMA PathKeepsRequest ==
  ASSUME NEW r \in Request, r.at \in SubmitPoints, NEW p \in Paths \cup {NoPath}
  PROVE  [r EXCEPT !.at = "stat", !.path = p] \in Request
<1> DEFINE S == [at : SubmitPoints, job : Jobs, path : Paths \cup {NoPath}]
<1>1. r \in S
  BY RequestKinds
<1>2. "stat" \in SubmitPoints
  BY DEF SubmitPoints
<1>3. [r EXCEPT !.at = "stat", !.path = p] \in S
  BY <1>1, <1>2
<1> QED BY <1>3 DEF Request

\* The type invariant holds at the start and is preserved by every step.
LEMMA InitTyped == Init => TypeOK
<1> SUFFICES ASSUME Init PROVE TypeOK
  OBVIOUS
<1>1. NoRow \in Row /\ FreshJob \in Record
  BY DEF NoRow, Row, FreshJob, Record, LiveStatus
<1>2. Idle \in Request
  BY DEF Request
<1> QED BY <1>1, <1>2, JobsAssumption DEF Init, TypeOK, Phases, TaskPoints

LEMMA SubmitTyped ==
  ASSUME TypeOK, NEW c \in Clients, SubmitStep(c) \/ (\E j \in Jobs : Submit(c, j))
  PROVE  TypeOK'
<1> USE DEF TypeOK
<1>0. Idle \in Request /\ FreshJob \in Record /\ FreshJob \in Row
  BY DEF Request, FreshJob, Record, Row, LiveStatus
<1>1. ASSUME NEW j \in Jobs, Submit(c, j) PROVE TypeOK'
  <2>1. [at |-> "find_live", job |-> j, path |-> NoPath] \in Request
    BY DEF Request, SubmitPoints
  <2> QED BY <1>1, <2>1 DEF Submit, dbVars, diskVars
<1>2. CASE SubmitFindLive(c)
  <2>1. [client[c] EXCEPT !.at = "find_latest"] \in Request
    BY <1>2, GotoKeepsRequest DEF SubmitFindLive, At, SubmitPoints
  <2> QED BY <1>0, <1>2, <2>1 DEF SubmitFindLive, Goto, Answer, dbVars, diskVars
<1>3. CASE SubmitFindLatest(c)
  <2>1. client[c].at \in SubmitPoints
    BY <1>3 DEF SubmitFindLatest, At, SubmitPoints
  <2>2. [client[c] EXCEPT !.at = "insert"] \in Request
    BY <2>1, GotoKeepsRequest DEF SubmitPoints
  <2>3. ASSUME NEW j \in Jobs, row[j].status = "completed"
        PROVE  [client[c] EXCEPT !.at = "stat", !.path = row[j].path] \in Request
    <3>1. row[j].path \in Paths \cup {NoPath}
      BY <2>3 DEF Row, Record
    <3> QED BY <2>1, <3>1, PathKeepsRequest
  <2>4. ASSUME NEW r, client' = [client EXCEPT ![c] = r], r \in Request
        PROVE  client' \in [Clients -> Request]
    BY <2>4
  <2>5. \/ client' = [client EXCEPT ![c] = [client[c] EXCEPT !.at = "insert"]]
        \/ \E j \in Jobs : /\ row[j].status = "completed"
                          /\ client' = [client EXCEPT ![c] =
                               [client[c] EXCEPT !.at = "stat", !.path = row[j].path]]
    BY <1>3 DEF SubmitFindLatest, Goto, RowsOf, Rows
  <2>6. client' \in [Clients -> Request]
    BY <2>2, <2>3, <2>4, <2>5
  <2> QED BY <1>3, <2>6 DEF SubmitFindLatest, dbVars, diskVars
<1>4. CASE SubmitStat(c)
  <2>1. [client[c] EXCEPT !.at = "insert"] \in Request
    BY <1>4, GotoKeepsRequest DEF SubmitStat, At, SubmitPoints
  <2> QED BY <1>0, <1>4, <2>1 DEF SubmitStat, Goto, Answer, dbVars, diskVars
<1>5. CASE SubmitInsert(c)
  <2>1. client[c].at = "insert" /\ client[c].job \in Jobs
    BY <1>5, RequestKinds DEF SubmitInsert, At, SubmitPoints
  <2>2. /\ [client[c] EXCEPT !.at = "project"] \in Request
        /\ [client[c] EXCEPT !.at = "reread"] \in Request
    BY <2>1, GotoKeepsRequest DEF SubmitPoints
  <2>3. Touch(older, client[c].job) \subseteq Jobs \X Jobs
    BY <2>1 DEF Touch, Rows
  <2> QED BY <1>0, <1>5, <2>1, <2>2, <2>3 DEF SubmitInsert, Goto, dbVars, diskVars
<1>6. CASE SubmitReread(c)
  BY <1>0, <1>6 DEF SubmitReread, Answer, dbVars, diskVars
<1>7. CASE SubmitProject(c)
  <2>1. client[c].job \in Jobs
    BY <1>7, RequestKinds DEF SubmitProject, At, SubmitPoints
  <2> QED BY <1>0, <1>7, <2>1 DEF SubmitProject, Answer, TaskPoints, dbVars, diskVars
<1> QED BY <1>1, <1>2, <1>3, <1>4, <1>5, <1>6, <1>7 DEF SubmitStep

LEMMA DeleteTyped ==
  ASSUME TypeOK, NEW c \in Clients,
         DeleteStep(c) \/ (\E j \in Jobs, data \in DeleteModes : Delete(c, j, data))
  PROVE  TypeOK'
<1> USE DEF TypeOK
<1>0. Idle \in Request /\ NoRow \in Row
  BY DEF Request, NoRow, Row
<1>1. ASSUME NEW j \in Jobs, NEW data \in DeleteModes, Delete(c, j, data) PROVE TypeOK'
  <2>1. data \in BOOLEAN
    BY JobsAssumption
  <2>2. /\ [at |-> "delete_row", job |-> j, path |-> JobObject, data |-> data] \in Request
        /\ [at |-> "lookup", job |-> j, path |-> JobObject, data |-> data] \in Request
    BY <2>1 DEF Request, DeletePoints
  <2> QED BY <1>1, <2>2 DEF Delete, dbVars, diskVars
<1>2. CASE DeleteLookup(c)
  <2> DEFINE D == [at : DeletePoints, job : Jobs, path : Paths \cup {NoPath, JobObject},
                   data : BOOLEAN]
             r == client[c]
  <2>1. r \in D
    BY <1>2, RequestKinds DEF DeleteLookup, At, DeletePoints
  <2>2. ASSUME r.job \in Rows
        PROVE  [r EXCEPT !.at = "delete_row", !.path = row[r.job].path] \in Request
    <3>1. row[r.job].path \in Paths \cup {NoPath}
      BY <2>1 DEF Row, Record
    <3>2. [r EXCEPT !.at = "delete_row", !.path = row[r.job].path] \in D
      BY <2>1, <3>1 DEF DeletePoints
    <3> QED BY <3>2 DEF Request
  <2>3. client' \in [Clients -> Request]
    BY <1>0, <1>2, <2>2 DEF DeleteLookup, Answer
  <2> QED BY <1>2, <2>3 DEF DeleteLookup, dbVars, diskVars
<1>3. CASE DeleteRow(c)
  <2>1. client[c].job \in Jobs
    BY <1>3, RequestKinds DEF DeleteRow, At, DeletePoints
  <2>2. [client[c] EXCEPT !.at = "unlink"] \in Request
    BY <1>3, GotoKeepsRequest DEF DeleteRow, At, DeletePoints
  <2>3. client' \in [Clients -> Request]
    BY <1>0, <1>3, <2>2 DEF DeleteRow, Goto, Answer
  <2>4. row' \in [Jobs -> Row] /\ older' \subseteq Jobs \X Jobs
    BY <1>0, <1>3, <2>1 DEF DeleteRow, Forget
  <2> QED BY <1>3, <2>3, <2>4 DEF DeleteRow, diskVars
<1>4. CASE DeleteUnlink(c)
  <2>1. files' \in [Paths -> Jobs \cup {Missing, Unlinked}] /\ temps' \subseteq Jobs
    BY <1>4 DEF DeleteUnlink, diskVars
  <2> QED BY <1>0, <1>4, <2>1 DEF DeleteUnlink, Answer, dbVars
<1> QED BY <1>1, <1>2, <1>3, <1>4 DEF DeleteStep

\* Setting the status of a job keeps the records records.
LEMMA StatusTyped ==
  ASSUME TypeOK, NEW j \in Jobs, NEW status \in LiveStatus \cup TerminalStatus,
         NEW point \in TaskPoints, SetStatus(j, status, point)
  PROVE  TypeOK'
<1>1. [mem[j] EXCEPT !.status = status] \in Record
  BY DEF TypeOK, Record
<1>2. mem' \in [Jobs -> Record] /\ task' \in [Jobs -> TaskPoints]
  BY <1>1 DEF SetStatus, TypeOK
<1> QED BY <1>2 DEF SetStatus, TypeOK, dbVars, diskVars

LEMMA EngineTyped ==
  ASSUME TypeOK, NEW j \in Jobs, EngineStep(j)
  PROVE  TypeOK'
<1>1. ASSUME FailJob(j) PROVE TypeOK'
  BY <1>1, StatusTyped DEF FailJob, TerminalStatus, TaskPoints, Persisting
<1>2. CASE TaskBegin(j)
  BY <1>2 DEF TaskBegin, TypeOK, TaskPoints, dbVars, diskVars
<1>3. CASE Admit(j)
  BY <1>1, <1>3, StatusTyped DEF Admit, LiveStatus, TaskPoints, Persisting
<1>4. CASE Persist(j)
  <2>1. mem[j] \in Row
    BY DEF TypeOK, Row
  <2>2. AfterPersist[task[j]] \in TaskPoints
    BY <1>4 DEF Persist, Persisting, AfterPersist, TaskPoints, Writing
  <2>3. Touch(older, j) \subseteq Jobs \X Jobs
    BY DEF TypeOK, Touch, Rows
  <2> QED BY <1>4, <2>1, <2>2, <2>3 DEF Persist, TypeOK, diskVars
<1>5. CASE PersistMissing(j)
  BY <1>1, <1>5 DEF PersistMissing, TypeOK, TaskPoints, dbVars, diskVars
<1>6. CASE FetchManifest(j)
  BY <1>1, <1>6, StatusTyped DEF FetchManifest, LiveStatus, TaskPoints, Persisting
<1>7. CASE FetchPages(j)
  BY <1>1, <1>7, StatusTyped DEF FetchPages, LiveStatus, TaskPoints, Persisting
<1>8. CASE FinishJob(j)
  <2>1. [status |-> "completed", path |-> DestOf[j]] \in Record
    BY JobsAssumption DEF Record, TerminalStatus
  <2> QED BY <1>8, <2>1 DEF FinishJob, TypeOK, TaskPoints, Persisting, dbVars, diskVars
<1> QED BY <1>2, <1>3, <1>4, <1>5, <1>6, <1>7, <1>8 DEF EngineStep

LEMMA ThreadTyped ==
  ASSUME TypeOK, NEW j \in Jobs, ThreadStep(j)
  PROVE  TypeOK'
<1>0. DestOf[j] \in Paths
  BY JobsAssumption
<1>1. CASE WriteTemp(j)
  BY <1>1 DEF WriteTemp, TypeOK, TaskPoints, Writing, dbVars
<1>2. CASE ClearFolder(j)
  BY <1>0, <1>2 DEF ClearFolder, TypeOK, TaskPoints, Writing, dbVars
<1>3. CASE Publish(j)
  BY <1>0, <1>3 DEF Publish, TypeOK, TaskPoints, dbVars
<1>4. CASE WriteFails(j)
  <2>1. [mem[j] EXCEPT !.status = "failed"] \in Record
    BY DEF TypeOK, Record, TerminalStatus
  <2> QED BY <1>4, <2>1 DEF WriteFails, TypeOK, TaskPoints, Persisting, dbVars
<1> QED BY <1>1, <1>2, <1>3, <1>4 DEF ThreadStep

LEMMA ProcessEndsTyped ==
  ASSUME TypeOK, ProcessEnds
  PROVE  TypeOK'
<1>1. FreshJob \in Record /\ Idle \in Request
  BY DEF FreshJob, Record, LiveStatus, Request
<1>2. restarts' \in 0..MaxRestarts
  BY JobsAssumption DEF TypeOK, ProcessEnds
<1> QED BY <1>1, <1>2 DEF TypeOK, ProcessEnds, Phases, TaskPoints, dbVars, diskVars

LEMMA LifespanTyped ==
  ASSUME TypeOK, Lifespan \/ Crash
  PROVE  TypeOK'
<1>1. CASE Stop
  BY <1>1 DEF Stop, TypeOK, Phases, dbVars, diskVars
<1>2. CASE Close
  BY <1>2 DEF Close, TypeOK, Phases, TaskPoints, dbVars, diskVars
<1>3. CASE Exit \/ Crash
  BY <1>3, ProcessEndsTyped DEF Exit, Crash
<1>4. CASE Requeue
  <2>1. FreshJob \in Row
    BY DEF FreshJob, Row, Record, LiveStatus
  <2>2. row' \in [Jobs -> Row]
    BY <1>4, <2>1 DEF Requeue, TypeOK
  <2>3. older' \subseteq Jobs \X Jobs
    BY <1>4 DEF Requeue, TypeOK, Rows, Interrupted, LiveRows
  <2> QED BY <1>4, <2>2, <2>3 DEF Requeue, TypeOK, Phases, diskVars
<1>5. CASE Project
  <2>1. FreshJob \in Record /\ NoRow \in Row
    BY DEF FreshJob, NoRow, Row, Record, LiveStatus
  <2>2. \A j \in Listed : row[j] \in Record
    BY DEF TypeOK, Listed, Rows, Row, Record
  <2>3. row' \in [Jobs -> Row]
    BY <1>5, <2>1 DEF Project, TypeOK
  <2>4. mem' \in [Jobs -> Record] /\ projection' \subseteq Jobs
    BY <1>5, <2>1, <2>2 DEF Project, Listed, Rows
  <2>5. older' \subseteq Jobs \X Jobs
    BY <1>5 DEF Project, TypeOK, Forget
  <2> QED BY <1>5, <2>3, <2>4, <2>5 DEF Project, TypeOK, Phases, diskVars
<1>6. CASE Sweep
  BY <1>6 DEF Sweep, TypeOK, Phases, dbVars
<1>7. CASE Resume
  BY <1>7 DEF Resume, TypeOK, Phases, TaskPoints, dbVars, diskVars
<1> QED BY <1>1, <1>2, <1>3, <1>4, <1>5, <1>6, <1>7 DEF Lifespan

LEMMA NextTyped == TypeOK /\ [Next]_vars => TypeOK'
<1> SUFFICES ASSUME TypeOK, [Next]_vars PROVE TypeOK'
  OBVIOUS
<1>1. CASE Arrival
  BY <1>1, SubmitTyped, DeleteTyped DEF Arrival
<1>2. CASE \E c \in Clients : SubmitStep(c) \/ DeleteStep(c)
  BY <1>2, SubmitTyped, DeleteTyped
<1>3. CASE \E j \in Jobs : EngineStep(j) \/ ThreadStep(j)
  BY <1>3, EngineTyped, ThreadTyped
<1>4. CASE Lifespan \/ Crash
  BY <1>4, LifespanTyped
<1>5. CASE UNCHANGED vars
  BY <1>5 DEF vars, TypeOK, dbVars, diskVars
<1> QED BY <1>1, <1>2, <1>3, <1>4, <1>5 DEF Next

\* Type correctness: every variable of the download surface stays in its type,
\* whatever requests, tasks, threads, crashes and restarts do.
THEOREM TypeCorrect == Spec => []TypeOK
<1>1. Init => TypeOK
  BY InitTyped
<1>2. TypeOK /\ [Next]_vars => TypeOK'
  BY NextTyped
<1> QED BY <1>1, <1>2, PTL DEF Spec

-----------------------------------------------------------------------------
(* The inductive invariant.                                                *)

LEMMA InitInd == Init => IndInv
<1> SUFFICES ASSUME Init PROVE IndInv
  OBVIOUS
<1>1. Rows = {} /\ LiveRows = {}
  BY DEF Init, Rows, LiveRows, NoRow, LiveStatus
<1>2. RequestsOwnJobs
  BY DEF Init, RequestsOwnJobs, Idle, SubmitPoints, DeletePoints
<1>3. UnmintedUntouched /\ BootOrder
  BY DEF Init, UnmintedUntouched, BootOrder, Booting
<1>4. TasksFollowRows
  BY <1>1 DEF Init, TasksFollowRows, Persisting
<1>5. OneLiveRowPerHandle /\ NoStrandedRow /\ NoHiddenRow /\ ProjectedHasRow
  BY <1>1 DEF Init, OneLiveRowPerHandle, NoStrandedRow, NoHiddenRow, ProjectedHasRow
<1> QED BY <1>2, <1>3, <1>4, <1>5, InitTyped DEF IndInv

-----------------------------------------------------------------------------
(* Tasks.                                                                  *)

\* A task goes from one point to another and its row stays as it is.
LEMMA TaskMoves ==
  ASSUME IndInv, TypeOK', NEW j \in Jobs, NEW point \in TaskPoints,
         task[j] # "none", task' = [task EXCEPT ![j] = point],
         \A i \in Jobs \ {j} : mem'[i] = mem[i],
         UNCHANGED <<phase, row, minted, projection, client>>,
         j \in Rows => row[j].status \in DurableAt[point],
         point \in Persisting => mem'[j].status = PendingAt[point],
         point = "none" /\ j \in LiveRows => Deleting(j)
  PROVE  IndInv'
<1> USE DEF IndInv
<1>0. task \in [Jobs -> TaskPoints]
  BY DEF TypeOK
<1>1. /\ Rows' = Rows /\ LiveRows' = LiveRows /\ LoopRuns' = LoopRuns /\ Booting' = Booting
  BY DEF Rows, LiveRows, LoopRuns, Booting
<1>2. ~Booting
  BY DEF BootOrder
<1>3. RequestsOwnJobs'
  BY <1>0 DEF RequestsOwnJobs
<1>4. UnmintedUntouched'
  BY <1>0 DEF UnmintedUntouched
<1>5. TasksFollowRows'
  BY <1>0, <1>1 DEF TasksFollowRows
<1>6. BootOrder'
  BY <1>1, <1>2 DEF BootOrder, Booting
<1>7. OneLiveRowPerHandle' /\ NoHiddenRow' /\ ProjectedHasRow'
  BY <1>1 DEF OneLiveRowPerHandle, NoHiddenRow, ProjectedHasRow, Projecting, Deleting
<1>8. NoStrandedRow'
  BY <1>0, <1>1 DEF NoStrandedRow, Projecting, Deleting
<1> QED BY <1>3, <1>4, <1>5, <1>6, <1>7, <1>8

\* What the task and the memory of a job say while its task is at a point.
LEMMA DurableValues ==
  /\ \A p \in {"spawned", "waiting", "resolve"} : DurableAt[p] = {"queued"}
  /\ \A p \in {"manifest", "start"} : DurableAt[p] = {"resolving"}
  /\ \A p \in {"fetch", "pack"} : DurableAt[p] = {"downloading"}
  /\ \A p \in {"stage", "clear", "publish", "written", "finish"} : DurableAt[p] = {"archiving"}
  /\ DurableAt["fail"] = LiveStatus
  /\ DurableAt["none"] = LiveStatus \cup TerminalStatus
  /\ \A p \in TaskPoints \ {"none"} : DurableAt[p] \subseteq LiveStatus
BY DEF DurableAt, TaskPoints, Persisting, Writing, LiveStatus

\* A transition of the engine: the new status in memory, the row still as it was.
LEMMA SetStatusInd ==
  ASSUME IndInv, TypeOK', NEW j \in Jobs, NEW status, NEW point \in Persisting,
         task[j] # "none", SetStatus(j, status, point), status = PendingAt[point],
         DurableAt[task[j]] \subseteq DurableAt[point]
  PROVE  IndInv'
<1>1. point \in TaskPoints /\ point # "none"
  BY DEF TaskPoints, Persisting
<1>2. mem \in [Jobs -> Record] /\ mem[j] \in Record
  BY DEF IndInv, TypeOK
<1>3. mem'[j].status = status /\ \A i \in Jobs \ {j} : mem'[i] = mem[i]
  BY <1>2 DEF SetStatus, Record
<1>4. j \in Rows => row[j].status \in DurableAt[point]
  BY DEF IndInv, TasksFollowRows
<1> QED BY <1>1, <1>3, <1>4, TaskMoves DEF SetStatus, dbVars

LEMMA FailJobInd ==
  ASSUME IndInv, TypeOK', NEW j \in Jobs, task[j] # "none", FailJob(j)
  PROVE  IndInv'
<1>1. task[j] \in TaskPoints \ {"none"}
  BY DEF IndInv, TypeOK
<1>2. PendingAt["fail"] = "failed" /\ "fail" \in Persisting
  BY DEF PendingAt, Persisting
<1> QED BY <1>1, <1>2, SetStatusInd, DurableValues DEF FailJob

LEMMA EngineInd ==
  ASSUME IndInv, TypeOK', NEW j \in Jobs,
         TaskBegin(j) \/ Admit(j) \/ PersistMissing(j) \/ FetchManifest(j)
           \/ FetchPages(j) \/ FinishJob(j)
  PROVE  IndInv'
<1> USE DurableValues
<1>1. /\ j \in Rows => row[j].status \in DurableAt[task[j]]
      /\ task[j] = "none" => "none" \notin Persisting
  BY DEF IndInv, TasksFollowRows, Persisting
<1>2. CASE TaskBegin(j)
  <2> DEFINE point == IF j \in projection THEN "waiting" ELSE "none"
  <2>1. task[j] = "spawned" /\ LoopRuns
    BY <1>2 DEF TaskBegin, TaskAt
  <2>2. point \in TaskPoints /\ point \notin Persisting
    BY DEF TaskPoints, Persisting
  <2>3. j \in Rows => row[j].status \in DurableAt[point]
    BY <1>1, <2>1 DEF LiveStatus
  <2>4. ASSUME point = "none", j \in LiveRows PROVE Deleting(j)
    <3>1. j \in Rows /\ ~Projecting(j)
      BY <2>1, <2>4 DEF Rows, LiveRows, LiveStatus, IndInv, RequestsOwnJobs, Projecting
    <3> QED BY <2>1, <2>4, <3>1 DEF IndInv, NoHiddenRow
  <2> QED BY <1>2, <2>1, <2>2, <2>3, <2>4, TaskMoves DEF TaskBegin, dbVars
<1>3. CASE Admit(j)
  <2>1. task[j] = "waiting"
    BY <1>3 DEF Admit, TaskAt
  <2> QED BY <1>3, <2>1, FailJobInd, SetStatusInd DEF Admit, Persisting, PendingAt
<1>4. CASE PersistMissing(j)
  <2>1. task[j] # "none" /\ j \notin Rows
    BY <1>4 DEF PersistMissing, Persisting
  <2>2. "none" \in TaskPoints /\ "none" \notin Persisting
    BY DEF TaskPoints, Persisting
  <2>3. j \notin LiveRows
    BY <2>1 DEF Rows, LiveRows, LiveStatus
  <2> QED BY <1>4, <2>1, <2>2, <2>3, FailJobInd, TaskMoves DEF PersistMissing, dbVars
<1>5. CASE FetchManifest(j)
  <2>1. task[j] = "manifest"
    BY <1>5 DEF FetchManifest, TaskAt
  <2> QED BY <1>5, <2>1, FailJobInd, SetStatusInd DEF FetchManifest, Persisting, PendingAt
<1>6. CASE FetchPages(j)
  <2>1. task[j] = "fetch"
    BY <1>6 DEF FetchPages, TaskAt
  <2> QED BY <1>6, <2>1, FailJobInd, SetStatusInd DEF FetchPages, Persisting, PendingAt
<1>7. CASE FinishJob(j)
  <2>1. task[j] = "written"
    BY <1>7 DEF FinishJob, TaskAt
  <2>2. "finish" \in TaskPoints /\ PendingAt["finish"] = "completed"
    BY DEF TaskPoints, Persisting, PendingAt
  <2>3. mem'[j].status = "completed" /\ \A i \in Jobs \ {j} : mem'[i] = mem[i]
    BY <1>7 DEF FinishJob, IndInv, TypeOK
  <2> QED BY <1>1, <1>7, <2>1, <2>2, <2>3, TaskMoves DEF FinishJob, dbVars
<1> QED BY <1>2, <1>3, <1>4, <1>5, <1>6, <1>7

LEMMA ThreadInd ==
  ASSUME IndInv, TypeOK', NEW j \in Jobs, ThreadStep(j)
  PROVE  IndInv'
<1>1. task[j] \in Writing /\ UNCHANGED <<phase, row, minted, projection, client>>
  BY DEF ThreadStep, WriteTemp, ClearFolder, Publish, WriteFails, ThreadAt, Writing, dbVars
<1>2. j \in Rows => row[j].status = "archiving"
  BY <1>1, DurableValues DEF Writing, IndInv, TasksFollowRows
<1>3. ASSUME NEW point \in {"clear", "publish", "written"},
             task' = [task EXCEPT ![j] = point], UNCHANGED mem
      PROVE  IndInv'
  <2>1. point \in TaskPoints /\ point \notin Persisting /\ point # "none" /\ task[j] # "none"
    BY <1>1 DEF TaskPoints, Persisting, Writing
  <2>2. j \in Rows => row[j].status \in DurableAt[point]
    BY <1>2, DurableValues
  <2> QED BY <1>1, <1>3, <2>1, <2>2, TaskMoves
<1>4. CASE WriteFails(j)
  <2>1. /\ "fail" \in TaskPoints /\ PendingAt["fail"] = "failed" /\ task[j] # "none"
        /\ j \in Rows => row[j].status \in DurableAt["fail"]
    BY <1>1, <1>2, DurableValues DEF TaskPoints, Persisting, PendingAt, Writing, LiveStatus
  <2>2. mem'[j].status = "failed" /\ \A i \in Jobs \ {j} : mem'[i] = mem[i]
    BY <1>4 DEF WriteFails, IndInv, TypeOK, Record
  <2> QED BY <1>1, <1>4, <2>1, <2>2, TaskMoves DEF WriteFails
<1>5. CASE WriteTemp(j) \/ ClearFolder(j) \/ Publish(j)
  BY <1>3, <1>5 DEF WriteTemp, ClearFolder, Publish
<1> QED BY <1>4, <1>5 DEF ThreadStep

\* store.update: the row follows the memory, and the task goes on with it.
LEMMA PersistInd ==
  ASSUME IndInv, TypeOK', NEW j \in Jobs, Persist(j)
  PROVE  IndInv'
<1> USE DEF IndInv
<1>1. /\ task[j] \in Persisting /\ j \in Rows /\ LoopRuns
      /\ row' = [row EXCEPT ![j] = mem[j]]
      /\ task' = [task EXCEPT ![j] = AfterPersist[task[j]]]
      /\ UNCHANGED <<phase, minted, mem, projection, client>>
  BY DEF Persist
<1>2. row \in [Jobs -> Row] /\ task \in [Jobs -> TaskPoints] /\ mem \in [Jobs -> Record]
  BY DEF TypeOK
<1>3. /\ mem[j].status = PendingAt[task[j]]
      /\ row[j].status \in LiveStatus
      /\ mem[j].status \in DurableAt[AfterPersist[task[j]]]
      /\ AfterPersist[task[j]] \notin Persisting
      /\ AfterPersist[task[j]] = "none" => mem[j].status \notin LiveStatus
  <2>1. mem[j].status = PendingAt[task[j]] /\ row[j].status \in DurableAt[task[j]]
    BY <1>1 DEF TasksFollowRows
  <2> QED BY <1>1, <2>1, DurableValues
       DEF AfterPersist, PendingAt, Persisting, TaskPoints, LiveStatus, TerminalStatus
<1>4. /\ Rows' = Rows
      /\ \A i \in Jobs \ {j} : i \in LiveRows' <=> i \in LiveRows
      /\ j \in LiveRows
  <2>1. mem[j].status # "absent"
    BY <1>2 DEF Record, LiveStatus, TerminalStatus
  <2> QED BY <1>1, <1>2, <1>3, <2>1 DEF Rows, LiveRows
<1>5. \A c \in Clients : client[c].at = "project" => client[c].job # j
  BY <1>1 DEF RequestsOwnJobs, Persisting
<1>6. RequestsOwnJobs'
  BY <1>1, <1>2, <1>5 DEF RequestsOwnJobs
<1>7. j \in minted
  BY <1>1 DEF UnmintedUntouched, Persisting
<1>8. UnmintedUntouched'
  BY <1>1, <1>2, <1>7 DEF UnmintedUntouched
<1>9. TasksFollowRows'
  BY <1>1, <1>2, <1>3, <1>4 DEF TasksFollowRows
<1>10. BootOrder'
  BY <1>1 DEF BootOrder, Booting, Persisting
<1>11. OneLiveRowPerHandle'
  BY <1>4 DEF OneLiveRowPerHandle, LiveRows
<1>12. NoHiddenRow' /\ ProjectedHasRow'
  BY <1>1, <1>4 DEF NoHiddenRow, ProjectedHasRow, Projecting, Deleting, LoopRuns
<1>13. NoStrandedRow'
  <2> SUFFICES ASSUME LoopRuns', NEW i \in LiveRows'
               PROVE  task'[i] # "none" \/ Projecting(i)' \/ Deleting(i)'
    BY DEF NoStrandedRow
  <2>1. CASE i = j
    BY <1>1, <1>2, <1>3, <2>1 DEF LiveRows
  <2>2. CASE i # j
    <3>1. i \in Jobs /\ i \in LiveRows
      BY <1>4, <2>2 DEF LiveRows
    <3> QED BY <1>1, <1>2, <2>2, <3>1 DEF NoStrandedRow, LoopRuns, Projecting, Deleting
  <2> QED BY <2>1, <2>2
<1> QED BY <1>6, <1>8, <1>9, <1>10, <1>11, <1>12, <1>13

-----------------------------------------------------------------------------
(* Requests.                                                               *)

\* A request goes on, or is answered, without having written anything; it is
\* not one that is about to project a job or to delete a row.
LEMMA RequestMoves ==
  ASSUME IndInv, TypeOK', NEW c \in Clients, NEW r \in Request, phase = "up",
         client' = [client EXCEPT ![c] = r],
         UNCHANGED <<phase, row, minted, mem, projection, task>>,
         client[c].at \notin {"project", "delete_row"},
         r.at \notin {"project", "delete_row"},
         r.at # "idle" => \A d \in Clients \ {c} :
           client[d].at \in SubmitPoints => client[d].job # r.job,
         r.at \in SubmitPoints =>
           /\ r.job \notin minted
           /\ \A d \in Clients \ {c} : client[d].at # "idle" => client[d].job # r.job,
         r.at \in DeletePoints => r.job \in minted
  PROVE  IndInv'
<1> USE DEF IndInv
<1>0. client \in [Clients -> Request] /\ client'[c] = r /\ \A d \in Clients \ {c} : client'[d] = client[d]
  BY DEF TypeOK
<1>1. Rows' = Rows /\ LiveRows' = LiveRows /\ LoopRuns' = LoopRuns
  BY DEF Rows, LiveRows, LoopRuns
<1>2. \A j \in Jobs : (Projecting(j)' <=> Projecting(j)) /\ (Deleting(j)' <=> Deleting(j))
  BY <1>0 DEF Projecting, Deleting
<1>3. RequestsOwnJobs'
  BY <1>0 DEF RequestsOwnJobs, SubmitPoints
<1>4. UnmintedUntouched' /\ OneLiveRowPerHandle' /\ ProjectedHasRow'
  BY <1>1 DEF UnmintedUntouched, OneLiveRowPerHandle, ProjectedHasRow
<1>5. TasksFollowRows' /\ BootOrder'
  BY <1>1 DEF TasksFollowRows, BootOrder, Booting
<1>6. NoStrandedRow'
  BY <1>0, <1>1 DEF NoStrandedRow, LiveRows, Projecting, Deleting
<1>7. NoHiddenRow'
  BY <1>0, <1>1 DEF NoHiddenRow, Rows, Projecting, Deleting
<1> QED BY <1>3, <1>4, <1>5, <1>6, <1>7

\* Where a request that is not idle is, and that its job is one.
LEMMA RequestAt ==
  ASSUME TypeOK, NEW c \in Clients
  PROVE  /\ client[c] \in Request
         /\ client[c].at \in {"idle"} \cup SubmitPoints \cup DeletePoints
         /\ client[c].at = "idle" <=> client[c] = Idle
         /\ client[c].at # "idle" => client[c].job \in Jobs
<1>1. client[c] \in Request
  BY DEF TypeOK
<1> QED BY <1>1, RequestKinds

\* A request that is answered without having written anything.
LEMMA AnswerInd ==
  ASSUME IndInv, TypeOK', NEW c \in Clients, phase = "up", Answer(c),
         UNCHANGED <<phase, row, minted, mem, projection, task>>,
         client[c].at \notin {"project", "delete_row"}
  PROVE  IndInv'
<1>1. Idle \in Request /\ Idle.at = "idle"
  BY DEF Request, Idle
<1> QED BY <1>1, RequestMoves DEF Answer, SubmitPoints, DeletePoints

\* A submit that goes on to another point before the row is in.
LEMMA GotoInd ==
  ASSUME IndInv, TypeOK', NEW c \in Clients, NEW r \in Request, phase = "up",
         client[c].at \in SubmitPoints \ {"project"},
         r.at \in SubmitPoints \ {"project"}, r.job = client[c].job,
         client' = [client EXCEPT ![c] = r],
         UNCHANGED <<phase, row, minted, mem, projection, task>>
  PROVE  IndInv'
<1>1. /\ client[c].job \notin minted
      /\ \A d \in Clients \ {c} : client[d].at # "idle" => client[d].job # client[c].job
  BY DEF IndInv, RequestsOwnJobs
<1> QED BY <1>1, RequestMoves DEF SubmitPoints, DeletePoints

LEMMA SubmitReadsInd ==
  ASSUME IndInv, TypeOK', NEW c \in Clients,
         \/ \E j \in Jobs : Submit(c, j)
         \/ SubmitFindLive(c) \/ SubmitFindLatest(c) \/ SubmitStat(c) \/ SubmitReread(c)
  PROVE  IndInv'
<1>0. client \in [Clients -> Request] /\ client' \in [Clients -> Request] /\ TypeOK
  BY DEF IndInv, TypeOK
<1>1. ASSUME NEW j \in Jobs, Submit(c, j) PROVE IndInv'
  <2> DEFINE r == [at |-> "find_live", job |-> j, path |-> NoPath]
  <2>1. r \in Request /\ r.at = "find_live" /\ r.job = j
    BY DEF Request, SubmitPoints
  <2>2. /\ j \notin minted
        /\ \A d \in Clients : client[d].at # "idle" => client[d].job # j
    BY <1>1, <1>0, RequestAt DEF Submit, Unused, Idle
  <2>3. client[c].at = "idle" /\ phase = "up"
    BY <1>1 DEF Submit, At
  <2> HIDE DEF r
  <2>4. client' = [client EXCEPT ![c] = r] /\ UNCHANGED <<phase, row, minted, mem, projection, task>>
    BY <1>1 DEF Submit, dbVars, r
  <2> QED BY <2>1, <2>2, <2>3, <2>4, RequestMoves DEF SubmitPoints, DeletePoints
<1>2. ASSUME client[c].at \in SubmitPoints \ {"project"}, phase = "up",
             UNCHANGED <<phase, row, minted, mem, projection, task>>,
             NEW point \in SubmitPoints \ {"project"}, Goto(c, point)
      PROVE  IndInv'
  <2>1. client'[c] = [client[c] EXCEPT !.at = point] /\ client'[c] \in Request
    BY <1>0, <1>2 DEF Goto
  <2>2. client[c] \in [at : SubmitPoints, job : Jobs, path : Paths \cup {NoPath}]
    BY <1>0, <1>2, RequestKinds
  <2>3. client'[c].at = point /\ client'[c].job = client[c].job
    BY <2>1, <2>2
  <2>4. client' = [client EXCEPT ![c] = client'[c]]
    BY <1>0, <1>2 DEF Goto
  <2> QED BY <1>2, <2>1, <2>3, <2>4, GotoInd
<1>3. CASE SubmitFindLive(c)
  <2>1. /\ client[c].at = "find_live" /\ phase = "up"
        /\ UNCHANGED <<phase, row, minted, mem, projection, task>>
        /\ Answer(c) \/ Goto(c, "find_latest")
    BY <1>3 DEF SubmitFindLive, At, dbVars
  <2> QED BY <1>2, <2>1, AnswerInd DEF SubmitPoints
<1>4. CASE SubmitFindLatest(c)
  <2>1. /\ client[c].at = "find_latest" /\ phase = "up"
        /\ UNCHANGED <<phase, row, minted, mem, projection, task>>
    BY <1>4 DEF SubmitFindLatest, At, dbVars
  <2>2. ASSUME NEW path, client' = [client EXCEPT ![c].at = "stat", ![c].path = path]
        PROVE  IndInv'
    <3>1. client[c] \in [at : SubmitPoints, job : Jobs, path : Paths \cup {NoPath}]
      BY <1>0, <2>1, RequestKinds DEF SubmitPoints
    <3>2. client'[c] = [client[c] EXCEPT !.at = "stat", !.path = path] /\ client'[c] \in Request
      BY <1>0, <2>2
    <3>3. client'[c].at = "stat" /\ client'[c].job = client[c].job
      BY <3>1, <3>2
    <3>4. client' = [client EXCEPT ![c] = client'[c]]
      BY <1>0, <2>2
    <3> QED BY <2>1, <3>2, <3>3, <3>4, GotoInd DEF SubmitPoints
  <2> QED BY <1>2, <1>4, <2>1, <2>2 DEF SubmitFindLatest, SubmitPoints
<1>5. CASE SubmitStat(c)
  <2>1. /\ client[c].at = "stat" /\ phase = "up"
        /\ UNCHANGED <<phase, row, minted, mem, projection, task>>
        /\ Answer(c) \/ Goto(c, "insert")
    BY <1>5 DEF SubmitStat, At, dbVars
  <2> QED BY <1>2, <2>1, AnswerInd DEF SubmitPoints
<1>6. CASE SubmitReread(c)
  <2>1. /\ client[c].at = "reread" /\ phase = "up" /\ Answer(c)
        /\ UNCHANGED <<phase, row, minted, mem, projection, task>>
    BY <1>6 DEF SubmitReread, At, dbVars
  <2> QED BY <2>1, AnswerInd
<1> QED BY <1>1, <1>3, <1>4, <1>5, <1>6

\* INSERT: a new row if the index admits it, else on to the live row that won.
LEMMA SubmitInsertInd ==
  ASSUME IndInv, TypeOK', NEW c \in Clients, SubmitInsert(c)
  PROVE  IndInv'
<1> USE DEF IndInv
<1> DEFINE j == client[c].job
<1>0. /\ client[c].at = "insert" /\ phase = "up" /\ j \in Jobs
      /\ client[c] \in [at : SubmitPoints, job : Jobs, path : Paths \cup {NoPath}]
      /\ client \in [Clients -> Request] /\ row \in [Jobs -> Row] /\ mem \in [Jobs -> Record]
  BY RequestKinds DEF SubmitInsert, At, TypeOK, SubmitPoints
<1>1. CASE ~IndexAdmits(j)
  <2>1. /\ client' = [client EXCEPT ![c].at = "reread"]
        /\ UNCHANGED <<phase, row, minted, mem, projection, task>>
    BY <1>1 DEF SubmitInsert, Goto, dbVars
  <2>2. client'[c] \in Request /\ client'[c].at = "reread" /\ client'[c].job = j
    BY <1>0, <2>1 DEF TypeOK
  <2>3. client' = [client EXCEPT ![c] = client'[c]]
    BY <1>0, <2>1
  <2> QED BY <1>0, <2>1, <2>2, <2>3, GotoInd DEF SubmitPoints
<1>2. CASE IndexAdmits(j)
  <2>1. /\ row' = [row EXCEPT ![j] = FreshJob] /\ minted' = minted \cup {j}
        /\ mem' = [mem EXCEPT ![j] = FreshJob]
        /\ client' = [client EXCEPT ![c].at = "project"]
        /\ UNCHANGED <<phase, projection, task>>
    BY <1>2 DEF SubmitInsert, Goto
  <2>2. /\ client'[c].at = "project" /\ client'[c].job = j
        /\ \A d \in Clients \ {c} : client'[d] = client[d]
    BY <1>0, <2>1
  <2>3. /\ j \notin minted /\ row[j] = NoRow /\ task[j] = "none"
        /\ \A d \in Clients \ {c} : client[d].at # "idle" => client[d].job # j
    BY <1>0 DEF RequestsOwnJobs, UnmintedUntouched, SubmitPoints
  <2>4. /\ Rows' = Rows \cup {j} /\ LiveRows' = LiveRows \cup {j}
        /\ j \notin Rows
    BY <1>0, <2>1, <2>3 DEF Rows, LiveRows, FreshJob, NoRow, LiveStatus
  <2>5. RequestsOwnJobs'
    BY <1>0, <2>1, <2>2, <2>3 DEF RequestsOwnJobs, SubmitPoints, DeletePoints
  <2>6. UnmintedUntouched'
    BY <1>0, <2>1 DEF UnmintedUntouched
  <2>7. TasksFollowRows'
    BY <1>0, <2>1, <2>3, <2>4, DurableValues DEF TasksFollowRows, FreshJob, Persisting, LiveStatus
  <2>8. BootOrder'
    BY <1>0, <2>1 DEF BootOrder, Booting
  <2>9. OneLiveRowPerHandle'
    BY <1>2, <2>4 DEF OneLiveRowPerHandle, IndexAdmits, LiveRowsOf
  <2>10. Projecting(j)' /\ \A i \in Jobs : (Projecting(i) => Projecting(i)') /\ (Deleting(i) => Deleting(i)')
    BY <1>0, <2>2 DEF Projecting, Deleting
  <2>11. NoHiddenRow'
    <3>1. LoopRuns
      BY <1>0 DEF LoopRuns
    <3>2. \A i \in Rows' : i = j \/ (i \in Jobs /\ i \in Rows)
      BY <2>4 DEF Rows
    <3> QED BY <2>1, <2>10, <3>1, <3>2 DEF NoHiddenRow
  <2>12. NoStrandedRow'
    <3>1. LoopRuns
      BY <1>0 DEF LoopRuns
    <3>2. \A i \in LiveRows' : i = j \/ (i \in Jobs /\ i \in LiveRows)
      BY <2>4 DEF LiveRows
    <3> QED BY <2>1, <2>10, <3>1, <3>2 DEF NoStrandedRow
  <2>13. ProjectedHasRow'
    BY <1>0, <2>1, <2>4 DEF ProjectedHasRow, LoopRuns
  <2> QED BY <2>5, <2>6, <2>7, <2>8, <2>9, <2>11, <2>12, <2>13
<1> QED BY <1>1, <1>2

\* The job is projected and its task spawned.
LEMMA SubmitProjectInd ==
  ASSUME IndInv, TypeOK', NEW c \in Clients, SubmitProject(c)
  PROVE  IndInv'
<1> USE DEF IndInv
<1> DEFINE j == client[c].job
<1>0. /\ client[c].at = "project" /\ phase = "up" /\ j \in Jobs
      /\ client \in [Clients -> Request] /\ task \in [Jobs -> TaskPoints]
  BY RequestAt DEF SubmitProject, At, TypeOK
<1>1. /\ projection' = projection \cup {j} /\ task' = [task EXCEPT ![j] = "spawned"]
      /\ UNCHANGED <<phase, row, minted, mem>>
      /\ client'[c].at = "idle" /\ \A d \in Clients \ {c} : client'[d] = client[d]
  BY <1>0 DEF SubmitProject, Answer, dbVars, Idle
<1>2. /\ j \in minted /\ row[j] = FreshJob /\ task[j] = "none"
      /\ \A d \in Clients \ {c} : client[d].at # "idle" => client[d].job # j
  BY <1>0 DEF RequestsOwnJobs, SubmitPoints
<1>3. Rows' = Rows /\ LiveRows' = LiveRows /\ j \in Rows /\ LoopRuns
  BY <1>0, <1>1, <1>2 DEF Rows, LiveRows, FreshJob, LoopRuns
<1>4. RequestsOwnJobs'
  BY <1>0, <1>1, <1>2, RequestAt DEF RequestsOwnJobs, SubmitPoints, DeletePoints
<1>5. UnmintedUntouched'
  BY <1>0, <1>1, <1>2 DEF UnmintedUntouched
<1>6. TasksFollowRows'
  BY <1>0, <1>1, <1>2, <1>3, DurableValues DEF TasksFollowRows, FreshJob, Persisting
<1>7. BootOrder'
  BY <1>0, <1>1 DEF BootOrder, Booting
<1>8. OneLiveRowPerHandle' /\ ProjectedHasRow'
  BY <1>1, <1>3 DEF OneLiveRowPerHandle, ProjectedHasRow
<1>9. \A i \in Jobs \ {j} : (Projecting(i) => Projecting(i)') /\ (Deleting(i) => Deleting(i)')
  BY <1>0, <1>1 DEF Projecting, Deleting
<1>10. NoHiddenRow'
  BY <1>1, <1>3, <1>9 DEF NoHiddenRow, Rows
<1>11. NoStrandedRow'
  BY <1>0, <1>1, <1>3, <1>9 DEF NoStrandedRow, LiveRows
<1> QED BY <1>4, <1>5, <1>6, <1>7, <1>8, <1>10, <1>11

\* The start of a DELETE, and its lookup: a job leaves the projection, and its
\* row is about to follow.
LEMMA UnprojectInd ==
  ASSUME IndInv, TypeOK', NEW c \in Clients, NEW r \in Request, phase = "up",
         client[c].at \in {"idle", "lookup"}, r.at = "delete_row", r.job \in minted,
         \A d \in Clients \ {c} : client[d].at \in SubmitPoints => client[d].job # r.job,
         client' = [client EXCEPT ![c] = r], projection' = projection \ {r.job},
         UNCHANGED <<phase, row, minted, mem, task>>
  PROVE  IndInv'
<1> USE DEF IndInv
<1>0. client \in [Clients -> Request] /\ client'[c] = r /\ \A d \in Clients \ {c} : client'[d] = client[d]
  BY DEF TypeOK
<1>1. Rows' = Rows /\ LiveRows' = LiveRows /\ LoopRuns' = LoopRuns /\ LoopRuns
  BY DEF Rows, LiveRows, LoopRuns
<1>2. RequestsOwnJobs'
  BY <1>0 DEF RequestsOwnJobs, SubmitPoints, DeletePoints
<1>3. UnmintedUntouched' /\ OneLiveRowPerHandle' /\ ProjectedHasRow'
  BY <1>1 DEF UnmintedUntouched, OneLiveRowPerHandle, ProjectedHasRow
<1>4. TasksFollowRows' /\ BootOrder'
  BY <1>1 DEF TasksFollowRows, BootOrder, Booting
<1>5. /\ Deleting(r.job)'
      /\ \A j \in Jobs : (Projecting(j) => Projecting(j)') /\ (Deleting(j) => Deleting(j)')
  BY <1>0 DEF Projecting, Deleting
<1>6. NoStrandedRow'
  BY <1>1, <1>5 DEF NoStrandedRow, LiveRows
<1>7. NoHiddenRow'
  BY <1>1, <1>5 DEF NoHiddenRow, Rows
<1> QED BY <1>2, <1>3, <1>4, <1>6, <1>7

LEMMA DeleteRowInd ==
  ASSUME IndInv, TypeOK', NEW c \in Clients, DeleteRow(c)
  PROVE  IndInv'
<1> USE DEF IndInv
<1> DEFINE j == client[c].job
<1>0. /\ client[c].at = "delete_row" /\ phase = "up" /\ j \in Jobs
      /\ client \in [Clients -> Request] /\ row \in [Jobs -> Row]
      /\ client[c] \in [at : DeletePoints, job : Jobs, path : Paths \cup {NoPath, JobObject},
                        data : BOOLEAN]
  BY RequestKinds DEF DeleteRow, At, TypeOK, DeletePoints
<1>1. /\ row' = [row EXCEPT ![j] = NoRow] /\ UNCHANGED <<phase, minted, mem, projection, task>>
      /\ \A d \in Clients \ {c} : client'[d] = client[d]
  BY <1>0 DEF DeleteRow, Goto, Answer
<1>2. client'[c].at \in {"idle", "unlink"} /\ (client'[c].at = "unlink" => client'[c].job = j)
  BY <1>0 DEF DeleteRow, Goto, Answer, Idle
<1>3. /\ j \in minted /\ j \notin projection
      /\ \A d \in Clients \ {c} : client[d].at \in SubmitPoints => client[d].job # j
  BY <1>0 DEF RequestsOwnJobs, SubmitPoints
<1>4. Rows' = Rows \ {j} /\ LiveRows' = LiveRows \ {j} /\ LoopRuns' = LoopRuns /\ LoopRuns
  BY <1>0, <1>1 DEF Rows, LiveRows, NoRow, LiveStatus, LoopRuns
<1>5. RequestsOwnJobs'
  BY <1>0, <1>1, <1>2, <1>3 DEF RequestsOwnJobs, SubmitPoints, DeletePoints
<1>6. UnmintedUntouched'
  BY <1>0, <1>1 DEF UnmintedUntouched
<1>7. TasksFollowRows'
  BY <1>0, <1>1, <1>4 DEF TasksFollowRows
<1>8. BootOrder'
  BY <1>0, <1>1 DEF BootOrder, Booting
<1>9. OneLiveRowPerHandle' /\ ProjectedHasRow'
  BY <1>1, <1>3, <1>4 DEF OneLiveRowPerHandle, ProjectedHasRow
<1>10. \A i \in Jobs \ {j} : (Projecting(i) => Projecting(i)') /\ (Deleting(i) => Deleting(i)')
  BY <1>0, <1>1 DEF Projecting, Deleting
<1>11. NoStrandedRow'
  BY <1>1, <1>4, <1>10 DEF NoStrandedRow, LiveRows
<1>12. NoHiddenRow'
  BY <1>1, <1>4, <1>10 DEF NoHiddenRow, Rows
<1> QED BY <1>5, <1>6, <1>7, <1>8, <1>9, <1>11, <1>12

LEMMA DeleteInd ==
  ASSUME IndInv, TypeOK', NEW c \in Clients,
         DeleteStep(c) \/ (\E j \in Jobs, data \in DeleteModes : Delete(c, j, data))
  PROVE  IndInv'
<1>0. /\ client \in [Clients -> Request] /\ client' \in [Clients -> Request] /\ TypeOK
      /\ RequestsOwnJobs
  BY DEF IndInv, TypeOK
<1>1. ASSUME NEW j \in Jobs, NEW data \in DeleteModes, Delete(c, j, data) PROVE IndInv'
  <2> DEFINE r == [at |-> IF j \in projection THEN "delete_row" ELSE "lookup", job |-> j,
                   path |-> JobObject, data |-> data]
  <2>1. /\ client' = [client EXCEPT ![c] = r] /\ phase = "up" /\ client[c].at = "idle"
        /\ UNCHANGED <<phase, row, minted, mem, task>> /\ projection' = projection \ {j}
    BY <1>1 DEF Delete, At, dbVars
  <2>2. r \in Request /\ r.job = j
    BY <2>1, <1>0
  <2>3. /\ j \in minted
        /\ \A d \in Clients : client[d].at \in SubmitPoints => client[d].job # j
    BY <1>0, <1>1 DEF Delete, Known, RequestsOwnJobs
  <2>4. CASE j \in projection
    <3>1. r.at = "delete_row"
      BY <2>4
    <3> HIDE DEF r
    <3> QED BY <2>1, <2>2, <2>3, <3>1, UnprojectInd
  <2>5. CASE j \notin projection
    <3>1. r.at = "lookup" /\ projection' = projection
      BY <2>1, <2>5
    <3> HIDE DEF r
    <3> QED BY <2>1, <2>2, <2>3, <3>1, RequestMoves DEF SubmitPoints
  <2> QED BY <2>4, <2>5
<1>2. CASE DeleteLookup(c)
  <2> DEFINE j == client[c].job
  <2>1. /\ client[c].at = "lookup" /\ phase = "up" /\ UNCHANGED <<phase, row, minted, mem, task>>
        /\ client[c] \in [at : DeletePoints, job : Jobs, path : Paths \cup {NoPath, JobObject},
                          data : BOOLEAN]
    BY <1>0, <1>2, RequestKinds DEF DeleteLookup, At, dbVars, DeletePoints
  <2>2. CASE j \notin Rows /\ Answer(c) /\ UNCHANGED projection
    BY <2>1, <2>2, AnswerInd
  <2>3. CASE /\ client' = [client EXCEPT ![c].at = "delete_row", ![c].path = row[j].path]
             /\ projection' = projection \ {j}
    <3>1. PICK r \in Request : /\ r.at = "delete_row" /\ r.job = j
                               /\ client' = [client EXCEPT ![c] = r]
      BY <1>0, <2>1, <2>3
    <3>2. /\ r.job \in minted /\ projection' = projection \ {r.job}
          /\ \A d \in Clients \ {c} : client[d].at \in SubmitPoints => client[d].job # r.job
      BY <1>0, <2>1, <2>3, <3>1 DEF RequestsOwnJobs, DeletePoints
    <3> QED BY <2>1, <3>1, <3>2, UnprojectInd
  <2> QED BY <1>2, <2>2, <2>3 DEF DeleteLookup
<1>3. CASE DeleteRow(c)
  BY <1>3, DeleteRowInd
<1>4. CASE DeleteUnlink(c)
  <2>1. /\ client[c].at = "unlink" /\ phase = "up" /\ Answer(c)
        /\ UNCHANGED <<phase, row, minted, mem, projection, task>>
    BY <1>4 DEF DeleteUnlink, At, dbVars
  <2> QED BY <2>1, AnswerInd
<1> QED BY <1>1, <1>2, <1>3, <1>4 DEF DeleteStep

-----------------------------------------------------------------------------
(* Shutdown, crash and boot.                                               *)

LEMMA LifespanInd ==
  ASSUME IndInv, TypeOK', Lifespan \/ Crash
  PROVE  IndInv'
<1> USE DEF IndInv
<1>0. /\ row \in [Jobs -> Row] /\ task \in [Jobs -> TaskPoints] /\ phase \in Phases
      /\ client \in [Clients -> Request]
  BY DEF TypeOK
<1>1. ASSUME UNCHANGED <<row, minted, mem, projection, client>>
      PROVE  Rows' = Rows /\ LiveRows' = LiveRows /\ OneLiveRowPerHandle'
  BY <1>1 DEF Rows, LiveRows, OneLiveRowPerHandle
<1>2. CASE Stop
  <2>1. /\ phase = "up" /\ phase' = "draining" /\ \A c \in Clients : client[c].at = "idle"
        /\ UNCHANGED <<row, minted, mem, projection, task, client>>
    BY <1>2 DEF Stop, dbVars, Idle
  <2>2. RequestsOwnJobs' /\ UnmintedUntouched' /\ TasksFollowRows' /\ BootOrder'
    BY <1>1, <2>1 DEF RequestsOwnJobs, UnmintedUntouched, TasksFollowRows, BootOrder, Booting,
                      SubmitPoints, DeletePoints
  <2>3. NoStrandedRow' /\ NoHiddenRow' /\ ProjectedHasRow'
    BY <1>1, <2>1 DEF NoStrandedRow, NoHiddenRow, ProjectedHasRow, LoopRuns, Projecting, Deleting
  <2> QED BY <1>1, <2>1, <2>2, <2>3
<1>3. CASE Close
  <2>1. /\ phase = "draining" /\ phase' = "closing"
        /\ task' = [j \in Jobs |-> IF task[j] \in Writing THEN task[j] ELSE "none"]
        /\ UNCHANGED <<row, minted, mem, projection, client>>
    BY <1>3 DEF Close, dbVars
  <2>2. \A c \in Clients : client[c].at = "idle"
    BY <2>1 DEF RequestsOwnJobs
  <2>3. RequestsOwnJobs' /\ UnmintedUntouched' /\ BootOrder'
    BY <2>1, <2>2 DEF RequestsOwnJobs, UnmintedUntouched, BootOrder, Booting, SubmitPoints,
                      DeletePoints
  <2>4. TasksFollowRows'
    <3>1. \A j \in Jobs : j \in Rows => row[j].status \in LiveStatus \cup TerminalStatus
      BY <1>0 DEF Rows, Row, Record
    <3> QED BY <1>1, <2>1, <3>1, DurableValues DEF TasksFollowRows, Persisting
  <2>5. NoStrandedRow' /\ NoHiddenRow' /\ ProjectedHasRow'
    BY <2>1 DEF NoStrandedRow, NoHiddenRow, ProjectedHasRow, LoopRuns
  <2> QED BY <1>1, <2>1, <2>3, <2>4, <2>5
<1>4. CASE Exit \/ Crash
  <2>1. /\ phase' = "down" /\ task' = [j \in Jobs |-> "none"] /\ UNCHANGED <<row, minted>>
        /\ \A c \in Clients : client'[c].at = "idle"
    BY <1>4 DEF Exit, Crash, ProcessEnds, dbVars, Idle
  <2>2. RequestsOwnJobs' /\ UnmintedUntouched'
    BY <2>1 DEF RequestsOwnJobs, UnmintedUntouched, SubmitPoints, DeletePoints
  <2>3. TasksFollowRows'
    <3>1. \A j \in Jobs : j \in Rows' => row'[j].status \in LiveStatus \cup TerminalStatus
      BY <1>0, <2>1 DEF Rows, Row, Record
    <3> QED BY <2>1, <3>1, DurableValues DEF TasksFollowRows, Persisting
  <2>4. BootOrder' /\ OneLiveRowPerHandle'
    BY <2>1 DEF BootOrder, OneLiveRowPerHandle, LiveRows
  <2>5. NoStrandedRow' /\ NoHiddenRow' /\ ProjectedHasRow'
    BY <2>1 DEF NoStrandedRow, NoHiddenRow, ProjectedHasRow, LoopRuns
  <2> QED BY <2>2, <2>3, <2>4, <2>5
<1>5. CASE Requeue
  <2>1. /\ phase = "down" /\ phase' = "requeued"
        /\ row' = [j \in Jobs |-> IF j \in LiveRows THEN FreshJob ELSE row[j]]
        /\ UNCHANGED <<minted, mem, projection, task, client>>
    BY <1>5 DEF Requeue, Interrupted
  <2>2. /\ \A c \in Clients : client[c].at = "idle"
        /\ \A j \in Jobs : task[j] = "none"
    BY <2>1 DEF RequestsOwnJobs, BootOrder, Booting
  <2>3. LiveRows' = LiveRows /\ \A j \in LiveRows' : row'[j].status = "queued"
    BY <2>1 DEF LiveRows, FreshJob, LiveStatus
  <2>4. RequestsOwnJobs' /\ UnmintedUntouched'
    BY <2>1, <2>2 DEF RequestsOwnJobs, UnmintedUntouched, SubmitPoints, DeletePoints, LiveRows,
                      NoRow, LiveStatus
  <2>5. TasksFollowRows'
    <3>1. \A j \in Jobs : j \in Rows' => row'[j].status \in LiveStatus \cup TerminalStatus
      BY <1>0, <2>1 DEF Rows, Row, Record, FreshJob, LiveStatus
    <3> QED BY <2>1, <2>2, <3>1, DurableValues DEF TasksFollowRows, Persisting
  <2>6. BootOrder' /\ OneLiveRowPerHandle'
    BY <2>1, <2>2, <2>3 DEF BootOrder, OneLiveRowPerHandle
  <2>7. NoStrandedRow' /\ NoHiddenRow' /\ ProjectedHasRow'
    BY <2>1 DEF NoStrandedRow, NoHiddenRow, ProjectedHasRow, LoopRuns
  <2> QED BY <2>4, <2>5, <2>6, <2>7
<1>6. CASE Project
  <2>1. /\ phase = "requeued" /\ phase' = "projected"
        /\ row' = [j \in Jobs |-> IF j \in Surplus THEN NoRow ELSE row[j]]
        /\ projection' = Rows \ Surplus
        /\ mem' = [j \in Jobs |-> IF j \in Rows \ Surplus THEN row[j] ELSE FreshJob]
        /\ UNCHANGED <<minted, task, client>>
    BY <1>6 DEF Project, Listed
  <2>2. /\ \A c \in Clients : client[c].at = "idle"
        /\ \A j \in Jobs : task[j] = "none"
    BY <2>1 DEF RequestsOwnJobs, BootOrder, Booting
  <2>3. Surplus \subseteq TerminalRows
    BY DEF Surplus
  <2>4. Rows' = Rows \ Surplus /\ LiveRows' = LiveRows
    BY <2>1, <2>3 DEF Rows, LiveRows, TerminalRows, NoRow, LiveStatus, TerminalStatus
  <2>5. RequestsOwnJobs' /\ UnmintedUntouched'
    BY <2>1, <2>2 DEF RequestsOwnJobs, UnmintedUntouched, SubmitPoints, DeletePoints
  <2>6. TasksFollowRows'
    <3>1. \A j \in Jobs : j \in Rows' => row'[j].status \in LiveStatus \cup TerminalStatus
      BY <1>0, <2>1 DEF Rows, Row, Record, NoRow
    <3> QED BY <2>1, <2>2, <3>1, DurableValues DEF TasksFollowRows, Persisting
  <2>7. BootOrder'
    <3>1. \A j \in LiveRows : j \notin Surplus /\ row[j].status = "queued"
      BY <2>1, <2>3 DEF BootOrder, LiveRows, TerminalRows, LiveStatus, TerminalStatus
    <3>2. \A j \in Rows \ Surplus : row'[j] = row[j] /\ mem'[j] = row[j]
      BY <2>1 DEF Rows
    <3> QED BY <2>1, <2>2, <2>4, <3>1, <3>2 DEF BootOrder, LiveRows
  <2>8. OneLiveRowPerHandle' /\ NoStrandedRow' /\ NoHiddenRow' /\ ProjectedHasRow'
    BY <2>1, <2>4 DEF OneLiveRowPerHandle, NoStrandedRow, NoHiddenRow, ProjectedHasRow, LoopRuns
  <2> QED BY <2>5, <2>6, <2>7, <2>8
<1>7. CASE Sweep \/ Resume
  <2>1. /\ phase \in {"projected", "swept"} /\ phase' \in {"swept", "up"}
        /\ UNCHANGED <<row, minted, mem, projection, client>>
    BY <1>7 DEF Sweep, Resume, dbVars
  <2>2. /\ \A c \in Clients : client[c].at = "idle"
        /\ \A j \in Jobs : task[j] = "none"
        /\ \A j \in LiveRows : row[j].status = "queued"
        /\ projection = Rows /\ \A j \in projection : mem[j] = row[j]
    BY <2>1 DEF RequestsOwnJobs, BootOrder, Booting
  <2>3. /\ phase' = "swept" => task' = task
        /\ phase' = "up" => task' = [j \in Jobs |-> IF j \in LiveRows THEN "spawned" ELSE "none"]
    <3>1. LiveRows = Resumed
      BY <2>2 DEF Resumed, Rows, LiveRows, LiveStatus
    <3> QED BY <1>0, <1>7, <2>2, <3>1 DEF Sweep, Resume
  <2>4. RequestsOwnJobs'
    BY <2>1, <2>2 DEF RequestsOwnJobs, SubmitPoints, DeletePoints
  <2>5. UnmintedUntouched'
    BY <2>1, <2>2, <2>3 DEF UnmintedUntouched, LiveRows, NoRow, LiveStatus
  <2>6. TasksFollowRows'
    BY <1>1, <2>1, <2>2, <2>3, DurableValues DEF TasksFollowRows, Persisting, LiveRows
  <2>7. BootOrder'
    BY <1>1, <2>1, <2>2, <2>3 DEF BootOrder, Booting
  <2>8. NoStrandedRow' /\ NoHiddenRow' /\ ProjectedHasRow'
    BY <1>1, <2>1, <2>2, <2>3 DEF NoStrandedRow, NoHiddenRow, ProjectedHasRow, LoopRuns, LiveRows
  <2> QED BY <1>1, <2>1, <2>4, <2>5, <2>6, <2>7, <2>8
<1> QED BY <1>2, <1>3, <1>4, <1>5, <1>6, <1>7 DEF Lifespan

LEMMA NextInd == IndInv /\ [Next]_vars => IndInv'
<1> SUFFICES ASSUME IndInv, [Next]_vars PROVE IndInv'
  OBVIOUS
<1>0. TypeOK'
  BY NextTyped DEF IndInv
<1>1. CASE Arrival
  BY <1>0, <1>1, SubmitReadsInd, DeleteInd DEF Arrival
<1>2. CASE \E c \in Clients : SubmitStep(c) \/ DeleteStep(c)
  BY <1>0, <1>2, SubmitReadsInd, SubmitInsertInd, SubmitProjectInd, DeleteInd DEF SubmitStep
<1>3. CASE \E j \in Jobs : EngineStep(j) \/ ThreadStep(j)
  BY <1>0, <1>3, EngineInd, PersistInd, ThreadInd DEF EngineStep
<1>4. CASE Lifespan \/ Crash
  BY <1>0, <1>4, LifespanInd
<1>5. CASE UNCHANGED vars
  BY <1>0, <1>5 DEF vars, dbVars, diskVars, IndInv, RequestsOwnJobs, UnmintedUntouched,
     TasksFollowRows, BootOrder, Booting, OneLiveRowPerHandle, NoStrandedRow, NoHiddenRow,
     ProjectedHasRow, LoopRuns, Projecting, Deleting, Rows, LiveRows
<1> QED BY <1>1, <1>2, <1>3, <1>4, <1>5 DEF Next

\* The inductive invariant holds of every behaviour of the download surface.
THEOREM Inductive == Spec => []IndInv
BY InitInd, NextInd, PTL DEF Spec

-----------------------------------------------------------------------------
(* What follows.                                                           *)

\* D-27: no behaviour gives a release handle two live rows.
THEOREM OneLiveRow == Spec => []OneLiveRowPerHandle
BY Inductive, PTL DEF IndInv

\* While the loop runs, every live row is driven by a task, or is about to be.
THEOREM NoStranded == Spec => []NoStrandedRow
BY Inductive, PTL DEF IndInv

\* While the loop runs, the projection and the table hold the same jobs, but for
\* those that a request is just moving in or out.
THEOREM ProjectionMatchesTable == Spec => [](NoHiddenRow /\ ProjectedHasRow)
BY Inductive, PTL DEF IndInv

\* Only these steps change the table.
LEMMA RowWriters ==
  ASSUME [Next]_vars
  PROVE  \/ UNCHANGED <<row, minted>>
         \/ \E c \in Clients : SubmitInsert(c) \/ DeleteRow(c)
         \/ \E j \in Jobs : Persist(j)
         \/ Requeue \/ Project
<1>1. CASE Arrival
  BY <1>1 DEF Arrival, Submit, Delete, dbVars
<1>2. ASSUME NEW c \in Clients, SubmitStep(c) \/ DeleteStep(c)
      PROVE  UNCHANGED <<row, minted>> \/ SubmitInsert(c) \/ DeleteRow(c)
  BY <1>2 DEF SubmitStep, DeleteStep, SubmitFindLive, SubmitFindLatest, SubmitStat, SubmitReread,
              SubmitProject, DeleteLookup, DeleteUnlink, dbVars
<1>3. ASSUME NEW j \in Jobs, EngineStep(j) \/ ThreadStep(j)
      PROVE  UNCHANGED <<row, minted>> \/ Persist(j)
  BY <1>3 DEF EngineStep, ThreadStep, TaskBegin, Admit, PersistMissing, FetchManifest, FetchPages,
              FinishJob, FailJob, SetStatus, WriteTemp, ClearFolder, Publish, WriteFails, dbVars
<1>4. CASE Lifespan \/ Crash
  BY <1>4 DEF Lifespan, Stop, Close, Exit, Crash, ProcessEnds, Sweep, Resume, dbVars
<1>5. CASE UNCHANGED vars
  BY <1>5 DEF vars, dbVars
<1> QED BY <1>1, <1>2, <1>3, <1>4, <1>5 DEF Next

\* A row that was deleted never comes back, whatever task or thread outlives it.
THEOREM DeletedForGood == Spec => DeletedStaysDeleted
<1> DEFINE Stays == \A j \in minted : j \notin Rows => j \notin Rows'
<1>1. IndInv /\ [Next]_vars => Stays
  <2> SUFFICES ASSUME IndInv, [Next]_vars, NEW j \in minted, j \notin Rows PROVE j \notin Rows'
    OBVIOUS
  <2>0. row \in [Jobs -> Row] /\ j \in Jobs /\ row[j].status = "absent"
    BY DEF IndInv, TypeOK, Rows
  <2>1. CASE UNCHANGED <<row, minted>>
    BY <2>1 DEF Rows
  <2>2. ASSUME NEW c \in Clients, SubmitInsert(c) PROVE j \notin Rows'
    <3>1. client[c].job # j
      BY <2>2 DEF SubmitInsert, At, IndInv, RequestsOwnJobs, SubmitPoints
    <3> QED BY <2>0, <2>2, <3>1 DEF SubmitInsert, Rows, dbVars
  <2>3. ASSUME NEW c \in Clients, DeleteRow(c) PROVE j \notin Rows'
    BY <2>0, <2>3 DEF DeleteRow, Rows, NoRow
  <2>4. ASSUME NEW i \in Jobs, Persist(i) PROVE j \notin Rows'
    BY <2>0, <2>4 DEF Persist, Rows
  <2>5. CASE Requeue
    BY <2>0, <2>5 DEF Requeue, Interrupted, LiveRows, LiveStatus, Rows
  <2>6. CASE Project
    BY <2>0, <2>6 DEF Project, Rows, NoRow
  <2> QED BY <2>1, <2>2, <2>3, <2>4, <2>5, <2>6, RowWriters
<1>2. UNCHANGED vars => Stays
  BY DEF vars, dbVars, Rows
<1> QED BY <1>1, <1>2, Inductive, PTL DEF Spec, DeletedStaysDeleted

\* Only a DELETE of its own id removes a live row.
THEOREM LiveRowsStay == Spec => LiveRowOnlyDeleted
<1> DEFINE Stays == \A j \in LiveRows : j \notin Rows' => Deleting(j)
<1>1. IndInv /\ [Next]_vars => Stays
  <2> SUFFICES ASSUME IndInv, [Next]_vars, NEW j \in LiveRows, j \notin Rows' PROVE Deleting(j)
    OBVIOUS
  <2>0. /\ row \in [Jobs -> Row] /\ mem \in [Jobs -> Record] /\ j \in Jobs
        /\ row[j].status \in LiveStatus /\ row'[j].status = "absent"
    BY DEF IndInv, TypeOK, Rows, LiveRows
  <2>1. CASE UNCHANGED <<row, minted>>
    BY <2>0, <2>1 DEF LiveStatus
  <2>2. ASSUME NEW c \in Clients, SubmitInsert(c) PROVE Deleting(j)
    BY <2>0, <2>2 DEF SubmitInsert, FreshJob, LiveStatus, dbVars
  <2>3. ASSUME NEW c \in Clients, DeleteRow(c) PROVE Deleting(j)
    BY <2>0, <2>3 DEF DeleteRow, At, Deleting, LiveStatus
  <2>4. ASSUME NEW i \in Jobs, Persist(i) PROVE Deleting(j)
    BY <2>0, <2>4 DEF Persist, Record, LiveStatus, TerminalStatus
  <2>5. CASE Requeue
    BY <2>0, <2>5 DEF Requeue, FreshJob, LiveStatus
  <2>6. CASE Project
    BY <2>0, <2>6 DEF Project, Surplus, TerminalRows, LiveStatus, TerminalStatus
  <2> QED BY <2>1, <2>2, <2>3, <2>4, <2>5, <2>6, RowWriters
<1>2. UNCHANGED vars => Stays
  BY DEF vars, dbVars, Rows, LiveRows, LiveStatus
<1> QED BY <1>1, <1>2, Inductive, PTL DEF Spec, LiveRowOnlyDeleted

-----------------------------------------------------------------------------
(* The download surface implements JobLifecycle: each of its steps is a    *)
(* step of the lifecycle or a stutter.                                     *)

LifeStatus == [j \in Jobs |-> LifeOf(j)]

\* The statuses of the lifecycle are read off the rows.
LEMMA LifeOfRow ==
  ASSUME TypeOK
  PROVE  /\ \A j \in Jobs : LifeOf(j) \in LiveStatus <=> j \in LiveRows
         /\ \A j \in Jobs : LifeOf(j) \in TerminalStatus <=> j \in TerminalRows
         /\ \A j \in Rows : LifeOf(j) = row[j].status
         /\ Life!Live = LiveStatus /\ Life!Terminal = TerminalStatus
         /\ Life!LiveJobs = LiveRows /\ Life!TerminalJobs = TerminalRows
<1>1. Life!Live = LiveStatus /\ Life!Terminal = TerminalStatus
  BY DEF Life!Live, Life!Terminal, LiveStatus, TerminalStatus
<1>2. /\ \A j \in Jobs : LifeOf(j) \in LiveStatus <=> j \in LiveRows
      /\ \A j \in Jobs : LifeOf(j) \in TerminalStatus <=> j \in TerminalRows
  BY DEF TypeOK, LifeOf, Rows, LiveRows, TerminalRows, LiveStatus, TerminalStatus
<1>3. \A j \in Rows : LifeOf(j) = row[j].status
  BY DEF LifeOf
<1>4. Life!LiveJobs = LiveRows /\ Life!TerminalJobs = TerminalRows
  BY <1>1, <1>2 DEF Life!LiveJobs, Life!TerminalJobs, LiveRows, TerminalRows
<1> QED BY <1>1, <1>2, <1>3, <1>4

LEMMA InitLife == Init => Life!Init
BY DEF Init, Life!Init, LifeOf, Rows, NoRow

\* A step of the download surface is a step of the lifecycle, or a stutter.
LEMMA NextLife ==
  ASSUME IndInv, IndInv', [Next]_vars
  PROVE  Life!Next \/ UNCHANGED LifeStatus
<1>0. /\ TypeOK /\ TypeOK'
      /\ row \in [Jobs -> Row] /\ mem \in [Jobs -> Record] /\ minted \subseteq Jobs
  BY DEF IndInv, TypeOK
<1>1. CASE UNCHANGED <<row, minted>>
  BY <1>1 DEF LifeStatus, LifeOf, Rows
<1>2. ASSUME NEW c \in Clients, SubmitInsert(c) PROVE Life!Next \/ UNCHANGED LifeStatus
  <2>1. PICK j \in Jobs : j = client[c].job /\ j \notin minted /\ row[j] = NoRow
    BY <1>0, <1>2, RequestAt DEF SubmitInsert, At, IndInv, RequestsOwnJobs, UnmintedUntouched,
                                 SubmitPoints
  <2>2. CASE IndexAdmits(j)
    <3>1. row' = [row EXCEPT ![j] = FreshJob] /\ minted' = minted \cup {j}
      BY <1>2, <2>1, <2>2 DEF SubmitInsert
    <3>2. LifeOf(j) = "unborn" /\ LifeOf(j)' = "queued"
      BY <1>0, <2>1, <3>1 DEF LifeOf, Rows, NoRow, FreshJob
    <3>3. \A i \in Jobs \ {j} : LifeOf(i)' = LifeOf(i)
      BY <1>0, <3>1 DEF LifeOf, Rows
    <3>4. \A i \in LiveRows : HandleOf[i] # HandleOf[j]
      BY <2>2 DEF IndexAdmits, LiveRowsOf
    <3>5. Life!Create(j)
      BY <1>0, <2>1, <3>2, <3>3, <3>4, LifeOfRow DEF Life!Create
    <3> QED BY <2>1, <3>5 DEF Life!Next
  <2>3. CASE ~IndexAdmits(j)
    BY <1>1, <1>2, <2>1, <2>3 DEF SubmitInsert, dbVars
  <2> QED BY <2>2, <2>3
<1>3. ASSUME NEW c \in Clients, DeleteRow(c) PROVE Life!Next \/ UNCHANGED LifeStatus
  <2>1. PICK j \in Jobs : j = client[c].job /\ j \in minted
    BY <1>0, <1>3, RequestAt DEF DeleteRow, At, IndInv, RequestsOwnJobs, DeletePoints
  <2>2. row' = [row EXCEPT ![j] = NoRow] /\ minted' = minted
    BY <1>3, <2>1 DEF DeleteRow
  <2>3. LifeOf(j)' = "gone" /\ \A i \in Jobs \ {j} : LifeOf(i)' = LifeOf(i)
    BY <1>0, <2>1, <2>2 DEF LifeOf, Rows, NoRow
  <2>4. CASE j \in Rows
    <3>1. LifeOf(j) \in LiveStatus \cup TerminalStatus
      BY <1>0, <2>1, <2>4, LifeOfRow DEF Rows, Row, Record
    <3>2. Life!Delete(j)
      BY <1>0, <2>1, <2>3, <3>1, LifeOfRow DEF Life!Delete
    <3> QED BY <2>1, <3>2 DEF Life!Next
  <2>5. CASE j \notin Rows
    BY <2>1, <2>3, <2>5 DEF LifeOf, LifeStatus
  <2> QED BY <2>4, <2>5
<1>4. ASSUME NEW j \in Jobs, Persist(j) PROVE Life!Next \/ UNCHANGED LifeStatus
  <2>1. /\ task[j] \in Persisting /\ j \in Rows
        /\ row' = [row EXCEPT ![j] = mem[j]] /\ minted' = minted
    BY <1>4 DEF Persist
  <2>2. mem[j].status = PendingAt[task[j]] /\ row[j].status \in DurableAt[task[j]]
    BY <2>1 DEF IndInv, TasksFollowRows
  <2>3. LifeOf(j) = row[j].status /\ LifeOf(j)' = mem[j].status
    BY <1>0, <2>1 DEF LifeOf, Rows, Record, LiveStatus, TerminalStatus
  <2>4. \A i \in Jobs \ {j} : LifeOf(i)' = LifeOf(i)
    BY <1>0, <2>1 DEF LifeOf, Rows
  <2>5. \/ LifeOf(j) \in LiveStatus /\ LifeOf(j)' = "failed"
        \/ LifeOf(j) \in LiveStatus /\ LifeOf(j)' = Life!NextStatus[LifeOf(j)]
    BY <2>1, <2>2, <2>3, DurableValues DEF Persisting, PendingAt, Life!NextStatus, LiveStatus
  <2>6. Life!Fail(j) \/ Life!Advance(j)
    BY <1>0, <2>4, <2>5, LifeOfRow DEF Life!Fail, Life!Advance
  <2> QED BY <2>6 DEF Life!Next
<1>5. CASE Requeue
  <2>1. row' = [j \in Jobs |-> IF j \in LiveRows THEN FreshJob ELSE row[j]] /\ minted' = minted
    BY <1>5 DEF Requeue, Interrupted
  <2>2. \A j \in Jobs : LifeOf(j)' = IF j \in LiveRows THEN "queued" ELSE LifeOf(j)
    BY <2>1 DEF LifeOf, Rows, FreshJob
  <2>3. Life!Requeue
    BY <1>0, <2>2, LifeOfRow DEF Life!Requeue
  <2> QED BY <2>3 DEF Life!Next
<1>6. CASE Project
  <2>1. row' = [j \in Jobs |-> IF j \in Surplus THEN NoRow ELSE row[j]] /\ minted' = minted
    BY <1>6 DEF Project
  <2>2. Surplus \subseteq TerminalRows /\ Surplus \subseteq Rows
    BY DEF Surplus, TerminalRows, TerminalStatus, Rows
  <2>3. Surplus \subseteq minted
    BY <2>2 DEF IndInv, UnmintedUntouched, Rows, NoRow
  <2>4. \A j \in Jobs : LifeOf(j)' = IF j \in Surplus THEN "gone" ELSE LifeOf(j)
    BY <2>1, <2>3 DEF LifeOf, Rows, NoRow
  <2>5. Life!Prune
    BY <1>0, <2>2, <2>4, LifeOfRow DEF Life!Prune
  <2> QED BY <2>5 DEF Life!Next
<1> QED BY <1>1, <1>2, <1>3, <1>4, <1>5, <1>6, RowWriters

\* Refinement: the durable life of the jobs is the one JobLifecycle promises.
THEOREM ImplementsLifecycle == Spec => Lifecycle
<1>1. IndInv /\ IndInv' /\ [Next]_vars => [Life!Next]_LifeStatus
  BY NextLife
<1> QED BY <1>1, InitLife, Inductive, PTL DEF Spec, Lifecycle, Life!Spec, LifeStatus

-----------------------------------------------------------------------------
(* The disk and the history: which staging temps there are, that a         *)
(* completed job has its archive, and in which order the history is        *)
(* pruned.  DiskInv and HistoryIsOrdered of DownloadsProps are inductive   *)
(* given IndInv.                                                           *)

\* The points of a task, as the parts of DiskInv tell them apart.
LEMMA PointKinds ==
  /\ "none" \notin PathlessPoints /\ "finish" \notin PathlessPoints /\ "fail" \notin PathlessPoints
  /\ "none" \notin Persisting
  /\ Writing \subseteq PathlessPoints
BY DEF PathlessPoints, Persisting, Writing

LEMMA InitDisk == Init => DiskInv
<1> SUFFICES ASSUME Init PROVE DiskInv
  OBVIOUS
<1>1. PathsFollowTasks
  BY PointKinds DEF Init, PathsFollowTasks, LiveRows, NoRow, LiveStatus, Idle, DeletePoints
<1>2. SweptIsClean /\ TempsMatchWriters /\ PublishedStays /\ CompletedHasOutput
  BY DEF Init, SweptIsClean, TempsMatchWriters, PublishedStays, CompletedHasOutput, NoRow
<1> QED BY <1>1, <1>2 DEF DiskInv

\* A task goes from one point to another, and its row stays as it is.
LEMMA TaskDisk ==
  ASSUME IndInv, DiskInv, NEW j \in Jobs, NEW point,
         task[j] # "none", task' = [task EXCEPT ![j] = point],
         \A i \in Jobs \ {j} : mem'[i] = mem[i],
         UNCHANGED <<phase, row, client>>,
         point \in PathlessPoints => mem'[j].path = NoPath,
         point = "finish" => mem'[j].path = DestOf[j],
         point = "clear" => DestOf[j] \in FolderPaths,
         temps' = IF point \in {"clear", "publish"} THEN temps \cup {j} ELSE temps \ {j},
         \A p \in Paths \ FolderPaths : files[p] # Missing => files'[p] # Missing,
         point \in {"written", "finish"} /\ DestOf[j] \notin FolderPaths =>
           files'[DestOf[j]] # Missing
  PROVE  DiskInv'
<1>0. /\ task \in [Jobs -> TaskPoints] /\ phase # "swept" /\ LiveRows' = LiveRows
      /\ DestOf \in [Jobs -> Paths]
  BY JobsAssumption DEF IndInv, TypeOK, BootOrder, Booting, LiveRows
<1>1. PathsFollowTasks'
  <2>1. \A c \in Clients : client[c].at = "project" => client[c].job # j
    BY DEF IndInv, RequestsOwnJobs
  <2>2. \A c \in Clients : client[c].at = "project" \/ client[c].at \in DeletePoints
          => client[c].job \in Jobs
    BY RequestAt DEF IndInv, DeletePoints
  <2> QED BY <1>0, <2>1, <2>2 DEF DiskInv, PathsFollowTasks
<1>2. SweptIsClean' /\ TempsMatchWriters'
  BY <1>0 DEF DiskInv, SweptIsClean, TempsMatchWriters
<1>3. PublishedStays'
  BY <1>0 DEF DiskInv, PublishedStays
<1>4. CompletedHasOutput'
  BY <1>0 DEF DiskInv, CompletedHasOutput
<1> QED BY <1>1, <1>2, <1>3, <1>4 DEF DiskInv

\* A step of the engine that is not store.update: the temps and the files stay.
LEMMA EngineDisk ==
  ASSUME IndInv, DiskInv, NEW j \in Jobs,
         TaskBegin(j) \/ Admit(j) \/ PersistMissing(j) \/ FetchManifest(j)
           \/ FetchPages(j) \/ FinishJob(j)
  PROVE  DiskInv'
<1>0. mem \in [Jobs -> Record] /\ task \in [Jobs -> TaskPoints] /\ LoopRuns
  BY DEF IndInv, TypeOK, TaskBegin, Admit, PersistMissing, FetchManifest, FetchPages, FinishJob,
         TaskAt
<1>1. task[j] \notin {"none", "clear", "publish"} /\ temps \ {j} = temps
  <2>1. task[j] \notin {"none", "clear", "publish"}
    BY DEF TaskBegin, Admit, PersistMissing, FetchManifest, FetchPages, FinishJob, TaskAt,
           Persisting
  <2> QED BY <1>0, <2>1 DEF DiskInv, TempsMatchWriters, LoopRuns
<1>2. ASSUME NEW status, NEW point, SetStatus(j, status, point),
             point \notin {"clear", "publish", "written", "finish"},
             point \in PathlessPoints => mem[j].path = NoPath
      PROVE  DiskInv'
  <2>1. mem'[j].path = mem[j].path /\ \A i \in Jobs \ {j} : mem'[i] = mem[i]
    BY <1>0, <1>2 DEF SetStatus, Record
  <2> QED BY <1>1, <1>2, <2>1, TaskDisk DEF SetStatus, dbVars, diskVars
<1>3. ASSUME FailJob(j) PROVE DiskInv'
  BY <1>2, <1>3, PointKinds DEF FailJob
<1>4. ASSUME task[j] \in PathlessPoints PROVE mem[j].path = NoPath
  BY <1>4 DEF DiskInv, PathsFollowTasks
<1>5. CASE TaskBegin(j)
  <2>1. task[j] = "spawned"
    BY <1>5 DEF TaskBegin, TaskAt
  <2>2. mem[j].path = NoPath
    BY <1>4, <2>1 DEF PathlessPoints
  <2> QED BY <1>1, <1>5, <2>2, TaskDisk, PointKinds DEF TaskBegin, dbVars, diskVars
<1>6. CASE Admit(j)
  <2>1. mem[j].path = NoPath
    BY <1>4, <1>6 DEF Admit, TaskAt, PathlessPoints
  <2> QED BY <1>2, <1>3, <1>6, <2>1 DEF Admit
<1>7. CASE PersistMissing(j)
  <2>1. ASSUME task' = [task EXCEPT ![j] = "none"], UNCHANGED <<phase, row, mem, client, files, temps>>
        PROVE  DiskInv'
    BY <1>1, <2>1, TaskDisk, PointKinds
  <2> QED BY <1>3, <1>7, <2>1 DEF PersistMissing, dbVars, diskVars
<1>8. CASE FetchManifest(j)
  <2>1. mem[j].path = NoPath
    BY <1>4, <1>8 DEF FetchManifest, TaskAt, PathlessPoints
  <2> QED BY <1>2, <1>3, <1>8, <2>1 DEF FetchManifest
<1>9. CASE FetchPages(j)
  <2>1. mem[j].path = NoPath
    BY <1>4, <1>9 DEF FetchPages, TaskAt, PathlessPoints
  <2> QED BY <1>2, <1>3, <1>9, <2>1 DEF FetchPages
<1>10. CASE FinishJob(j)
  <2>1. mem'[j].path = DestOf[j] /\ \A i \in Jobs \ {j} : mem'[i] = mem[i]
    BY <1>0, <1>10 DEF FinishJob
  <2>2. DestOf[j] \notin FolderPaths => files[DestOf[j]] # Missing
    BY <1>10 DEF FinishJob, TaskAt, DiskInv, PublishedStays
  <2> QED BY <1>1, <1>10, <2>1, <2>2, TaskDisk, PointKinds DEF FinishJob, dbVars, diskVars
<1> QED BY <1>5, <1>6, <1>7, <1>8, <1>9, <1>10

\* store.update: only a finished job gets a path, and its archive is there.
LEMMA PersistDisk ==
  ASSUME IndInv, DiskInv, NEW j \in Jobs, Persist(j)
  PROVE  DiskInv'
<1>0. /\ row \in [Jobs -> Row] /\ task \in [Jobs -> TaskPoints] /\ mem \in [Jobs -> Record]
      /\ task[j] \in Persisting /\ LoopRuns /\ j \in Rows
      /\ row' = [row EXCEPT ![j] = mem[j]]
      /\ task' = [task EXCEPT ![j] = AfterPersist[task[j]]]
      /\ UNCHANGED <<phase, mem, client, files, temps>>
  BY DEF Persist, IndInv, TypeOK, diskVars
<1>1. mem[j].status = PendingAt[task[j]]
  BY <1>0 DEF IndInv, TasksFollowRows
<1>2. /\ task[j] \in {"resolve", "start", "pack"} => mem[j].path = NoPath
      /\ task[j] = "finish" =>
           /\ mem[j].path = DestOf[j]
           /\ DestOf[j] \notin FolderPaths => files[DestOf[j]] # Missing
  BY DEF DiskInv, PathsFollowTasks, PathlessPoints, PublishedStays
<1>3. /\ mem[j].status \in LiveStatus => mem[j].path = NoPath
      /\ mem[j].status = "completed" => task[j] = "finish"
  BY <1>0, <1>1, <1>2 DEF Persisting, PendingAt, LiveStatus
<1>4. /\ AfterPersist[task[j]] \notin {"clear", "publish", "written", "finish"}
      /\ AfterPersist[task[j]] \in PathlessPoints => task[j] \in {"resolve", "start", "pack"}
  BY <1>0 DEF AfterPersist, Persisting, PathlessPoints
<1>5. PathsFollowTasks'
  <2>1. \A i \in LiveRows' : i \in Jobs /\ row'[i].path = NoPath
    BY <1>0, <1>3 DEF LiveRows, DiskInv, PathsFollowTasks
  <2>2. \A i \in Jobs : task'[i] \in PathlessPoints => mem'[i].path = NoPath
    BY <1>0, <1>2, <1>4 DEF DiskInv, PathsFollowTasks
  <2>3. \A i \in Jobs : task'[i] = "finish" => mem'[i].path = DestOf[i]
    BY <1>0, <1>4 DEF DiskInv, PathsFollowTasks
  <2>4. \A c \in Clients : client[c].at \in DeletePoints /\ client[c].path \in Paths =>
          client[c].job # j
    BY <1>0, PointKinds DEF DiskInv, PathsFollowTasks
  <2> QED BY <1>0, <2>1, <2>2, <2>3, <2>4 DEF DiskInv, PathsFollowTasks
<1>6. SweptIsClean'
  BY <1>0 DEF DiskInv, SweptIsClean
<1>7. TempsMatchWriters'
  BY <1>0, <1>4 DEF DiskInv, TempsMatchWriters, Persisting
<1>8. PublishedStays'
  BY <1>0, <1>4 DEF DiskInv, PublishedStays
<1>9. CompletedHasOutput'
  <2> SUFFICES ASSUME NEW i \in Jobs, row'[i].status = "completed"
               PROVE  /\ row'[i].path = DestOf[i]
                      /\ row'[i].path \notin FolderPaths => files'[row'[i].path] # Missing
    BY DEF CompletedHasOutput
  <2>1. CASE i = j
    BY <1>0, <1>2, <1>3, <2>1
  <2>2. CASE i # j
    BY <1>0, <2>2 DEF DiskInv, CompletedHasOutput
  <2> QED BY <2>1, <2>2
<1> QED BY <1>5, <1>6, <1>7, <1>8, <1>9 DEF DiskInv

\* A step of the writer thread.
LEMMA ThreadDisk ==
  ASSUME IndInv, DiskInv, NEW j \in Jobs, ThreadStep(j)
  PROVE  DiskInv'
<1>0. /\ mem \in [Jobs -> Record] /\ files \in [Paths -> Jobs \cup {Missing, Unlinked}]
      /\ DestOf[j] \in Paths /\ FolderPaths \subseteq Paths /\ j # Missing
  BY JobsAssumption DEF IndInv, TypeOK
<1>1. task[j] \in Writing /\ UNCHANGED <<phase, row, client>>
  BY DEF ThreadStep, WriteTemp, ClearFolder, Publish, WriteFails, ThreadAt, Writing, dbVars
<1>2. task[j] # "none" /\ mem[j].path = NoPath
  BY <1>1, PointKinds DEF DiskInv, PathsFollowTasks, Writing
<1>3. "clear" \in PathlessPoints /\ "publish" \in PathlessPoints /\ "written" \in PathlessPoints
  BY DEF PathlessPoints
<1>4. CASE WriteTemp(j)
  <2> DEFINE point == IF DestOf[j] \in FolderPaths THEN "clear" ELSE "publish"
  <2>1. /\ task' = [task EXCEPT ![j] = point] /\ temps' = temps \cup {j}
        /\ UNCHANGED <<mem, files>>
    BY <1>4 DEF WriteTemp
  <2>2. point \in {"clear", "publish"} /\ (point = "clear" => DestOf[j] \in FolderPaths)
    OBVIOUS
  <2> HIDE DEF point
  <2> QED BY <1>1, <1>2, <2>1, <2>2, TaskDisk
<1>5. CASE ClearFolder(j)
  <2>1. /\ task' = [task EXCEPT ![j] = "publish"] /\ UNCHANGED <<mem, temps>>
        /\ files' = [files EXCEPT ![DestOf[j]] = IF OnDisk(DestOf[j]) THEN Missing ELSE @]
        /\ task[j] = "clear" /\ phase \in {"up", "draining", "closing"}
    BY <1>5 DEF ClearFolder, ThreadAt
  <2>2. DestOf[j] \in FolderPaths /\ j \in temps
    BY <2>1 DEF DiskInv, PublishedStays, TempsMatchWriters
  <2>3. \A p \in Paths \ FolderPaths : files'[p] = files[p]
    BY <1>0, <2>1, <2>2
  <2> QED BY <1>1, <1>2, <2>1, <2>2, <2>3, TaskDisk
<1>6. CASE Publish(j)
  <2>1. /\ task' = [task EXCEPT ![j] = "written"] /\ temps' = temps \ {j} /\ UNCHANGED mem
        /\ files' = [files EXCEPT ![DestOf[j]] = j]
    BY <1>6 DEF Publish
  <2>2. /\ files'[DestOf[j]] # Missing
        /\ \A p \in Paths : files[p] # Missing => files'[p] # Missing
    BY <1>0, <2>1
  <2> QED BY <1>1, <1>2, <2>1, <2>2, TaskDisk
<1>7. CASE WriteFails(j)
  <2>1. /\ task' = [task EXCEPT ![j] = "fail"] /\ temps' = temps \ {j} /\ UNCHANGED files
        /\ mem' = [mem EXCEPT ![j].status = "failed"]
    BY <1>7 DEF WriteFails
  <2>2. \A i \in Jobs \ {j} : mem'[i] = mem[i]
    BY <1>0, <2>1
  <2> QED BY <1>1, <1>2, <2>1, <2>2, TaskDisk, PointKinds
<1> QED BY <1>4, <1>5, <1>6, <1>7 DEF ThreadStep

\* A request goes from one point to another; only a path that belongs to no
\* task's job comes with it, and nothing on the disk changes.
LEMMA RequestDisk ==
  ASSUME DiskInv, NEW c \in Clients, client \in [Clients -> Request], NEW r,
         client' = [client EXCEPT ![c] = r],
         r.at # "project",
         r.at \in DeletePoints /\ r.path \in Paths => task[r.job] = "none",
         UNCHANGED <<phase, row, mem, task, diskVars>>
  PROVE  DiskInv'
<1>1. PathsFollowTasks'
  BY DEF DiskInv, PathsFollowTasks, LiveRows
<1>2. SweptIsClean' /\ TempsMatchWriters' /\ PublishedStays' /\ CompletedHasOutput'
  BY DEF DiskInv, SweptIsClean, TempsMatchWriters, PublishedStays, CompletedHasOutput, diskVars
<1> QED BY <1>1, <1>2 DEF DiskInv

LEMMA AnswerDisk ==
  ASSUME DiskInv, NEW c \in Clients, client \in [Clients -> Request],
         client' = [client EXCEPT ![c] = Idle],
         UNCHANGED <<phase, row, mem, task, diskVars>>
  PROVE  DiskInv'
<1>1. Idle.at # "project" /\ Idle.at \notin DeletePoints
  BY DEF Idle, DeletePoints
<1> QED BY <1>1, RequestDisk

\* A submit up to its insert, and a submit that the index turned away.
LEMMA SubmitReadsDisk ==
  ASSUME IndInv, DiskInv, NEW c \in Clients,
         \/ \E j \in Jobs : Submit(c, j)
         \/ SubmitFindLive(c) \/ SubmitFindLatest(c) \/ SubmitStat(c) \/ SubmitReread(c)
         \/ SubmitInsert(c) /\ ~IndexAdmits(client[c].job)
  PROVE  DiskInv'
<1>0. /\ client \in [Clients -> Request] /\ UNCHANGED <<phase, row, mem, task, diskVars>>
      /\ "idle" \notin DeletePoints /\ "find_live" \notin DeletePoints
      /\ \A point \in {"find_latest", "insert", "reread", "stat"} :
           point \in SubmitPoints /\ point \notin DeletePoints
  BY DEF IndInv, TypeOK, Submit, SubmitFindLive, SubmitFindLatest, SubmitStat, SubmitReread,
         SubmitInsert, dbVars, SubmitPoints, DeletePoints
<1>1. ASSUME Answer(c) PROVE DiskInv'
  BY <1>0, <1>1, AnswerDisk DEF Answer
<1>2. ASSUME NEW point \in {"find_latest", "insert", "reread"}, client[c].at \in SubmitPoints,
             Goto(c, point)
      PROVE  DiskInv'
  <2>1. client[c] \in [at : SubmitPoints, job : Jobs, path : Paths \cup {NoPath}]
    BY <1>0, <1>2, RequestKinds
  <2>2. client' = [client EXCEPT ![c] = client'[c]] /\ client'[c].at = point
    BY <1>0, <1>2, <2>1 DEF Goto
  <2>3. point # "project" /\ point \notin DeletePoints
    BY <1>0
  <2> QED BY <1>0, <2>2, <2>3, RequestDisk
<1>3. ASSUME NEW j \in Jobs, Submit(c, j) PROVE DiskInv'
  <2>1. client' = [client EXCEPT ![c] = client'[c]] /\ client'[c].at = "find_live"
    BY <1>0, <1>3 DEF Submit
  <2> QED BY <1>0, <2>1, RequestDisk
<1>4. CASE SubmitFindLive(c)
  BY <1>1, <1>2, <1>4 DEF SubmitFindLive, At, SubmitPoints
<1>5. CASE SubmitFindLatest(c)
  <2>1. client[c] \in [at : SubmitPoints, job : Jobs, path : Paths \cup {NoPath}]
    BY <1>0, <1>5, RequestKinds DEF SubmitFindLatest, At, SubmitPoints
  <2>2. ASSUME NEW path, client' = [client EXCEPT ![c].at = "stat", ![c].path = path]
        PROVE  DiskInv'
    <3>1. client' = [client EXCEPT ![c] = client'[c]] /\ client'[c].at = "stat"
      BY <1>0, <2>1, <2>2
    <3> QED BY <1>0, <3>1, RequestDisk
  <2> QED BY <1>2, <1>5, <2>1, <2>2 DEF SubmitFindLatest
<1>6. CASE SubmitStat(c)
  BY <1>1, <1>2, <1>6 DEF SubmitStat, At, SubmitPoints
<1>7. CASE SubmitReread(c)
  BY <1>1, <1>7 DEF SubmitReread
<1>8. CASE SubmitInsert(c) /\ ~IndexAdmits(client[c].job)
  BY <1>2, <1>8 DEF SubmitInsert, At, SubmitPoints
<1> QED BY <1>3, <1>4, <1>5, <1>6, <1>7, <1>8

\* A row is inserted: it has no path, and no task works on its job.
LEMMA SubmitInsertDisk ==
  ASSUME IndInv, DiskInv, NEW c \in Clients, SubmitInsert(c), IndexAdmits(client[c].job)
  PROVE  DiskInv'
<1> DEFINE j == client[c].job
<1>0. /\ client \in [Clients -> Request] /\ row \in [Jobs -> Row] /\ mem \in [Jobs -> Record]
      /\ client[c].at = "insert" /\ j \in Jobs
      /\ client[c] \in [at : SubmitPoints, job : Jobs, path : Paths \cup {NoPath}]
  BY RequestKinds DEF SubmitInsert, At, IndInv, TypeOK, SubmitPoints
<1>1. /\ row' = [row EXCEPT ![j] = FreshJob] /\ mem' = [mem EXCEPT ![j] = FreshJob]
      /\ client' = [client EXCEPT ![c].at = "project"]
      /\ UNCHANGED <<phase, task, files, temps>>
  BY DEF SubmitInsert, Goto, diskVars
<1>2. /\ client'[c].at = "project" /\ client'[c].job = j
      /\ \A d \in Clients \ {c} : client'[d] = client[d]
  BY <1>0, <1>1
<1>3. /\ task[j] = "none" /\ FreshJob.path = NoPath /\ FreshJob.status = "queued"
      /\ "project" \notin DeletePoints
  BY <1>0 DEF IndInv, RequestsOwnJobs, UnmintedUntouched, SubmitPoints, DeletePoints, FreshJob
<1>4. PathsFollowTasks'
  <2>1. \A i \in LiveRows' : i \in Jobs /\ row'[i].path = NoPath
    BY <1>0, <1>1, <1>3 DEF LiveRows, DiskInv, PathsFollowTasks
  <2>2. \A i \in Jobs : /\ task'[i] \in PathlessPoints => mem'[i].path = NoPath
                        /\ task'[i] = "finish" => mem'[i].path = DestOf[i]
    BY <1>0, <1>1, <1>3 DEF DiskInv, PathsFollowTasks
  <2>3. \A d \in Clients : client'[d].at = "project" => mem'[client'[d].job].path = NoPath
    <3>1. \A d \in Clients \ {c} : client[d].at = "project" => client[d].job \in Jobs
      BY RequestAt DEF IndInv
    <3> QED BY <1>0, <1>1, <1>2, <1>3, <3>1 DEF DiskInv, PathsFollowTasks
  <2>4. \A d \in Clients : client'[d].at \in DeletePoints /\ client'[d].path \in Paths =>
          task'[client'[d].job] = "none"
    BY <1>1, <1>2, <1>3 DEF DiskInv, PathsFollowTasks
  <2> QED BY <2>1, <2>2, <2>3, <2>4 DEF PathsFollowTasks
<1>5. SweptIsClean' /\ TempsMatchWriters' /\ PublishedStays'
  BY <1>1 DEF DiskInv, SweptIsClean, TempsMatchWriters, PublishedStays
<1>6. CompletedHasOutput'
  BY <1>0, <1>1, <1>3 DEF DiskInv, CompletedHasOutput
<1> QED BY <1>4, <1>5, <1>6 DEF DiskInv

\* A task is spawned for the job; no DELETE knows its job yet.
LEMMA SubmitProjectDisk ==
  ASSUME IndInv, DiskInv, NEW c \in Clients, SubmitProject(c)
  PROVE  DiskInv'
<1> DEFINE j == client[c].job
<1>0. /\ client[c].at = "project" /\ phase = "up" /\ j \in Jobs
      /\ client \in [Clients -> Request] /\ task \in [Jobs -> TaskPoints]
  BY RequestAt DEF SubmitProject, At, IndInv, TypeOK
<1>1. /\ task' = [task EXCEPT ![j] = "spawned"] /\ UNCHANGED <<phase, row, mem, files, temps>>
      /\ client'[c].at = "idle" /\ \A d \in Clients \ {c} : client'[d] = client[d]
  BY <1>0 DEF SubmitProject, Answer, dbVars, diskVars, Idle
<1>2. /\ task[j] = "none" /\ mem[j].path = NoPath
      /\ \A d \in Clients \ {c} : client[d].at # "idle" => client[d].job # j
  BY <1>0 DEF IndInv, RequestsOwnJobs, DiskInv, PathsFollowTasks, SubmitPoints
<1>3. PathsFollowTasks'
  <2>1. \A d \in Clients : client'[d].at \in DeletePoints => client'[d].job \in Jobs \ {j}
    BY <1>1, <1>2, RequestAt DEF IndInv, DeletePoints
  <2>2. \A d \in Clients : client'[d].at \in DeletePoints \cup {"project"} =>
          client'[d] = client[d]
    BY <1>1 DEF DeletePoints
  <2> QED BY <1>0, <1>1, <1>2, <2>1, <2>2 DEF DiskInv, PathsFollowTasks, LiveRows
<1>4. SweptIsClean' /\ TempsMatchWriters' /\ PublishedStays' /\ CompletedHasOutput'
  BY <1>0, <1>1, <1>2 DEF DiskInv, SweptIsClean, TempsMatchWriters, PublishedStays,
                          CompletedHasOutput
<1> QED BY <1>3, <1>4 DEF DiskInv

\* A DELETE: it reads a path only from a row that no task works on, and unlinks
\* no temp of a writer.
LEMMA DeleteDisk ==
  ASSUME IndInv, DiskInv, NEW c \in Clients,
         DeleteStep(c) \/ (\E j \in Jobs, data \in DeleteModes : Delete(c, j, data))
  PROVE  DiskInv'
<1> DEFINE j == client[c].job
           D == [at : DeletePoints, job : Jobs, path : Paths \cup {NoPath, JobObject},
                 data : BOOLEAN]
<1>0. /\ client \in [Clients -> Request] /\ row \in [Jobs -> Row] /\ mem \in [Jobs -> Record]
      /\ JobObject \notin Paths /\ NoPath \notin Paths
  BY JobsAssumption DEF IndInv, TypeOK
<1>1. ASSUME NEW i \in Jobs, NEW data \in DeleteModes, Delete(c, i, data) PROVE DiskInv'
  <2> DEFINE r == [at |-> IF i \in projection THEN "delete_row" ELSE "lookup", job |-> i,
                   path |-> JobObject, data |-> data]
  <2>1. /\ client' = [client EXCEPT ![c] = r] /\ r.at # "project" /\ r.path \notin Paths
        /\ UNCHANGED <<phase, row, mem, task, diskVars>>
    BY <1>0, <1>1 DEF Delete, dbVars
  <2> HIDE DEF r
  <2> QED BY <1>0, <2>1, RequestDisk
<1>2. CASE DeleteLookup(c)
  <2>1. /\ client[c].at = "lookup" /\ client[c] \in D /\ j \in Jobs
        /\ UNCHANGED <<phase, row, mem, task, diskVars>>
    BY <1>0, <1>2, RequestKinds DEF DeleteLookup, At, dbVars, DeletePoints
  <2>2. CASE Answer(c)
    BY <1>0, <2>1, <2>2, AnswerDisk DEF Answer
  <2>3. CASE j \in Rows /\ client' = [client EXCEPT ![c].at = "delete_row", ![c].path = row[j].path]
    <3>1. /\ client' = [client EXCEPT ![c] = client'[c]] /\ client'[c].at = "delete_row"
          /\ client'[c].path = row[j].path /\ client'[c].job = j
      BY <1>0, <2>1, <2>3
    <3>2. ASSUME row[j].path \in Paths PROVE task[j] = "none"
      <4>1. j \notin LiveRows
        BY <1>0, <3>2 DEF DiskInv, PathsFollowTasks
      <4>2. row[j].status \in DurableAt[task[j]] /\ task[j] \in TaskPoints
        BY <2>1, <2>3 DEF IndInv, TasksFollowRows, TypeOK
      <4> QED BY <2>1, <4>1, <4>2, DurableValues DEF LiveRows
    <3> QED BY <1>0, <2>1, <3>1, <3>2, RequestDisk
  <2> QED BY <1>2, <2>2, <2>3 DEF DeleteLookup
<1>3. CASE DeleteRow(c)
  <2>1. /\ client[c].at = "delete_row" /\ client[c] \in D /\ j \in Jobs
        /\ row' = [row EXCEPT ![j] = NoRow] /\ UNCHANGED <<phase, mem, task, files, temps>>
    BY <1>0, <1>3, RequestKinds DEF DeleteRow, At, DeletePoints, diskVars
  <2>2. /\ \A d \in Clients \ {c} : client'[d] = client[d]
        /\ \/ client'[c] = Idle
           \/ client'[c].at = "unlink" /\ client'[c].job = j /\ client'[c].path = client[c].path
    BY <1>0, <1>3, <2>1 DEF DeleteRow, Goto, Answer
  <2>3. \A i \in LiveRows' : i \in LiveRows /\ row'[i] = row[i]
    BY <1>0, <2>1 DEF LiveRows, NoRow, LiveStatus
  <2>4. PathsFollowTasks'
    BY <2>1, <2>2, <2>3 DEF DiskInv, PathsFollowTasks, DeletePoints, Idle
  <2>5. SweptIsClean' /\ TempsMatchWriters' /\ PublishedStays'
    BY <2>1 DEF DiskInv, SweptIsClean, TempsMatchWriters, PublishedStays
  <2>6. CompletedHasOutput'
    BY <1>0, <2>1 DEF DiskInv, CompletedHasOutput, NoRow
  <2> QED BY <2>4, <2>5, <2>6 DEF DiskInv
<1>4. CASE DeleteUnlink(c)
  <2> DEFINE path == IF client[c].path = JobObject THEN mem[j].path ELSE client[c].path
  <2>1. /\ client[c].at = "unlink" /\ client[c] \in D /\ j \in Jobs /\ phase = "up"
        /\ client' = [client EXCEPT ![c] = Idle] /\ UNCHANGED <<phase, row, mem, task>>
    BY <1>0, <1>4, RequestKinds DEF DeleteUnlink, At, Answer, dbVars, DeletePoints
  <2>2. CASE UNCHANGED diskVars
    BY <1>0, <2>1, <2>2, AnswerDisk
  <2>3. CASE /\ path # NoPath
             /\ files' = [files EXCEPT ![path] = IF OnDisk(path) THEN Unlinked ELSE @]
             /\ temps' = temps \ OwnTemps(j)
    <3>1. task[j] \notin {"clear", "publish"}
      <4>1. CASE client[c].path = JobObject
        BY <2>1, <2>3, <4>1 DEF DiskInv, PathsFollowTasks, PathlessPoints
      <4>2. CASE client[c].path # JobObject
        BY <2>1, <2>3, <4>2 DEF DiskInv, PathsFollowTasks, DeletePoints
      <4> QED BY <4>1, <4>2
    <3>2. temps' = temps
      BY <2>1, <2>3, <3>1 DEF DiskInv, TempsMatchWriters, OwnTemps
    <3>3. \A p \in Paths : files[p] # Missing => files'[p] # Missing
      BY <2>3, JobsAssumption DEF IndInv, TypeOK
    <3> HIDE DEF path
    <3>4. PathsFollowTasks'
      BY <1>0, <2>1 DEF DiskInv, PathsFollowTasks, LiveRows, Idle, DeletePoints
    <3>5. SweptIsClean' /\ TempsMatchWriters'
      BY <2>1, <3>2 DEF DiskInv, SweptIsClean, TempsMatchWriters
    <3>6. PublishedStays' /\ CompletedHasOutput'
      BY <2>1, <3>3, JobsAssumption DEF DiskInv, PublishedStays, CompletedHasOutput
    <3> QED BY <3>4, <3>5, <3>6 DEF DiskInv
  <2> QED BY <1>4, <2>2, <2>3 DEF DeleteUnlink
<1> QED BY <1>1, <1>2, <1>3, <1>4 DEF DeleteStep

\* Shutdown, crash and boot: a writer thread runs on until the process has
\* ended, and what it leaves is swept before the next tasks are spawned.
LEMMA LifespanDisk ==
  ASSUME IndInv, DiskInv, Lifespan \/ Crash
  PROVE  DiskInv'
<1>0. /\ row \in [Jobs -> Row] /\ task \in [Jobs -> TaskPoints]
      /\ phase # "up" => \A c \in Clients : client[c].at = "idle"
      /\ "idle" \notin DeletePoints
  BY DEF IndInv, TypeOK, RequestsOwnJobs, DeletePoints
<1>1. CASE Stop
  <2>1. /\ phase = "up" /\ phase' = "draining"
        /\ UNCHANGED <<row, mem, task, client, files, temps>>
    BY <1>1 DEF Stop, dbVars, diskVars
  <2> QED BY <2>1 DEF DiskInv, PathsFollowTasks, SweptIsClean, TempsMatchWriters, PublishedStays,
                      CompletedHasOutput, LiveRows
<1>2. CASE Close
  <2>1. /\ phase = "draining" /\ phase' = "closing"
        /\ task' = [j \in Jobs |-> IF task[j] \in Writing THEN task[j] ELSE "none"]
        /\ UNCHANGED <<row, mem, client, files, temps>>
    BY <1>2 DEF Close, dbVars, diskVars
  <2>2. PathsFollowTasks'
    BY <1>0, <2>1, PointKinds DEF DiskInv, PathsFollowTasks, LiveRows, Writing
  <2>3. SweptIsClean' /\ TempsMatchWriters'
    BY <1>0, <2>1 DEF DiskInv, SweptIsClean, TempsMatchWriters, Writing
  <2>4. PublishedStays' /\ CompletedHasOutput'
    BY <2>1 DEF DiskInv, PublishedStays, CompletedHasOutput, Writing
  <2> QED BY <2>2, <2>3, <2>4 DEF DiskInv
<1>3. CASE Exit \/ Crash
  <2>1. /\ phase' = "down" /\ task' = [j \in Jobs |-> "none"]
        /\ \A c \in Clients : client'[c].at = "idle"
        /\ UNCHANGED <<row, files, temps>>
    BY <1>3 DEF Exit, Crash, ProcessEnds, dbVars, diskVars, Idle
  <2>2. PathsFollowTasks'
    BY <1>0, <2>1, PointKinds DEF DiskInv, PathsFollowTasks, LiveRows
  <2>3. SweptIsClean' /\ TempsMatchWriters' /\ PublishedStays' /\ CompletedHasOutput'
    BY <2>1 DEF DiskInv, SweptIsClean, TempsMatchWriters, PublishedStays, CompletedHasOutput
  <2> QED BY <2>2, <2>3 DEF DiskInv
<1>4. CASE Requeue
  <2>1. /\ phase = "down" /\ phase' = "requeued"
        /\ row' = [j \in Jobs |-> IF j \in LiveRows THEN FreshJob ELSE row[j]]
        /\ UNCHANGED <<mem, task, client, files, temps>>
    BY <1>4 DEF Requeue, Interrupted, diskVars
  <2>2. \A j \in Jobs : row'[j] = FreshJob \/ (row'[j] = row[j] /\ j \notin LiveRows)
    BY <2>1
  <2>3. PathsFollowTasks'
    BY <1>0, <2>1, <2>2 DEF DiskInv, PathsFollowTasks, LiveRows, FreshJob
  <2>4. SweptIsClean' /\ TempsMatchWriters' /\ PublishedStays'
    BY <2>1 DEF DiskInv, SweptIsClean, TempsMatchWriters, PublishedStays
  <2>5. CompletedHasOutput'
    BY <2>1, <2>2 DEF DiskInv, CompletedHasOutput, FreshJob
  <2> QED BY <2>3, <2>4, <2>5 DEF DiskInv
<1>5. CASE Project
  <2>1. /\ phase = "requeued" /\ phase' = "projected"
        /\ row' = [j \in Jobs |-> IF j \in Surplus THEN NoRow ELSE row[j]]
        /\ UNCHANGED <<task, client, files, temps>>
    BY <1>5 DEF Project, diskVars
  <2>2. /\ \A j \in Jobs : task[j] = "none"
        /\ \A c \in Clients : client[c].at = "idle"
        /\ \A j \in Jobs : row'[j] = NoRow \/ row'[j] = row[j]
    BY <1>0, <2>1 DEF IndInv, BootOrder, Booting
  <2>3. PathsFollowTasks'
    BY <1>0, <2>1, <2>2, PointKinds DEF DiskInv, PathsFollowTasks, LiveRows, NoRow, LiveStatus
  <2>4. SweptIsClean' /\ TempsMatchWriters' /\ PublishedStays'
    BY <2>1 DEF DiskInv, SweptIsClean, TempsMatchWriters, PublishedStays
  <2>5. CompletedHasOutput'
    BY <2>1, <2>2 DEF DiskInv, CompletedHasOutput, NoRow
  <2> QED BY <2>3, <2>4, <2>5 DEF DiskInv
<1>6. CASE Sweep
  <2>1. /\ phase' = "swept" /\ temps' = {} /\ UNCHANGED <<row, mem, task, client, files>>
    BY <1>6 DEF Sweep, dbVars
  <2> QED BY <2>1 DEF DiskInv, PathsFollowTasks, SweptIsClean, TempsMatchWriters, PublishedStays,
                      CompletedHasOutput, LiveRows
<1>7. CASE Resume
  <2>1. /\ phase = "swept" /\ phase' = "up"
        /\ task' = [j \in Jobs |-> IF j \in Resumed THEN "spawned" ELSE task[j]]
        /\ UNCHANGED <<row, mem, client, files, temps>>
    BY <1>7 DEF Resume, dbVars, diskVars
  <2>2. /\ \A j \in Jobs : task[j] = "none"
        /\ \A c \in Clients : client[c].at = "idle"
        /\ \A j \in projection : mem[j] = row[j] /\ j \in Jobs
        /\ temps = {}
    BY <1>0, <2>1 DEF IndInv, TypeOK, BootOrder, Booting, DiskInv, SweptIsClean
  <2>3. \A j \in Jobs : task'[j] = "none" \/ (task'[j] = "spawned" /\ mem'[j].path = NoPath)
    <3>1. \A j \in Resumed : mem[j].path = NoPath
      BY <2>2 DEF Resumed, DiskInv, PathsFollowTasks, LiveRows, LiveStatus
    <3> QED BY <2>1, <2>2, <3>1
  <2>4. PathsFollowTasks'
    BY <2>1, <2>2, <2>3, <1>0, PointKinds DEF DiskInv, PathsFollowTasks, LiveRows
  <2>5. SweptIsClean' /\ TempsMatchWriters' /\ PublishedStays' /\ CompletedHasOutput'
    BY <2>1, <2>2, <2>3 DEF DiskInv, SweptIsClean, TempsMatchWriters, PublishedStays,
                            CompletedHasOutput
  <2> QED BY <2>4, <2>5 DEF DiskInv
<1> QED BY <1>1, <1>2, <1>3, <1>4, <1>5, <1>6, <1>7 DEF Lifespan

LEMMA NextDisk == IndInv /\ DiskInv /\ [Next]_vars => DiskInv'
<1> SUFFICES ASSUME IndInv, DiskInv, [Next]_vars PROVE DiskInv'
  OBVIOUS
<1>1. CASE Arrival
  BY <1>1, SubmitReadsDisk, DeleteDisk DEF Arrival
<1>2. CASE \E c \in Clients : SubmitStep(c) \/ DeleteStep(c)
  BY <1>2, SubmitReadsDisk, SubmitInsertDisk, SubmitProjectDisk, DeleteDisk DEF SubmitStep
<1>3. CASE \E j \in Jobs : EngineStep(j) \/ ThreadStep(j)
  BY <1>3, EngineDisk, PersistDisk, ThreadDisk DEF EngineStep
<1>4. CASE Lifespan \/ Crash
  BY <1>4, LifespanDisk
<1>5. CASE UNCHANGED vars
  BY <1>5 DEF vars, dbVars, diskVars, DiskInv, PathsFollowTasks, SweptIsClean, TempsMatchWriters,
              PublishedStays, CompletedHasOutput, LiveRows
<1> QED BY <1>1, <1>2, <1>3, <1>4, <1>5 DEF Next

\* What the disk holds follows the tasks and the rows, in every behaviour.
THEOREM DiskInductive == Spec => []DiskInv
BY InitDisk, NextDisk, Inductive, PTL DEF Spec

\* Bug B: no sweep and no DELETE takes a staging temp from its writer, and none
\* survives its job or the next boot.
THEOREM TempsAreTheWriters == Spec => []TempsMatchWriters
BY DiskInductive, PTL DEF DiskInv

\* A completed row has its archive on disk through every crash, unless a DELETE
\* took it.
THEOREM ArchivesSurvive == Spec => []CompletedHasOutput
BY DiskInductive, PTL DEF DiskInv

-----------------------------------------------------------------------------
(* The history.                                                            *)

\* The rows and the ids that are known, and the writes that reorder them.
LEMMA OrderWriters ==
  ASSUME [Next]_vars
  PROVE  \/ UNCHANGED <<row, older, minted>>
         \/ \E c \in Clients : (SubmitInsert(c) /\ IndexAdmits(client[c].job)) \/ DeleteRow(c)
         \/ \E j \in Jobs : Persist(j)
         \/ Requeue \/ Project
<1>1. CASE Arrival
  BY <1>1 DEF Arrival, Submit, Delete, dbVars
<1>2. ASSUME NEW c \in Clients, SubmitStep(c) \/ DeleteStep(c)
      PROVE  \/ UNCHANGED <<row, older, minted>>
             \/ (SubmitInsert(c) /\ IndexAdmits(client[c].job)) \/ DeleteRow(c)
  BY <1>2 DEF SubmitStep, DeleteStep, SubmitFindLive, SubmitFindLatest, SubmitStat, SubmitInsert,
              SubmitReread, SubmitProject, DeleteLookup, DeleteUnlink, dbVars
<1>3. ASSUME NEW j \in Jobs, EngineStep(j) \/ ThreadStep(j)
      PROVE  UNCHANGED <<row, older, minted>> \/ Persist(j)
  BY <1>3 DEF EngineStep, ThreadStep, TaskBegin, Admit, PersistMissing, FetchManifest, FetchPages,
              FinishJob, FailJob, SetStatus, WriteTemp, ClearFolder, Publish, WriteFails, dbVars
<1>4. CASE Lifespan \/ Crash
  BY <1>4 DEF Lifespan, Stop, Close, Exit, Crash, ProcessEnds, Sweep, Resume, dbVars
<1>5. CASE UNCHANGED vars
  BY <1>5 DEF vars, dbVars
<1> QED BY <1>1, <1>2, <1>3, <1>4, <1>5 DEF Next

\* A write makes its row the newest and leaves the others in their order.
LEMMA TouchOrders ==
  ASSUME StrictOrder(older, Rows), NEW j
  PROVE  StrictOrder(Touch(older, j), Rows \cup {j})
<1> DEFINE O == Touch(older, j)
<1>1. \A a, b : <<a, b>> \in O <=>
        (<<a, b>> \in older /\ a # j /\ b # j) \/ (a \in Rows \ {j} /\ b = j)
  <2>1. O = {p \in older : p[1] # j /\ p[2] # j} \cup ((Rows \ {j}) \X {j})
    BY DEF Touch
  <2> QED BY <2>1 DEF StrictOrder
<1>2. O \subseteq (Rows \cup {j}) \X (Rows \cup {j})
  BY DEF Touch, StrictOrder
<1> HIDE DEF O
<1>3. \A a \in Rows \cup {j} : <<a, a>> \notin O
  BY <1>1 DEF StrictOrder
<1>4. \A a, b \in Rows \cup {j} : a # b => (<<a, b>> \in O <=> <<b, a>> \notin O)
  BY <1>1 DEF StrictOrder
<1>5. \A a, b, d \in Rows \cup {j} : <<a, b>> \in O /\ <<b, d>> \in O => <<a, d>> \in O
  BY <1>1 DEF StrictOrder
<1> QED BY <1>2, <1>3, <1>4, <1>5 DEF StrictOrder, O

\* The rows that are left keep their order.
LEMMA ForgetOrders ==
  ASSUME StrictOrder(older, Rows), NEW S
  PROVE  StrictOrder(Forget(older, S), Rows \ S)
<1> DEFINE O == Forget(older, S)
<1>1. \A a, b : <<a, b>> \in O <=> (<<a, b>> \in older /\ a \notin S /\ b \notin S)
  BY DEF Forget, StrictOrder
<1>2. O \subseteq (Rows \ S) \X (Rows \ S)
  BY DEF Forget, StrictOrder
<1> HIDE DEF O
<1>3. \A a \in Rows \ S : <<a, a>> \notin O
  BY <1>1 DEF StrictOrder
<1>4. \A a, b \in Rows \ S : a # b => (<<a, b>> \in O <=> <<b, a>> \notin O)
  BY <1>1 DEF StrictOrder
<1>5. \A a, b, d \in Rows \ S : <<a, b>> \in O /\ <<b, d>> \in O => <<a, d>> \in O
  BY <1>1 DEF StrictOrder
<1> QED BY <1>2, <1>3, <1>4, <1>5 DEF StrictOrder, O

\* The rows that rehydrate queues again become the newest, in their order.
LEMMA RequeueOrders ==
  ASSUME StrictOrder(older, Rows), NEW S \in SUBSET Rows
  PROVE  StrictOrder({p \in older : p[1] \in S => p[2] \in S} \cup ((Rows \ S) \X S), Rows)
<1> DEFINE O == {p \in older : p[1] \in S => p[2] \in S} \cup ((Rows \ S) \X S)
<1>1. \A a, b : <<a, b>> \in O <=>
        (<<a, b>> \in older /\ (a \in S => b \in S)) \/ (a \in Rows \ S /\ b \in S)
  BY DEF StrictOrder
<1>2. O \subseteq Rows \X Rows
  BY DEF StrictOrder
<1> HIDE DEF O
<1>3. \A a \in Rows : <<a, a>> \notin O
  BY <1>1 DEF StrictOrder
<1>4. \A a, b \in Rows : a # b => (<<a, b>> \in O <=> <<b, a>> \notin O)
  BY <1>1 DEF StrictOrder
<1>5. \A a, b, d \in Rows : <<a, b>> \in O /\ <<b, d>> \in O => <<a, d>> \in O
  BY <1>1 DEF StrictOrder
<1> QED BY <1>2, <1>3, <1>4, <1>5 DEF StrictOrder, O

LEMMA InitOrdered == Init => HistoryIsOrdered
BY FS_EmptySet DEF Init, HistoryIsOrdered, StrictOrder, Rows, NoRow

LEMMA NextOrdered ==
  ASSUME IndInv, HistoryIsOrdered, [Next]_vars
  PROVE  HistoryIsOrdered'
<1>0. /\ IsFiniteSet(minted) /\ StrictOrder(older, Rows)
      /\ row \in [Jobs -> Row] /\ mem \in [Jobs -> Record]
  BY DEF HistoryIsOrdered, IndInv, TypeOK
<1>1. SUFFICES IsFiniteSet(minted') /\ StrictOrder(older', Rows')
  BY DEF HistoryIsOrdered, StrictOrder
<1>2. CASE UNCHANGED <<row, older, minted>>
  BY <1>0, <1>2 DEF Rows
<1>3. ASSUME NEW c \in Clients, SubmitInsert(c), IndexAdmits(client[c].job)
      PROVE  IsFiniteSet(minted') /\ StrictOrder(older', Rows')
  <2>1. client[c].job \in Jobs
    BY <1>3, RequestAt DEF SubmitInsert, At, IndInv
  <2>2. /\ minted' = minted \cup {client[c].job} /\ older' = Touch(older, client[c].job)
        /\ Rows' = Rows \cup {client[c].job}
    BY <1>0, <1>3, <2>1 DEF SubmitInsert, Rows, FreshJob
  <2> QED BY <1>0, <2>2, TouchOrders, FS_AddElement
<1>4. ASSUME NEW c \in Clients, DeleteRow(c)
      PROVE  IsFiniteSet(minted') /\ StrictOrder(older', Rows')
  <2>1. client[c].job \in Jobs
    BY <1>4, RequestAt DEF DeleteRow, At, IndInv
  <2>2. /\ minted' = minted /\ older' = Forget(older, {client[c].job})
        /\ Rows' = Rows \ {client[c].job}
    BY <1>0, <1>4, <2>1 DEF DeleteRow, Rows, NoRow
  <2> QED BY <1>0, <2>2, ForgetOrders
<1>5. ASSUME NEW j \in Jobs, Persist(j)
      PROVE  IsFiniteSet(minted') /\ StrictOrder(older', Rows')
  <2>1. mem[j].status # "absent"
    BY <1>0 DEF Record, LiveStatus, TerminalStatus
  <2>2. minted' = minted /\ older' = Touch(older, j) /\ Rows' = Rows \cup {j}
    BY <1>0, <1>5, <2>1 DEF Persist, Rows
  <2> QED BY <1>0, <2>2, TouchOrders
<1>6. CASE Requeue
  <2>1. LiveRows \subseteq Rows
    BY DEF LiveRows, Rows, LiveStatus
  <2>2. /\ minted' = minted
        /\ older' = {p \in older : p[1] \in LiveRows => p[2] \in LiveRows}
                      \cup ((Rows \ LiveRows) \X LiveRows)
    BY <1>6 DEF Requeue, Interrupted
  <2>3. Rows' = Rows
    BY <1>0, <1>6, <2>1 DEF Requeue, Interrupted, Rows, FreshJob
  <2> QED BY <1>0, <2>1, <2>2, <2>3, RequeueOrders
<1>7. CASE Project
  <2>1. minted' = minted /\ older' = Forget(older, Surplus) /\ Rows' = Rows \ Surplus
    BY <1>0, <1>7 DEF Project, Rows, NoRow
  <2> QED BY <1>0, <2>1, ForgetOrders
<1> QED BY <1>2, <1>3, <1>4, <1>5, <1>6, <1>7, OrderWriters

\* updated_at orders the rows, which are finitely many, strictly and totally.
THEOREM HistoryInductive == Spec => []HistoryIsOrdered
BY InitOrdered, NextOrdered, Inductive, PTL DEF Spec

\* prune_terminal takes the oldest: what it takes has a newer row, and what it
\* leaves is newer.
LEMMA PruneTakesTheOldest ==
  ASSUME IndInv, HistoryIsOrdered, NEW j \in Surplus
  PROVE  /\ \E i \in TerminalRows : <<j, i>> \in older
         /\ \A i \in TerminalRows \ Surplus : <<j, i>> \in older
<1> DEFINE Newer(k) == {i \in TerminalRows : <<k, i>> \in older}
<1>1. TerminalRows \subseteq Rows /\ Rows \subseteq minted /\ j \in TerminalRows
  BY DEF TerminalRows, Rows, TerminalStatus, Surplus, IndInv, UnmintedUntouched, NoRow
<1>2. \A k : IsFiniteSet(Newer(k)) /\ Cardinality(Newer(k)) \in Nat
  <2>1. \A k : Newer(k) \subseteq minted
    BY <1>1
  <2> HIDE DEF Newer
  <2> QED BY <2>1, FS_Subset, FS_CardinalityType DEF HistoryIsOrdered
<1>3. Cardinality(Newer(j)) >= KeepHistory /\ KeepHistory \in Nat /\ KeepHistory # 0
  BY JobsAssumption DEF Surplus
<1>4. Newer(j) # {}
  <2> HIDE DEF Newer
  <2> QED BY <1>2, <1>3, FS_EmptySet
<1>5. ASSUME NEW i \in TerminalRows \ Surplus PROVE <<j, i>> \in older
  <2> SUFFICES ASSUME <<j, i>> \notin older PROVE FALSE
    OBVIOUS
  <2>1. <<i, j>> \in older /\ i \in Rows /\ j \in Rows
    BY <1>1, <1>5 DEF HistoryIsOrdered, StrictOrder
  <2>2. Newer(j) \subseteq Newer(i)
    BY <1>1, <2>1 DEF HistoryIsOrdered, StrictOrder
  <2>3. Cardinality(Newer(j)) <= Cardinality(Newer(i))
    <3> HIDE DEF Newer
    <3> QED BY <1>2, <2>2, FS_Subset
  <2>4. Cardinality(Newer(i)) >= KeepHistory
    <3> HIDE DEF Newer
    <3> QED BY <1>2, <1>3, <2>3
  <2> QED BY <1>5, <2>4 DEF Surplus
<1> QED BY <1>4, <1>5

\* IN-05: only a DELETE or the pruning takes a terminal row, and the pruning
\* takes the oldest ones.
THEOREM HistoryKeepsNewest == Spec => NewestSurvives
<1> DEFINE Keeps ==
      \A j \in TerminalRows : j \notin Rows' /\ ~Deleting(j) =>
        /\ \E i \in TerminalRows : <<j, i>> \in older
        /\ \A i \in TerminalRows : i \in Rows' => <<j, i>> \in older
<1>1. IndInv /\ HistoryIsOrdered /\ [Next]_vars => Keeps
  <2> SUFFICES ASSUME IndInv, HistoryIsOrdered, [Next]_vars, NEW j \in TerminalRows,
                      j \notin Rows', ~Deleting(j)
               PROVE  /\ \E i \in TerminalRows : <<j, i>> \in older
                      /\ \A i \in TerminalRows : i \in Rows' => <<j, i>> \in older
    OBVIOUS
  <2>0. /\ row \in [Jobs -> Row] /\ mem \in [Jobs -> Record] /\ j \in Jobs
        /\ row[j].status \in TerminalStatus /\ row'[j].status = "absent"
    BY DEF IndInv, TypeOK, Rows, TerminalRows
  <2>1. CASE UNCHANGED <<row, older, minted>>
    BY <2>0, <2>1 DEF TerminalStatus
  <2>2. ASSUME NEW c \in Clients, SubmitInsert(c), IndexAdmits(client[c].job) PROVE FALSE
    BY <2>0, <2>2 DEF SubmitInsert, FreshJob, TerminalStatus
  <2>3. ASSUME NEW c \in Clients, DeleteRow(c) PROVE FALSE
    BY <2>0, <2>3 DEF DeleteRow, At, Deleting, TerminalStatus
  <2>4. ASSUME NEW i \in Jobs, Persist(i) PROVE FALSE
    BY <2>0, <2>4 DEF Persist, Record, LiveStatus, TerminalStatus
  <2>5. CASE Requeue
    BY <2>0, <2>5 DEF Requeue, FreshJob, TerminalStatus
  <2>6. CASE Project
    <3>1. row' = [k \in Jobs |-> IF k \in Surplus THEN NoRow ELSE row[k]]
      BY <2>6 DEF Project
    <3>2. j \in Surplus /\ \A i \in TerminalRows : i \in Rows' => i \notin Surplus
      BY <2>0, <3>1 DEF TerminalRows, TerminalStatus, Rows, NoRow
    <3> QED BY <3>2, PruneTakesTheOldest
  <2> QED BY <2>1, <2>2, <2>3, <2>4, <2>5, <2>6, OrderWriters
<1>2. UNCHANGED vars => Keeps
  BY DEF vars, dbVars, Rows, TerminalRows, TerminalStatus
<1> QED BY <1>1, <1>2, Inductive, HistoryInductive, PTL DEF Spec, NewestSurvives
=============================================================================
