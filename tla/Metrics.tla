------------------------------ MODULE Metrics ------------------------------
(* The metrics of the gateway (src/manga_gateway/metrics, and their part of *)
(* the lifespan in app.py): requests take ids and emit events, which are    *)
(* counted in memory and queued for the disk ring; two loops and the        *)
(* shutdown write counters and ring through one connection with one lock;   *)
(* the process stops or dies and boots again from what was committed.       *)
(*                                                                          *)
(* A ring row is [id, req]: the id an event carries and the request it is   *)
(* of.  The series of the counters, which nothing here tells apart, are one *)
(* count.  The age bound of the prune is a choice.                          *)
EXTENDS Integers, Sequences, SequencesExt, FiniteSetsExt

CONSTANTS Requests, MaxEvents, MaxRows, MaxBoots

ASSUME MetricsAssumption == MaxEvents \in Nat /\ MaxRows \in Nat \ {0} /\ MaxBoots \in Nat

VARIABLES
  phase,     \* of the process: "up", "stop" (loops cancelled), "final", "down"
  stage,     \* of each request: "new", "open", "done", "over"
  id,        \* the request id of each
  next,      \* _request_ids
  mem,       \* InMemoryStore: the events counted
  queue,     \* MetricSnapshotStore._queue
  task,      \* of each writer: where it is, and the rows it took to write
  writeLock, \* _write_lock
  txn,       \* what the connection sees: the counters (NoRolls if deleted), the ring
  committed, \* what is on the disk
  saved,     \* history: the counters of the last snapshot that was committed
  torn,      \* history: another commit took a snapshot along that had stopped half way
  emitted, boots

metricsVars ==
  <<phase, stage, id, next, mem, queue, task, writeLock, txn, committed, saved, torn, emitted, boots>>

Writers == {"snapshots", "flushes", "final"}
NoRolls == -1
Ended   == [pc |-> "off", batch |-> <<>>, rolls |-> NoRolls]
Begun(w) == [Ended EXCEPT !.pc = IF w = "flushes" THEN "flush" ELSE "snapshot"]

Loops == [w \in Writers |-> IF w = "final" THEN Ended ELSE Begun(w)]
MetricsInit ==
  /\ phase = "up" /\ stage = [r \in Requests |-> "new"] /\ id = [r \in Requests |-> 0]
  /\ next = 1 /\ mem = 0 /\ queue = <<>> /\ task = Loops /\ writeLock = "none"
  /\ txn = [rolls |-> 0, ring |-> <<>>] /\ committed = [rolls |-> 0, ring |-> <<>>]
  /\ saved = 0 /\ torn = FALSE /\ emitted = 0 /\ boots = 0

----------------------------------------------------------------------------
(* Requests and their events.                                               *)

(* MetricsRequestMiddleware: the id is taken before the handler runs. *)
Open(r) ==
  /\ phase = "up" /\ stage[r] = "new"
  /\ stage' = [stage EXCEPT ![r] = "open"]
  /\ id' = [id EXCEPT ![r] = next] /\ next' = next + 1
  /\ UNCHANGED <<phase, mem, queue, task, writeLock, txn, committed, saved, torn, emitted, boots>>

(* classify counts the event, enqueue keeps it for the next flush. *)
Ingest(r) ==
  /\ emitted < MaxEvents /\ emitted' = emitted + 1
  /\ mem' = mem + 1
  /\ queue' = Append(queue, [id |-> id[r], req |-> r])
  /\ UNCHANGED <<phase, id, next, task, writeLock, txn, committed, saved, torn, boots>>

(* An outbound call, solve, page or job event of the request: a job that it *)
(* spawned goes on emitting under its id, also while the jobs are drained.  *)
Emit(r) == phase \in {"up", "stop"} /\ stage[r] \notin {"new", "over"} /\ Ingest(r) /\ UNCHANGED stage

(* The request ends; its own event is left out for the excluded endpoints.  *)
Answers(r) ==
  /\ phase = "up" /\ stage[r] = "open"
  /\ stage' = [stage EXCEPT ![r] = "done"]
  /\ \/ Ingest(r)
     \/ UNCHANGED <<phase, id, next, mem, queue, task, writeLock, txn, committed, saved, torn, emitted, boots>>

----------------------------------------------------------------------------
(* The writers.  A write takes the lock, executes its statements in one     *)
(* transaction of the connection, commits, and releases the lock.           *)

Step(w, pc) == task' = [task EXCEPT ![w].pc = pc]
Outside == <<phase, stage, id, next, mem, emitted, boots>>
(* snapshot loop: snapshot, flush, prune; flush loop: flush; at the end of  *)
(* the lifespan: flush, snapshot, close.                                    *)
After(w, pc) ==
  CASE w = "snapshots" -> IF pc = "snapshot" THEN "flush" ELSE IF pc = "flush" THEN "prune" ELSE "snapshot"
    [] w = "flushes"   -> "flush"
    [] OTHER           -> IF pc = "flush" THEN "snapshot" ELSE "close"
Holds(w) == writeLock = w
Takes(w) == writeLock = "none" /\ writeLock' = w
Commits == committed' = txn' /\ torn' = (torn \/ txn.rolls # committed.rolls)

(* The counters are read from memory, then the lock is asked for; DELETE    *)
(* and INSERT wait on the thread of the connection.                         *)
Snapshot(w) ==
  /\ task[w].pc = "snapshot"
  /\ task' = [task EXCEPT ![w].pc = "delete", ![w].rolls = mem]
  /\ UNCHANGED <<Outside, queue, writeLock, txn, committed, saved, torn>>
BugDeleted == committed' = [committed EXCEPT !.rolls = NoRolls]
(* The DELETE opens the transaction and commits nothing. *)
Deleted == UNCHANGED committed
DeleteRolls(w) ==
  /\ task[w].pc = "delete" /\ Takes(w) /\ Step(w, "insert")
  /\ txn' = [txn EXCEPT !.rolls = NoRolls] /\ Deleted
  /\ UNCHANGED <<Outside, queue, saved, torn>>
InsertRolls(w) ==
  /\ task[w].pc = "insert" /\ Step(w, "inserted")
  /\ txn' = [txn EXCEPT !.rolls = task[w].rolls]
  /\ UNCHANGED <<Outside, queue, writeLock, committed, saved, torn>>
Saves == committed' = txn /\ saved' = txn.rolls /\ torn' = FALSE /\ UNCHANGED txn
CommitRolls(w) ==
  /\ task[w].pc = "inserted"
  /\ task' = [task EXCEPT ![w].pc = After(w, "snapshot"), ![w].rolls = NoRolls]
  /\ Saves /\ writeLock' = "none"
  /\ UNCHANGED <<Outside, queue>>

(* The queue is swapped out first; an empty one ends the flush. *)
Flush(w) ==
  /\ task[w].pc = "flush" /\ queue' = <<>>
  /\ task' = [task EXCEPT ![w].pc = IF queue = <<>> THEN After(w, "flush") ELSE "append", ![w].batch = queue]
  /\ queue # <<>> \/ w # "flushes"
  /\ UNCHANGED <<Outside, writeLock, txn, committed, saved, torn>>
AppendRows(w) ==
  /\ task[w].pc = "append" /\ Takes(w) /\ Step(w, "appended")
  /\ txn' = [txn EXCEPT !.ring = @ \o task[w].batch]
  /\ UNCHANGED <<Outside, queue, committed, saved, torn>>

(* Rows beyond MaxRows, and old ones. *)
Newest(rows, n) == SubSeq(rows, Len(rows) - n + 1, Len(rows))
PruneRing(w) ==
  /\ task[w].pc = "prune" /\ Takes(w) /\ Step(w, "pruned")
  /\ \E n \in 0..Min({MaxRows, Len(txn.ring)}) : txn' = [txn EXCEPT !.ring = Newest(@, n)]
  /\ UNCHANGED <<Outside, queue, committed, saved, torn>>

(* The commit of a flush or of a prune. *)
Written(w) ==
  CASE task[w].pc = "appended" -> "flush" [] task[w].pc = "pruned" -> "prune" [] OTHER -> "snapshot"
CommitRows(w) ==
  /\ task[w].pc \in {"appended", "pruned"} /\ Holds(w)
  /\ task' = [task EXCEPT ![w].pc = After(w, Written(w)), ![w].batch = <<>>]
  /\ UNCHANGED txn /\ Commits /\ writeLock' = "none"
  /\ UNCHANGED <<Outside, queue, saved>>

(* A statement fails, and nothing rolls back what the transaction holds;    *)
(* the exception is suppressed and the batch of a flush is lost.            *)
WriteFails(w) ==
  /\ Holds(w) /\ writeLock' = "none"
  /\ task' = [task EXCEPT ![w] = [Ended EXCEPT !.pc = After(w, Written(w))]]
  /\ UNCHANGED <<Outside, queue, txn, committed, saved, torn>>

Write(w) ==
  \/ Snapshot(w) \/ DeleteRolls(w) \/ InsertRolls(w) \/ CommitRolls(w)
  \/ Flush(w) \/ AppendRows(w) \/ CommitRows(w) \/ PruneRing(w) \/ WriteFails(w)

----------------------------------------------------------------------------
(* The lifespan.                                                            *)

(* The loops are cancelled wherever they are; a statement, or a commit, that*)
(* was handed to the thread of the connection still runs.                   *)
Stop ==
  /\ phase = "up" /\ phase' = "stop"
  /\ task' = [w \in Writers |-> Ended] /\ writeLock' = "none"
  /\ \/ UNCHANGED <<txn, committed, saved, torn>>
     \/ \E w \in Writers :
          \/ /\ task[w].pc = "insert" /\ txn' = [txn EXCEPT !.rolls = task[w].rolls]
             /\ UNCHANGED <<committed, saved, torn>>
          \/ task[w].pc = "inserted" /\ Saves
          \/ task[w].pc \in {"appended", "pruned"} /\ UNCHANGED <<txn, saved>> /\ Commits
  /\ UNCHANGED <<stage, id, next, mem, queue, emitted, boots>>

(* set_collector(None), once the jobs are drained; then the last writes. *)
Final ==
  /\ phase = "stop" /\ phase' = "final"
  /\ task' = [task EXCEPT !["final"].pc = "flush"]
  /\ UNCHANGED <<stage, id, next, mem, queue, writeLock, txn, committed, saved, torn, emitted, boots>>

(* close() rolls the open transaction back, as does the death of the process. *)
Down ==
  /\ phase # "down" /\ boots < MaxBoots
  /\ phase' = "down" /\ txn' = committed /\ queue' = <<>>
  /\ task' = [w \in Writers |-> Ended] /\ writeLock' = "none"
  /\ stage' = [r \in Requests |-> IF stage[r] = "new" THEN "new" ELSE "over"]
  /\ UNCHANGED <<id, next, mem, committed, saved, torn, emitted, boots>>

BugSeedStart(ids) == Max({0} \cup ids)
(* MAX(request_id) + 1 of the ring *)
SeedStart(ids) == Max({0} \cup ids) + 1
(* rehydrate, then seed_request_ids, then the collector and the loops *)
Rehydrate ==
  /\ phase = "down" /\ phase' = "up" /\ boots' = boots + 1
  /\ mem' = Max({0, committed.rolls})
  /\ next' = SeedStart({e.id : e \in ToSet(committed.ring)})
  /\ task' = Loops
  /\ UNCHANGED <<stage, id, queue, writeLock, txn, committed, saved, torn, emitted>>

MetricsNext ==
  \/ \E r \in Requests : Open(r) \/ Emit(r) \/ Answers(r)
  \/ \E w \in Writers : Write(w)
  \/ Stop \/ Final \/ Down \/ Rehydrate

MetricsSpec == MetricsInit /\ [][MetricsNext]_metricsVars

----------------------------------------------------------------------------
(* The breakdown of one request, as the route serves it. *)
Breakdown(n) == {e \in ToSet(txn.ring) : e.id = n}

(* "Restart-monotonic" ids (seed_request_ids): whatever was lost, pruned or *)
(* still queued when the process went down, the events served under one id  *)
(* are of one request.                                                      *)
NamesOneRequest == \A n \in 1..next : \A e, f \in Breakdown(n) : e.req = f.req

(* "Worst-case loss on a hard crash is one snapshot interval" (snapshot.py):*)
(* a boot finds at least the counters of the last committed snapshot, unless*)
(* a snapshot stopped half way and a later commit took its DELETE along.    *)
SnapshotKept ==
  [][phase = "down" /\ phase' = "up" => torn \/ mem' = saved]_metricsVars

(* What a restart owes to the counters and to the breakdowns. *)
MetricsSurvive == [][NamesOneRequest']_metricsVars /\ SnapshotKept
=============================================================================
