---------------------------- MODULE JobScheduler ----------------------------
(***************************************************************************)
(* Admission of spawned jobs: JobManager._spawn and _run_guarded take a    *)
(* permit of the job's source, then a global one, and run the engine while *)
(* they hold both (jobs/manager.py, D-30, #267).                           *)
(*                                                                         *)
(* asyncio is external: its Semaphore is modelled by what CPython 3.12     *)
(* does, with the permit handed over when a waiter is woken, one hop of    *)
(* the event loop before the waiter runs; `ready` is the loop's FIFO queue *)
(* of callbacks, as far as these tasks are in it.  Tasks are cancelled     *)
(* only by the shutdown, after which nobody waits, so that is left out.    *)
(***************************************************************************)
EXTENDS Integers, FiniteSets, Sequences

CONSTANTS
  Tasks,                  \* the tasks of the jobs, one each
  Sources,
  SourceOf,               \* source_key of the job of each task
  MaxConcurrentChapters,  \* settings.max_concurrent_chapters
  MaxConcurrentPerSource, \* settings.max_concurrent_per_source
  Override,               \* Source.max_concurrent_jobs
  NoOverride,             \* its default, None
  Global                  \* names the global semaphore

SchedulerAssumption ==
  /\ SourceOf \in [Tasks -> Sources]
  /\ MaxConcurrentChapters \in Nat \ {0}
  /\ MaxConcurrentPerSource \in Nat \ {0}
  /\ NoOverride \notin Int
  /\ Override \in [Sources -> Int \cup {NoOverride}]
  /\ Global \notin Sources

ASSUME AdmissionAssumption == SchedulerAssumption

VARIABLES
  at,       \* where the task of each job is
  value,    \* Semaphore._value
  waiters,  \* Semaphore._waiters that are not woken yet, first come first
  ready,    \* the tasks the event loop will resume, first come first
  begun     \* the order in which tasks asked for their first permit

schedulerVars == <<at, value, waiters, ready, begun>>

-----------------------------------------------------------------------------
Sems == Sources \cup {Global}

\* _per_source_bound: the override or the default, clamped to 1..global.
PerSourceBound(s) ==
  LET bound == IF Override[s] = NoOverride THEN MaxConcurrentPerSource ELSE Override[s]
      least == IF bound < MaxConcurrentChapters THEN bound ELSE MaxConcurrentChapters
  IN IF least > 1 THEN least ELSE 1

Bound(x) == IF x = Global THEN MaxConcurrentChapters ELSE PerSourceBound(x)

\* async with source_sem, global_sem: the order of the two acquires.
BugOrder(j) == <<Global, SourceOf[j]>>  \* the order before #267
Order(j)  == <<SourceOf[j], Global>>
First(j)  == Order(j)[1]
Second(j) == Order(j)[2]

Points == {"new", "spawned", "wait_first", "woken_first", "wait_second",
           "woken_second", "running", "done"}

Woken(x) == {j \in Tasks : \/ at[j] = "woken_first" /\ First(j) = x
                           \/ at[j] = "woken_second" /\ Second(j) = x}

\* Who holds a permit of x: woken with it, or past the acquire of it.
PastFirst == {"woken_first", "wait_second", "woken_second", "running"}
Holders(x) == {j \in Tasks : \/ at[j] \in PastFirst /\ First(j) = x
                             \/ at[j] \in {"woken_second", "running"} /\ Second(j) = x}
Running == {j \in Tasks : at[j] = "running"}

\* Semaphore.locked: no permit left, or somebody is still in the queue.
BugLocked(x) == value[x] = 0  \* who comes late takes a freed permit
Locked(x) == value[x] = 0 \/ waiters[x] # <<>> \/ Woken(x) # {}

SchedulerInit ==
  /\ at = [j \in Tasks |-> "new"]
  /\ value = [x \in Sems |-> Bound(x)]
  /\ waiters = [x \in Sems |-> <<>>]
  /\ ready = <<>>
  /\ begun = <<>>

\* _spawn: create_task puts the task at the end of the ready queue.
Spawn(j) ==
  /\ at[j] = "new"
  /\ at' = [at EXCEPT ![j] = "spawned"]
  /\ ready' = Append(ready, j)
  /\ UNCHANGED <<value, waiters, begun>>

Resumes(j, point) == ready # <<>> /\ Head(ready) = j /\ at[j] = point

\* _run_guarded finds its job gone from the projection (DELETE).
Drop(j) ==
  /\ Resumes(j, "spawned")
  /\ at' = [at EXCEPT ![j] = "done"]
  /\ ready' = Tail(ready)
  /\ UNCHANGED <<value, waiters, begun>>

Wait(j, x, point) ==
  /\ at' = [at EXCEPT ![j] = point]
  /\ waiters' = [waiters EXCEPT ![x] = Append(@, j)]

\* The first permit is not free.
QueueFirst(j) ==
  /\ Resumes(j, "spawned")
  /\ Locked(First(j))
  /\ Wait(j, First(j), "wait_first")
  /\ ready' = Tail(ready)
  /\ begun' = Append(begun, j)
  /\ UNCHANGED value

BugQueueSecond(j) ==  \* waits for the global permit without taking the first
  /\ Resumes(j, "spawned")
  /\ ~Locked(First(j))
  /\ Locked(Second(j))
  /\ Wait(j, Second(j), "wait_second")
  /\ ready' = Tail(ready)
  /\ begun' = Append(begun, j)
  /\ UNCHANGED value

\* The first permit is free and the second one is not.
QueueSecond(j) ==
  /\ Resumes(j, "spawned")
  /\ ~Locked(First(j))
  /\ Locked(Second(j))
  /\ Wait(j, Second(j), "wait_second")
  /\ value' = [value EXCEPT ![First(j)] = @ - 1]
  /\ ready' = Tail(ready)
  /\ begun' = Append(begun, j)

\* Both permits are free: the engine runs without a pause.
RunAtOnce(j) ==
  /\ Resumes(j, "spawned")
  /\ ~Locked(First(j)) /\ ~Locked(Second(j))
  /\ at' = [at EXCEPT ![j] = "running"]
  /\ value' = [x \in Sems |-> IF x \in {First(j), Second(j)} THEN value[x] - 1 ELSE value[x]]
  /\ ready' = Tail(ready)
  /\ begun' = Append(begun, j)
  /\ UNCHANGED waiters

\* What wake_up_next does to the first n waiters of x: they get their permit.
WokenPoint == [wait_first |-> "woken_first", wait_second |-> "woken_second"]
FirstWaiters(x, n) == SubSeq(waiters[x], 1, n)
IsFirstWaiter(i, x, n) == \E k \in 1..n : waiters[x][k] = i
WithoutFirst(x, n) == SubSeq(waiters[x], n + 1, Len(waiters[x]))

\* The end of acquire() for a woken task: while permits are left, wake the next.
Least(m, n) == IF m < n THEN m ELSE n
BugSpare(x) == 0  \* wakes nobody: a lost wakeup
Spare(x) == Least(value[x], Len(waiters[x]))

\* A task woken with its first permit asks for the second.
WakeFirst(j) ==
  /\ Resumes(j, "woken_first")
  /\ LET x == First(j)
         n == Spare(x)
         blocked == Locked(Second(j))
     IN /\ at' = [i \in Tasks |->
               IF i = j THEN IF blocked THEN "wait_second" ELSE "running"
               ELSE IF IsFirstWaiter(i, x, n) THEN WokenPoint[at[i]] ELSE at[i]]
        /\ value' = [y \in Sems |->
               IF y = x THEN value[y] - n
               ELSE IF y = Second(j) /\ ~blocked THEN value[y] - 1 ELSE value[y]]
        /\ waiters' = [y \in Sems |->
               IF y = x THEN WithoutFirst(y, n)
               ELSE IF y = Second(j) /\ blocked THEN Append(waiters[y], j)
               ELSE waiters[y]]
        /\ ready' = Tail(ready) \o FirstWaiters(x, n)
  /\ UNCHANGED begun

\* A task woken with its second permit runs the engine.
WakeSecond(j) ==
  /\ Resumes(j, "woken_second")
  /\ LET x == Second(j)
         n == Spare(x)
     IN /\ at' = [i \in Tasks |->
               IF i = j THEN "running"
               ELSE IF IsFirstWaiter(i, x, n) THEN WokenPoint[at[i]] ELSE at[i]]
        /\ value' = [value EXCEPT ![x] = @ - n]
        /\ waiters' = [waiters EXCEPT ![x] = WithoutFirst(x, n)]
        /\ ready' = Tail(ready) \o FirstWaiters(x, n)
  /\ UNCHANGED begun

\* The engine is through, whatever its outcome: both permits are released, each
\* to the first waiter if there is one.
BugRelieved(x) == 0  \* release wakes nobody
Relieved(x) == Least(1, Len(waiters[x]))

Finish(j) ==
  /\ at[j] = "running"
  /\ LET held == {First(j), Second(j)} IN
       /\ at' = [i \in Tasks |->
              IF i = j THEN "done"
              ELSE IF \E x \in held : IsFirstWaiter(i, x, Relieved(x))
                THEN WokenPoint[at[i]] ELSE at[i]]
       /\ value' = [x \in Sems |-> IF x \in held THEN value[x] + 1 - Relieved(x) ELSE value[x]]
       /\ waiters' = [x \in Sems |->
              IF x \in held THEN WithoutFirst(x, Relieved(x)) ELSE waiters[x]]
       /\ ready' = ready \o FirstWaiters(Second(j), Relieved(Second(j)))
                         \o FirstWaiters(First(j), Relieved(First(j)))
  /\ UNCHANGED begun

Turn(j) ==
  \/ Drop(j) \/ QueueFirst(j) \/ QueueSecond(j) \/ RunAtOnce(j)
  \/ WakeFirst(j) \/ WakeSecond(j)

SchedulerNext == \E j \in Tasks : Spawn(j) \/ Turn(j) \/ Finish(j)

SchedulerSpec == SchedulerInit /\ [][SchedulerNext]_schedulerVars

\* The loop resumes what is ready, and every engine run ends: each of its awaits
\* has a timeout or is bounded by one.  Nothing obliges clients to submit.
SchedulerFairness == \A j \in Tasks : WF_schedulerVars(Turn(j)) /\ WF_schedulerVars(Finish(j))
FairSchedulerSpec == SchedulerSpec /\ SchedulerFairness

-----------------------------------------------------------------------------
SchedulerTypeOK ==
  /\ at \in [Tasks -> Points]
  /\ value \in [Sems -> Nat]
  /\ waiters \in [Sems -> Seq(Tasks)]
  /\ ready \in Seq(Tasks)
  /\ begun \in Seq(Tasks)

\* D-30: no permit leaks and none is invented (what is not free has one holder
\* each), so no more engines run than the bounds allow, in all or of one source.
PermitsConserved ==
  \A x \in Sems : value[x] + Cardinality(Holders(x)) = Bound(x)

\* #267: no job sits on a global permit while it waits for its source, so a
\* capped source cannot starve the others (head-of-line blocking).
NoSquatting ==
  value[Global] + Cardinality({j \in Tasks : at[j] \in {"woken_second", "running"}})
    = MaxConcurrentChapters

\* No wakeup is lost: when the loop is idle, a job waits only for a permit that
\* is really out, whatever finished while others were being woken.
WorkConserving == ready = <<>> => \A x \in Sems : waiters[x] # <<>> => value[x] = 0

\* Jobs of one source start in the order in which they asked (FIFO): no job has
\* begun to run while an earlier one of its source still waits.
Passed(j) == at[j] \in {"running", "done"}
StartInOrder ==
  \A m, n \in DOMAIN begun :
    m < n /\ SourceOf[begun[m]] = SourceOf[begun[n]] /\ Passed(begun[n]) => Passed(begun[m])

\* The bounds hold and the permits that they leave are used, in order: what the
\* docstring of _run_guarded and the comments on D-30 and #267 promise together.
AdmissionIsSound ==
  SchedulerTypeOK /\ PermitsConserved /\ NoSquatting /\ WorkConserving /\ StartInOrder

\* Every job that is spawned gets its turn, however long the backlog of its own
\* source or of another one.
EveryJobRuns == <>[](\A j \in Tasks : at[j] \in {"new", "done"})
=============================================================================
