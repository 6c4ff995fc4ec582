--------------------------- MODULE JobLifecycle ---------------------------
(***************************************************************************)
(* What the download surface promises about the durable life of a job,     *)
(* whatever requests, crashes and restarts do: one live job per release    *)
(* handle, a status that only moves forward except for the requeue of a    *)
(* restart, a terminal status that is final, an id that never comes back   *)
(* once its row is gone.  Downloads implements it (jobs/model.py and       *)
(* jobs/store.py name the statuses and the two structural guarantees).     *)
(***************************************************************************)


CONSTANTS Jobs, HandleOf

VARIABLE status   \* the status column of each job, or where its row is not

Live     == {"queued", "resolving", "downloading", "archiving"}
Terminal == {"completed", "failed"}

LiveJobs     == {j \in Jobs : status[j] \in Live}
TerminalJobs == {j \in Jobs : status[j] \in Terminal}

NextStatus == [queued |-> "resolving", resolving |-> "downloading",
               downloading |-> "archiving", archiving |-> "completed"]

Init == status = [j \in Jobs |-> "unborn"]

\* D-27: a handle has one live job at most.
Create(j) ==
  /\ status[j] = "unborn"
  /\ \A i \in LiveJobs : HandleOf[i] # HandleOf[j]
  /\ status' = [status EXCEPT ![j] = "queued"]

Advance(j) ==
  /\ status[j] \in Live
  /\ status' = [status EXCEPT ![j] = NextStatus[status[j]]]

Fail(j) ==
  /\ status[j] \in Live
  /\ status' = [status EXCEPT ![j] = "failed"]

Delete(j) ==
  /\ status[j] \in Live \cup Terminal
  /\ status' = [status EXCEPT ![j] = "gone"]

\* PLAT-03: a restart queues every live job again, and no other.
Requeue == status' = [j \in Jobs |-> IF j \in LiveJobs THEN "queued" ELSE status[j]]

\* IN-05: a restart may drop history, and nothing else.
Prune ==
  \E S \in SUBSET TerminalJobs :
    status' = [j \in Jobs |-> IF j \in S THEN "gone" ELSE status[j]]

Next ==
  \/ \E j \in Jobs : Create(j) \/ Advance(j) \/ Fail(j) \/ Delete(j)
  \/ Requeue
  \/ Prune

Spec == Init /\ [][Next]_status
=============================================================================
