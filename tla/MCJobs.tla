------------------------------- MODULE MCJobs -------------------------------
(* The life of the jobs under fairness, for TLC: the download surface, the  *)
(* admission of its tasks, and the fetch of the pages of one of them, side  *)
(* by side.  The three are independent given what each takes the others to  *)
(* do, so a behaviour is one of a single part, chosen at the start; the     *)
(* other parts stay in their initial state.                                 *)
EXTENDS MCDownloads, JobScheduler, PageFetch

CONSTANTS
  t1, t2, t3, t4, t5, slow, wide    \* tasks and sources of the scheduler

VARIABLE part

everything == <<part, vars, schedulerVars, fetchVars>>

(* A source with the default bound of one, and one that raises it beyond    *)
(* the global bound.                                                        *)
MCSourceOf == [t \in Tasks |-> IF t \in {t1, t2} THEN slow ELSE wide]
MCOverride == [s \in {slow, wide} |-> IF s = wide THEN 3 ELSE NoOverride]

MCPageSize == [p \in 1..MaxPages |-> p + 1]

MCInit == part \in {"downloads", "admission", "fetch"} /\ Init /\ SchedulerInit /\ FetchInit

MCNext ==
  \/ part = "downloads" /\ Next /\ UNCHANGED <<part, schedulerVars, fetchVars>>
  \/ part = "admission" /\ SchedulerNext /\ UNCHANGED <<part, vars, fetchVars>>
  \/ part = "fetch" /\ FetchNext /\ UNCHANGED <<part, vars, schedulerVars>>

(* The fairness of each part, as its own module states it. *)
MCFairness ==
  /\ \A c \in Clients : WF_vars(part = "downloads" /\ SubmitStep(c))
                        /\ WF_vars(part = "downloads" /\ DeleteStep(c))
  /\ \A j \in Jobs : WF_vars(part = "downloads" /\ EngineStep(j))
                     /\ WF_vars(part = "downloads" /\ ThreadStep(j))
  /\ WF_vars(part = "downloads" /\ (Close \/ Exit \/ Requeue \/ Project \/ Sweep \/ Resume))
  /\ \A t \in Tasks : WF_schedulerVars(part = "admission" /\ Turn(t))
                      /\ WF_schedulerVars(part = "admission" /\ Finish(t))
  /\ WF_fetchVars(part = "fetch" /\ GroupStep)
  /\ \A p \in 1..MaxPages : WF_fetchVars(part = "fetch" /\ PageStep(p))

MCSpec == MCInit /\ [][MCNext]_everything /\ MCFairness

(* Every fetch ends, in the behaviours that are one. *)
FetchEnds == part = "fetch" => PassesEnd
=============================================================================
