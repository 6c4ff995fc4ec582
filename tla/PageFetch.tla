----------------------------- MODULE PageFetch -----------------------------
(***************************************************************************)
(* How the engine fetches the pages of one job, all or nothing:            *)
(* JobEngine._run_inner from the manifest on, _fetch_all_pages and         *)
(* _fetch_pages_once (jobs/engine.py), with the progress counters that     *)
(* JobManager._estimate_bytes_and_eta projects (jobs/manager.py).          *)
(*                                                                         *)
(* One task per page runs in a TaskGroup under a semaphore of the job.  A  *)
(* page that raises makes the group cancel its siblings; each of them may  *)
(* still take the step it was ready for before the cancellation reaches    *)
(* it, and the group ends when all of them have.                           *)
(***************************************************************************)
EXTENDS Naturals, FiniteSets

CONSTANTS
  MaxPages,             \* bound on the length of a manifest
  PageSize,             \* len(content) of each page
  Concurrency,          \* settings.image_fetch_concurrency
  Attempts,             \* settings.image_fetch_validate_attempts
  ReresolveOn403        \* Source.reresolve_manifest_on_403

ASSUME PageFetchAssumption ==
  /\ MaxPages \in Nat \ {0}
  /\ PageSize \in [1..MaxPages -> Nat \ {0}]
  /\ Concurrency \in Nat \ {0}
  /\ Attempts \in Nat \ {0}
  /\ ReresolveOn403 \in BOOLEAN

VARIABLES
  stage,             \* where the engine is
  reresolves,        \* manifests fetched again so far
  length,            \* length of the manifest in use
  page,              \* where the task of each page is
  tries,             \* fetches of each page in this pass
  errors,            \* what the pages of this pass raised
  total_pages,       \* job.total_pages
  downloaded_pages,  \* job.downloaded_pages
  downloaded_bytes   \* job.downloaded_bytes

counters == <<total_pages, downloaded_pages, downloaded_bytes>>
fetchVars == <<stage, reresolves, length, page, tries, errors, counters>>

-----------------------------------------------------------------------------
MaxManifestReresolves == 2

Pages   == 1..MaxPages
Manifest == 1..length

Stages == {"resolving", "fetching", "aborting", "archiving", "failed"}
Ended  == {"ok", "lost", "cancelled"}
PageStates == {"unused", "waiting", "fetching", "checking", "sleeping"} \cup Ended

\* A SourceError with status 403, any other SourceError, any other exception.
ErrorKinds == {"forbidden", "source", "other"}

InState(s) == {p \in Manifest : page[p] = s}

FetchInit ==
  /\ stage = "resolving"
  /\ reresolves = 0
  /\ length = 0
  /\ page = [p \in Pages |-> "unused"]
  /\ tries = [p \in Pages |-> 0]
  /\ errors = {}
  /\ total_pages = 0 /\ downloaded_pages = 0 /\ downloaded_bytes = 0

\* A pass begins: one task per page of the manifest.
BeginPass(n) ==
  /\ stage' = "fetching"
  /\ length' = n
  /\ page' = [p \in Pages |-> IF p <= n THEN "waiting" ELSE "unused"]
  /\ tries' = [p \in Pages |-> 0]
  /\ errors' = {}

\* fetch_manifest returns n pages.  The first answer sets total_pages and zeroes
\* the counters; a later one only brings a new manifest.
ResolveManifest(n) ==
  /\ stage = "resolving"
  /\ BeginPass(n)
  /\ IF reresolves = 0
       THEN total_pages' = n /\ downloaded_pages' = 0 /\ downloaded_bytes' = 0
       ELSE UNCHANGED counters
  /\ UNCHANGED reresolves

\* fetch_manifest raises or returns no page.
ResolveFails ==
  /\ stage = "resolving"
  /\ stage' = "failed"
  /\ UNCHANGED <<reresolves, length, page, tries, errors, counters>>

-----------------------------------------------------------------------------
(* The task of one page: _one.                                             *)

PageRuns(p, s) == stage \in {"fetching", "aborting"} /\ p \in Manifest /\ page[p] = s
Move(p, s) == page' = [page EXCEPT ![p] = s]

StartFetch(p) ==
  /\ PageRuns(p, "waiting")
  /\ Cardinality(InState("fetching")) < Concurrency
  /\ Move(p, "fetching")
  /\ tries' = [tries EXCEPT ![p] = @ + 1]
  /\ UNCHANGED <<stage, reresolves, length, errors, counters>>

\* The body arrived; is_valid_image looks at it in a thread.
FetchAnswers(p) ==
  /\ PageRuns(p, "fetching")
  /\ Move(p, "checking")
  /\ UNCHANGED <<stage, reresolves, length, tries, errors, counters>>

\* The page raises: the TaskGroup starts to cancel the others.
LosePage(p, kind) ==
  /\ Move(p, "lost")
  /\ errors' = errors \cup {kind}
  /\ stage' = "aborting"
  /\ UNCHANGED <<reresolves, length, tries, counters>>

FetchRaises(p) == PageRuns(p, "fetching") /\ \E kind \in ErrorKinds : LosePage(p, kind)

\* A valid image: keep it and count it.
KeepPage(p) ==
  /\ PageRuns(p, "checking")
  /\ Move(p, "ok")
  /\ downloaded_pages' = downloaded_pages + 1
  /\ downloaded_bytes' = downloaded_bytes + PageSize[p]
  /\ UNCHANGED <<stage, reresolves, length, tries, errors, total_pages>>

\* Not an image: back off and fetch again, until the attempts are used up.
RejectPage(p) ==
  /\ PageRuns(p, "checking")
  /\ \/ /\ tries[p] < Attempts
        /\ Move(p, "sleeping")
        /\ UNCHANGED <<stage, reresolves, length, tries, errors, counters>>
     \/ tries[p] >= Attempts /\ LosePage(p, "source")

WakePage(p) ==
  /\ PageRuns(p, "sleeping")
  /\ Move(p, "waiting")
  /\ UNCHANGED <<stage, reresolves, length, tries, errors, counters>>

CancelPage(p) ==
  /\ stage = "aborting" /\ p \in Manifest /\ page[p] \notin Ended
  /\ Move(p, "cancelled")
  /\ UNCHANGED <<stage, reresolves, length, tries, errors, counters>>

PageStep(p) ==
  \/ StartFetch(p) \/ FetchAnswers(p) \/ FetchRaises(p) \/ KeepPage(p)
  \/ RejectPage(p) \/ WakePage(p) \/ CancelPage(p)

-----------------------------------------------------------------------------
(* The end of the TaskGroup.                                               *)

\* async with TaskGroup: the block is left when every task is done.
GroupDone == stage \in {"fetching", "aborting"} /\ \A p \in Manifest : page[p] \in Ended

BugAllFetched ==  \* what was fetched is packaged, errors or not
  /\ GroupDone
  /\ stage' = "archiving"
  /\ UNCHANGED <<reresolves, length, page, tries, errors, counters>>

AllFetched ==
  /\ GroupDone /\ errors = {}
  /\ stage' = "archiving"
  /\ UNCHANGED <<reresolves, length, page, tries, errors, counters>>

\* _StaleManifest: a 403 among SourceErrors only.  An exception of another type
\* leaves the group beside it, and _fetch_all_pages does not catch that.
Stale == ReresolveOn403 /\ "forbidden" \in errors /\ "other" \notin errors

BugResetCounters == UNCHANGED <<downloaded_pages, downloaded_bytes>>
ResetCounters == downloaded_pages' = 0 /\ downloaded_bytes' = 0

BugReresolve ==  \* the budget is never used up
  /\ GroupDone /\ Stale
  /\ reresolves < MaxManifestReresolves
  /\ stage' = "resolving"
  /\ ResetCounters
  /\ page' = [p \in Pages |-> "unused"]
  /\ UNCHANGED <<reresolves, length, tries, errors, total_pages>>

Reresolve ==
  /\ GroupDone /\ Stale
  /\ reresolves < MaxManifestReresolves
  /\ reresolves' = reresolves + 1
  /\ stage' = "resolving"
  /\ ResetCounters
  /\ page' = [p \in Pages |-> "unused"]
  /\ UNCHANGED <<length, tries, errors, total_pages>>

FetchFails ==
  /\ GroupDone /\ errors # {}
  /\ ~Stale \/ reresolves >= MaxManifestReresolves
  /\ stage' = "failed"
  /\ UNCHANGED <<reresolves, length, page, tries, errors, counters>>

GroupStep ==
  \/ \E n \in Pages : ResolveManifest(n)
  \/ ResolveFails \/ AllFetched \/ Reresolve \/ FetchFails

FetchNext == GroupStep \/ \E p \in Pages : PageStep(p)

FetchSpec == FetchInit /\ [][FetchNext]_fetchVars

\* Remote calls end (finite timeouts), threads and the loop run.
FetchFairSpec == FetchSpec /\ WF_fetchVars(GroupStep) /\ \A p \in Pages : WF_fetchVars(PageStep(p))

-----------------------------------------------------------------------------
\* The size of the pages of S together.
BytesOf(S) ==
  LET upTo[n \in 0..MaxPages] ==
        IF n = 0 THEN 0 ELSE upTo[n - 1] + (IF n \in S THEN PageSize[n] ELSE 0)
  IN  upTo[MaxPages]

\* _estimate_bytes_and_eta: the projected total, rounded to the nearest byte.
BugEstimatedTotal ==  \* the average page rounded down first
  (downloaded_bytes \div downloaded_pages) * total_pages
EstimatedTotal ==
  (2 * downloaded_bytes * total_pages + downloaded_pages) \div (2 * downloaded_pages)

FetchTypeOK ==
  /\ stage \in Stages
  /\ reresolves \in 0..MaxManifestReresolves
  /\ length \in 0..MaxPages
  /\ page \in [Pages -> PageStates]
  /\ tries \in [Pages -> 0..Attempts]
  /\ errors \subseteq ErrorKinds
  /\ total_pages \in 0..MaxPages
  /\ downloaded_pages \in Nat /\ downloaded_bytes \in Nat

\* D-29: only a manifest whose every page was fetched and valid is packaged, and
\* it is the manifest of the last pass, not a mixture of two.
AllOrNothing == stage = "archiving" => \A p \in Manifest : page[p] = "ok"

\* The progress that GET /downloads shows counts the pages of this pass and no
\* other: no page of a stale pass is added after the counters were reset.
ProgressIsThisPass ==
  /\ downloaded_pages = Cardinality(InState("ok"))
  /\ downloaded_bytes = BytesOf(InState("ok"))

\* WR-08: when the pages are in, the live estimate is the exact size that
\* COMPLETED pins next, if the manifest kept its length.
EstimateExactAtArchiving ==
  stage = "archiving" /\ length = total_pages => EstimatedTotal = downloaded_bytes

\* A pass is whole or it is nothing, in the pages, the progress and the estimate.
PassIsWhole == FetchTypeOK /\ AllOrNothing /\ ProgressIsThisPass /\ EstimateExactAtArchiving

\* A fetch ends, whatever the pages answer and however often they answer 403.
PassesEnd == <>(stage \in {"archiving", "failed"})
=============================================================================
