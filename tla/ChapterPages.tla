---------------------------- MODULE ChapterPages ----------------------------
(* From a release to the bytes of its pages (sources/*.py): the chapter id   *)
(* that a release puts into its handle, the manifest that a download makes  *)
(* of it, and the fetch of each page, for two jobs of one source that share *)
(* its device (Comix), its stash of images (MangaBall) and the zones of its *)
(* CDN (MangaFire).                                                         *)
(*                                                                          *)
(* A chapter has an id, a number, and on MangaDot a namespace: uploads and  *)
(* scraped chapters have overlapping ids.  A page is its position.          *)
EXTENDS Source, SequencesExt, FiniteSets

CONSTANTS
  Jobs,
  Chapters,     \* records of id, num, user, age (publishedAtRelative)
  NumPages,     \* of every chapter
  Zones,        \* _MANGAFIRE_CDN_ZONES
  HomeZone,     \* that of the addresses of the images
  ColdAttempts, \* _MANIFEST_COLD_RACE_ATTEMPTS
  MaxCalls,     \* _CALLPAGE_MAX_ITERATIONS
  MaxReresolves,\* _MAX_MANIFEST_RERESOLVES
  MaxFlips      \* zones that change their mind during a run

PagesAssumption ==
  /\ NumPages \in Nat \ {0} /\ ColdAttempts \in Nat \ {0} /\ MaxCalls \in Nat
  /\ MaxReresolves \in Nat /\ MaxFlips \in Nat
  /\ HomeZone \in Zones /\ Zones \subseteq Nat /\ None \notin Jobs \cup Zones
  /\ Chapters \subseteq [id : Nat, num : Nat, user : BOOLEAN, age : Nat]
  /\ \A c, d \in Chapters : c.id = d.id /\ c.user = d.user => c = d
ASSUME PagesAssumption

Positions == 1..NumPages
Nowhere == [id |-> 0, num |-> 0, user |-> FALSE, age |-> 0]

VARIABLES
  entry,    \* what the source lists for each page: "ok", "blank" or "null"
  declared, \* whether the release declared its number of pages
  challenged,\* whether the images of MangaBall are on the host that challenges
  where, chapter, handle,  \* of each job: where it is, its release and its id
  found,    \* the chapter that the source serves for it
  pages,    \* its manifest
  calls,    \* attempts, or calls for more pages
  got,      \* pages it has
  tried,    \* zones that refused the page it is at
  preferred,\* the zone that served it last
  reresolves,\* of its manifest, once stale
  denials,  \* history: the 403s it was answered
  broken,   \* history: a page was lost to another error
  device, stash, blocked, flips

siteVars  == <<src, entry, declared, challenged>>
imageVars == <<got, tried, preferred, reresolves, denials, broken>>
jobVars   == <<where, chapter, handle, found, pages, calls, imageVars>>
pagesVars == <<siteVars, jobVars, device, stash, blocked, flips>>

PagesInit ==
  /\ src \in Sources /\ entry \in [Positions -> {"ok", "blank", "null"}] /\ declared \in BOOLEAN
  /\ challenged \in BOOLEAN /\ (challenged => src = "mangaball")
  /\ where = [j \in Jobs |-> "new"] /\ chapter = [j \in Jobs |-> Nowhere]
  /\ handle = [j \in Jobs |-> [tag |-> "", id |-> 0, num |-> 0]] /\ found = [j \in Jobs |-> Nowhere]
  /\ pages = [j \in Jobs |-> <<>>] /\ calls = [j \in Jobs |-> 0]
  /\ got = [j \in Jobs |-> {}] /\ tried = [j \in Jobs |-> {}]
  /\ preferred = [j \in Jobs |-> None] /\ reresolves = [j \in Jobs |-> 0]
  /\ denials = [j \in Jobs |-> {}] /\ broken = [j \in Jobs |-> FALSE]
  /\ device = None /\ stash = {} /\ blocked \in SUBSET Zones /\ flips = 0

Proceed(j, p) == where' = [where EXCEPT ![j] = p]

-----------------------------------------------------------------------------
(* The id in the handle of a release, and what it is taken for.             *)

BareId(c)        == [tag |-> "", id |-> c.id, num |-> 0]
MangaDotId(c)    == [BareId(c) EXCEPT !.tag = IF c.user THEN "user" ELSE ""]
AtsumaruId(c)    == [BareId(c) EXCEPT !.tag = "manga"]
ProjectSukiId(c) == [BareId(c) EXCEPT !.tag = "book"]
ComixId(c)       == [tag |-> "series", id |-> c.id, num |-> c.num]
ComixDeferred(c) == [tag |-> "DEFERRED", id |-> 0, num |-> c.num]

(* The releases of a poll of Comix know no chapter id yet.                  *)
ReleaseIds(c) ==
  CASE src = "mangadot"    -> {MangaDotId(c)}
    [] src = "atsumaru"    -> {AtsumaruId(c)}
    [] src = "projectsuki" -> {ProjectSukiId(c)}
    [] src = "comix"       -> {ComixId(c), ComixDeferred(c)}
    [] OTHER               -> {BareId(c)}

(* Uploads of MangaDot only; ids are unique elsewhere. *)
Served == {c \in Chapters : src = "mangadot" \/ ~c.user}
Deferred(j) == src = "comix" /\ handle[j].tag = "DEFERRED"

(* Of the rows with the number of a deferred id, the newest, then the first. *)
PickAmongDuplicates(rows) ==
  CHOOSE c \in rows : \A d \in rows : c.age < d.age \/ (c.age = d.age /\ c.id <= d.id)

BugResolved(j) == CHOOSE c \in Served : c.id = handle[j].id
Resolved(j) ==
  CASE Deferred(j) -> PickAmongDuplicates({c \in Served : c.num = handle[j].num})
    [] src = "mangadot" -> CHOOSE c \in Served : c.id = handle[j].id /\ (c.user <=> handle[j].tag = "user")
    [] OTHER -> CHOOSE c \in Served : c.id = handle[j].id

-----------------------------------------------------------------------------
(* The listing of a chapter, as each source reads it: some refuse one with   *)
(* an entry that they cannot read, some pass over it; most compare the count *)
(* with the one that the release declared.  No page is no manifest.          *)

Unreadable == <<>>
Listing    == [i \in Positions |-> i]
Legible     == {i \in Positions : entry[i] = "ok"}
Readable(n) == Kept([i \in 1..n |-> i], Legible)
Whole == IF Legible = Positions THEN Listing ELSE Unreadable
BugCounted(s) == IF declared /\ Len(s) > NumPages THEN Unreadable ELSE s
Counted(s) == IF declared /\ Len(s) # NumPages THEN Unreadable ELSE s

MangaDexPages    == Whole
MangaDotPages    == Readable(NumPages)
MangaBallPages   == Counted(Readable(NumPages))
MangaFirePages   == Counted(Whole)
KaganePages      ==  \* an entry that is no object is passed over, one without an id is not
  IF \E i \in Positions : entry[i] = "blank" THEN Unreadable ELSE Counted(Readable(NumPages))
AtsumaruPages    == Counted(Whole)
WeebCentralPages == Counted(Readable(NumPages))
ComixPages       == Whole
ListedPages ==
  CASE src = "mangadex"    -> MangaDexPages
    [] src = "mangadot"    -> MangaDotPages
    [] src = "mangaball"   -> MangaBallPages
    [] src = "mangafire"   -> MangaFirePages
    [] src = "kagane"      -> KaganePages
    [] src = "atsumaru"    -> AtsumaruPages
    [] src = "weebcentral" -> WeebCentralPages

FetchManifest(j) ==
  Proceed(j, CASE src = "comix" -> "lane" [] src = "kagane" -> "token"
               [] src = "projectsuki" -> "read" [] OTHER -> "list")

Submit(j) ==
  /\ where[j] = "new"
  /\ \E c \in Served : \E id \in ReleaseIds(c) :
       chapter' = [chapter EXCEPT ![j] = c] /\ handle' = [handle EXCEPT ![j] = id]
  /\ FetchManifest(j)
  /\ UNCHANGED <<siteVars, found, pages, calls, imageVars, device, stash, blocked, flips>>

Finds(j) == found' = [found EXCEPT ![j] = Resolved(j)]
Extracted(j, s) ==
  /\ pages' = [pages EXCEPT ![j] = s]
  /\ Proceed(j, IF s = Unreadable THEN "unreadable" ELSE IF challenged THEN "batch" ELSE "page")

(* One call tells the whole chapter. *)
Manifest(j) ==
  /\ where[j] = "list"
  /\ Finds(j) /\ Extracted(j, ListedPages)
  /\ UNCHANGED <<siteVars, chapter, handle, calls, imageVars, device, stash, blocked, flips>>

(* Kagane asks for an integrity token first. *)
IntegrityToken(j) ==
  /\ where[j] = "token" /\ Proceed(j, "list")
  /\ UNCHANGED <<siteVars, chapter, handle, found, pages, calls, imageVars, device, stash, blocked, flips>>

(* ProjectSuki has the first page on the reader, and the others come from   *)
(* calls of a page each, until the answer is not "super".                     *)
ReadPage1(j) ==
  /\ where[j] = "read" /\ Finds(j)
  /\ pages' = [pages EXCEPT ![j] = Readable(1)]
  /\ Proceed(j, "call")
  /\ UNCHANGED <<siteVars, chapter, handle, calls, imageVars, device, stash, blocked, flips>>
CallPage(j) ==
  /\ where[j] = "call" /\ calls[j] < MaxCalls
  /\ calls' = [calls EXCEPT ![j] = @ + 1]
  /\ LET n == calls'[j] + 1
         s == IF n \in Legible THEN Append(pages[j], n) ELSE pages[j]
     IN  \/ n >= NumPages /\ Extracted(j, Counted(s))
         \/ n < NumPages /\ pages' = [pages EXCEPT ![j] = s] /\ UNCHANGED where
  /\ UNCHANGED <<siteVars, chapter, handle, found, imageVars, device, stash, blocked, flips>>

(* Comix holds the device from the resolution of a deferred id to the       *)
(* manifest; a cold page that shows no image yet is read again.             *)
TakeDevice(j) ==
  /\ where[j] = "lane" /\ device = None /\ device' = j
  /\ Proceed(j, "eval")
  /\ UNCHANGED <<siteVars, chapter, handle, found, pages, calls, imageVars, stash, blocked, flips>>
EvalManifest(j) ==
  /\ where[j] = "eval" /\ device' = None
  /\ Finds(j) /\ Extracted(j, ComixPages)
  /\ UNCHANGED <<siteVars, chapter, handle, calls, imageVars, stash, blocked, flips>>
ColdRace(j) ==
  /\ where[j] = "eval"
  /\ calls' = [calls EXCEPT ![j] = @ + 1]
  /\ IF calls'[j] < ColdAttempts
     THEN UNCHANGED <<where, device>>
     ELSE Proceed(j, "unreadable") /\ device' = None
  /\ UNCHANGED <<siteVars, chapter, handle, found, pages, imageVars, stash, blocked, flips>>

(* A request for the manifest fails: a status, a call that names no next     *)
(* chapter, one call too many, a device or a webview that does not answer.  *)
ManifestFails(j) ==
  /\ where[j] \in {"lane", "token", "list", "read", "call", "eval", "batch"} /\ Proceed(j, "unreadable")
  /\ device' = IF device = j THEN None ELSE device
  /\ UNCHANGED <<siteVars, chapter, handle, found, pages, calls, imageVars, stash, blocked, flips>>

-----------------------------------------------------------------------------
(* The pages, taken one at a time: PageFetch has their concurrency, and the *)
(* number of attempts after which a page is lost.                          *)

Url(j, i) == <<found[j], i>>
NextPage(j) == pages[j][Cardinality(got[j]) + 1]

(* What comes of a page: its image; a body that is none, or the failure of   *)
(* one image proxy, after which it is asked for anew; or an error other than *)
(* a 403, or the last of the attempts, with which the job loses it.          *)
BugHas(j) ==
  /\ got' = [got EXCEPT ![j] = @ \cup {NextPage(j)}]
  /\ Proceed(j, IF Cardinality(got'[j]) = Len(pages[j]) THEN "done" ELSE "page")
  /\ UNCHANGED <<calls, tried, reresolves, denials, broken>>
Has(j) ==
  /\ got' = [got EXCEPT ![j] = @ \cup {NextPage(j)}]
  /\ tried' = [tried EXCEPT ![j] = {}]
  /\ Proceed(j, IF Cardinality(got'[j]) = Len(pages[j]) THEN "done" ELSE "page")
  /\ UNCHANGED <<calls, reresolves, denials, broken>>
Again(j) ==
  /\ tried' = [tried EXCEPT ![j] = {}]
  /\ UNCHANGED <<where, calls, got, reresolves, denials, broken>>
Lose(j) ==
  /\ Proceed(j, "failed") /\ broken' = [broken EXCEPT ![j] = TRUE]
  /\ UNCHANGED <<calls, got, tried, reresolves, denials>>
Responds(j) == Has(j) \/ Again(j) \/ Lose(j)
Denied(j, z) ==
  denials' = [denials EXCEPT ![j] = @ \cup {[manifest |-> reresolves[j], page |-> NextPage(j), zone |-> z]}]

(* MangaBall fetches the challenged pages of a manifest in one batch of the *)
(* webview, and stashes those it gets.                                      *)
Batch(j) ==
  /\ where[j] = "batch" /\ Proceed(j, "page")
  /\ \E ok \in SUBSET Range(pages[j]) : stash' = stash \cup {Url(j, i) : i \in ok}
  /\ UNCHANGED <<siteVars, chapter, handle, found, pages, calls, imageVars, device, blocked, flips>>

FetchStashed(j) ==
  /\ where[j] = "page" /\ challenged /\ Url(j, NextPage(j)) \in stash
  /\ stash' = stash \ {Url(j, NextPage(j))}
  /\ Responds(j)
  /\ UNCHANGED <<siteVars, chapter, handle, found, pages, preferred, device, blocked, flips>>

(* A page that is not, or no longer, in the stash is asked for by itself;    *)
(* the webview tells no status.                                             *)
BugMissed(j) ==
  /\ where[j] = "page" /\ challenged /\ Url(j, NextPage(j)) \notin stash
  /\ Proceed(j, "failed")
  /\ UNCHANGED <<siteVars, chapter, handle, found, pages, calls, imageVars, device, stash, blocked, flips>>
Missed(j) ==
  /\ where[j] = "page" /\ challenged /\ Url(j, NextPage(j)) \notin stash
  /\ Responds(j)
  /\ UNCHANGED <<siteVars, chapter, handle, found, pages, preferred, device, stash, blocked, flips>>

(* MangaFire tries the zone that served last, that of the address, then all, *)
(* one after another as long as they answer 403; any other error is raised   *)
(* with zones untried.                                                      *)
BugUntried(j) == {IF preferred[j] # None THEN preferred[j] ELSE HomeZone} \ tried[j]
Untried(j) == Zones \ tried[j]
NextZone(j) ==
  IF preferred[j] \in Untried(j) THEN preferred[j]
  ELSE IF HomeZone \in Untried(j) THEN HomeZone
  ELSE CHOOSE z \in Untried(j) : \A y \in Untried(j) : z <= y
FetchZone(j) ==
  /\ where[j] = "page" /\ src = "mangafire" /\ Untried(j) # {}
  /\ \/ /\ NextZone(j) \in blocked
        /\ Denied(j, NextZone(j)) /\ tried' = [tried EXCEPT ![j] = @ \cup {NextZone(j)}]
        /\ UNCHANGED <<where, calls, got, preferred, reresolves, broken>>
     \/ /\ NextZone(j) \notin blocked
        /\ Responds(j) /\ preferred' = [preferred EXCEPT ![j] = NextZone(j)]
     \/ (Again(j) \/ Lose(j)) /\ UNCHANGED preferred
  /\ UNCHANGED <<siteVars, chapter, handle, found, pages, device, stash, blocked, flips>>
(* Its 403s leave the manifest as it is: reresolve_manifest_on_403 = False. *)
AllBlocked(j) ==
  /\ where[j] = "page" /\ src = "mangafire" /\ Untried(j) = {}
  /\ \/ Proceed(j, "failed") /\ UNCHANGED <<calls, imageVars>>
     \/ Again(j) /\ UNCHANGED preferred
  /\ UNCHANGED <<siteVars, chapter, handle, found, pages, device, stash, blocked, flips>>

(* The other sources, and MangaBall off its challenged host, ask once; a 403 *)
(* makes the manifest stale: it is fetched again and its pages from the     *)
(* start, or the job fails when that was done too often.                    *)
Plain == src # "mangafire" /\ ~challenged
FetchPlain(j) ==
  /\ where[j] = "page" /\ Plain
  /\ Responds(j)
  /\ UNCHANGED <<siteVars, chapter, handle, found, pages, preferred, device, stash, blocked, flips>>
BugForbidden(j) ==
  /\ where[j] = "page" /\ Plain /\ Denied(j, None)
  /\ IF reresolves[j] + 1 < MaxReresolves
     THEN /\ reresolves' = [reresolves EXCEPT ![j] = @ + 1] /\ FetchManifest(j)
          /\ got' = [got EXCEPT ![j] = {}] /\ calls' = [calls EXCEPT ![j] = 0]
     ELSE Proceed(j, "failed") /\ UNCHANGED <<calls, got, reresolves>>
  /\ UNCHANGED <<siteVars, chapter, handle, found, pages, tried, preferred, broken, device, stash, blocked, flips>>
Forbidden(j) ==
  /\ where[j] = "page" /\ Plain /\ Denied(j, None)
  /\ IF reresolves[j] < MaxReresolves
     THEN /\ reresolves' = [reresolves EXCEPT ![j] = @ + 1] /\ FetchManifest(j)
          /\ got' = [got EXCEPT ![j] = {}] /\ calls' = [calls EXCEPT ![j] = 0]
     ELSE Proceed(j, "failed") /\ UNCHANGED <<calls, got, reresolves>>
  /\ UNCHANGED <<siteVars, chapter, handle, found, pages, tried, preferred, broken, device, stash, blocked, flips>>

(* An entry of the stash ages out; a zone starts or stops to refuse.        *)
Evict ==
  /\ \E u \in stash : stash' = stash \ {u}
  /\ UNCHANGED <<siteVars, jobVars, device, blocked, flips>>
Flip(z) ==
  /\ src = "mangafire" /\ flips < MaxFlips /\ flips' = flips + 1
  /\ blocked' = IF z \in blocked THEN blocked \ {z} ELSE blocked \cup {z}
  /\ UNCHANGED <<siteVars, jobVars, device, stash>>

PagesNext ==
  \/ \E j \in Jobs :
       \/ Submit(j) \/ Manifest(j) \/ IntegrityToken(j) \/ ReadPage1(j) \/ CallPage(j)
       \/ TakeDevice(j) \/ EvalManifest(j) \/ ColdRace(j) \/ ManifestFails(j) \/ Batch(j)
       \/ FetchStashed(j) \/ Missed(j) \/ FetchZone(j) \/ AllBlocked(j) \/ FetchPlain(j) \/ Forbidden(j)
  \/ Evict \/ \E z \in Zones : Flip(z)

PagesSpec == PagesInit /\ [][PagesNext]_pagesVars

-----------------------------------------------------------------------------
(* A download gets the pages of the chapter that its release showed, though *)
(* ids overlap between the namespaces of MangaDot and though a deferred id  *)
(* of Comix is resolved only now (there, of a chapter with its number); and *)
(* it gets all of them, in order, where the source refuses unreadable       *)
(* entries or the release declared their number.  Once done it has every    *)
(* page of its manifest.                                                    *)
ManifestIsTheChapter ==
  \A j \in Jobs :
    where[j] \in {"batch", "page", "done"} =>
      /\ IF Deferred(j) THEN found[j].num = chapter[j].num ELSE found[j] = chapter[j]
      /\ src \in {"mangadex", "atsumaru", "mangafire", "comix"} \/ (declared /\ src # "mangadot")
           => pages[j] = Listing
      /\ where[j] = "done" => got[j] = Range(pages[j])

(* A job that fails at a page met an error other than a 403, or it was      *)
(* refused all that the code allows for.  MangaFire: every zone has refused *)
(* this very page; none is passed over for another page, or another job.    *)
(* Elsewhere: each of its 1 + MaxReresolves manifests met a 403.  So no job *)
(* fails for what the other one took from the stash ("a miss ... re-fetches *)
(* that one URL through the WebView", fetch_image).                         *)
RefusedBy(j) == {r.zone : r \in {q \in denials[j] : q.page = NextPage(j)}}
FailsOnlyIfRefused ==
  \A j \in Jobs : where[j] = "failed" =>
    \/ broken[j]
    \/ IF src = "mangafire" THEN Zones \subseteq RefusedBy(j)
       ELSE \A m \in 0..MaxReresolves : \E r \in denials[j] : r.manifest = m

(* A job gets the pages of its chapter, or it fails for a reason. *)
PagesAreTheChapters == ManifestIsTheChapter /\ FailsOnlyIfRefused
=============================================================================
