----------------------------- MODULE MCServices -----------------------------
(* The safety of the services that need no fairness, for TLC: the handle    *)
(* store, the metrics, the credentials of a session, and what a source      *)
(* answers to a search and to a job, side by side.  None of them reads the  *)
(* state of another, so a behaviour is one of a single part, chosen at the  *)
(* start; the others stay in an initial state.  Whatever there are two of   *)
(* (requests, jobs, calls, clients) is the same pair in all of them.        *)
EXTENDS HandleStore, Credentials, Metrics, SourceSearch, ChapterPages, TLC

CONSTANTS a, b, c, h1, h2

VARIABLE part

everything == <<part, vars, metricsVars, credentialsVars, searchVars, pagesVars>>

-----------------------------------------------------------------------------
(* What a site holds and what is asked of it. *)
MCRelease(n, l, d, u) == [num |-> n, lang |-> l, date |-> d, usable |-> u]
MCSites ==
  {<<MCRelease(1, k, 2, TRUE), MCRelease(2, l, 3, u), MCRelease(2, m, 1, TRUE)>> :
     k, l, m \in {"en", "ja"}, u \in BOOLEAN}
EnglishSite == <<MCRelease(1, "en", 2, TRUE), MCRelease(2, "en", 3, TRUE), MCRelease(2, "en", 1, TRUE)>>

Query(k, l, n, o, m) == [kind |-> k, langs |-> l, chapter |-> n, offset |-> o, limit |-> m]
MCQueries ==
  {Query("search", l, n, 0, 1) : l \in {<<>>, <<"en">>, <<"ja">>}, n \in {0, 2}}
  \cup {Query("search", l, 0, 1, 1) : l \in {<<>>, <<"ja">>}}
  \cup {Query("recent", l, 0, 0, 2) : l \in {<<"en">>, <<"ja">>}}

(* Two chapters share a number, and two of different namespaces an id. *)
MCChapters ==
  {[id |-> 1, num |-> 1, user |-> FALSE, age |-> 2], [id |-> 2, num |-> 1, user |-> FALSE, age |-> 1],
   [id |-> 1, num |-> 2, user |-> TRUE, age |-> 1]}

-----------------------------------------------------------------------------
MCInit ==
  /\ part \in {"handles", "metrics", "credentials", "search", "pages"}
  /\ Init
  /\ MetricsInit
  /\ CredentialsInit /\ (part # "credentials" => kind = "csrf")
  /\ SearchInit /\ (part # "search" => site = EnglishSite)
  /\ PagesInit /\ (part # "pages" => ~declared /\ ~challenged /\ blocked = {} /\ entry = [n \in Positions |-> "ok"])
  /\ part \notin {"search", "pages"} => src = "comix"

MCNext ==
  /\ UNCHANGED part
  /\ IF part = "handles" THEN Next ELSE UNCHANGED vars
  /\ IF part = "metrics" THEN MetricsNext ELSE UNCHANGED metricsVars
  /\ IF part = "credentials" THEN CredentialsNext ELSE UNCHANGED credentialsVars
  /\ IF part = "search" THEN SearchNext ELSE UNCHANGED searchVars
  /\ IF part = "pages" THEN PagesNext ELSE UNCHANGED pagesVars

MCSpec == MCInit /\ [][MCNext]_everything

Symmetric == Permutations({a, b})
=============================================================================
