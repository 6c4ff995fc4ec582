--------------------------- MODULE SourceSearch ----------------------------
(* What the sources (sources/*.py) answer to a search and to a poll of the  *)
(* recent releases, through the enumeration cache that concurrent searches  *)
(* share, and the page that the route cuts from it.                         *)
(*                                                                          *)
(* The site of the source has one title; its chapters are a sequence in     *)
(* ascending number, where new ones may appear while a feed is being walked. *)
(* A chapter is named by its date.  Requests name no chapter as 0 and leave  *)
(* the limit out as 0.                                                      *)
EXTENDS Source, SequencesExt, FiniteSets

CONSTANTS
  Searchers, \* the requests
  Sites,     \* what a site may hold at first
  Queries,   \* what is asked: records of kind, langs, chapter, offset, limit
  Langs,
  FeedPage,  \* chapters per page of a feed (500, 100)
  Today,     \* the date of what is published meanwhile
  MaxGrowth  \* chapters published during a run

Release == [num : Nat, lang : Langs, date : Nat, usable : BOOLEAN]
SearchAssumption ==
  /\ FeedPage \in Nat \ {0} /\ Today \in Nat /\ MaxGrowth \in Nat /\ "en" \in Langs
  /\ Queries \subseteq [kind : {"search", "recent"}, langs : Seq(Langs), chapter : Nat, offset : Nat, limit : Nat]
  /\ \A x \in Sites :
       /\ x \in Seq(Release) /\ x # <<>>
       /\ \A i, j \in DOMAIN x : x[i].date < Today /\ (x[i].date = x[j].date => i = j)
ASSUME SearchAssumption

VARIABLES
  site, grown,
  enumerated, \* the enumeration kept for each language key
  place,      \* where each request is
  query,      \* what it asks
  rows,       \* what it has of the feed
  since,      \* the site as its walk began
  last,       \* lastPage, as the first page told it
  answer

searchVars == <<src, site, grown, enumerated, place, query, rows, since, last, answer>>

(* The sites of most sources have one language, English but for Kagane,     *)
(* whose series have one each.                                              *)
Multilingual == {"mangadex", "mangadot", "mangaball", "mangafire"}
SitesOf(s) ==
  {x \in Sites : s \in Multilingual \/ \A c \in Range(x) : c.lang = IF s = "kagane" THEN x[1].lang ELSE "en"}

SearchInit ==
  /\ src \in Sources /\ site \in SitesOf(src) /\ grown = 0
  /\ enumerated = [k \in SUBSET Langs |-> None]
  /\ place = [r \in Searchers |-> "new"] /\ query = [r \in Searchers |-> None]
  /\ rows = [r \in Searchers |-> <<>>] /\ since = [r \in Searchers |-> <<>>]
  /\ last = [r \in Searchers |-> 0] /\ answer = [r \in Searchers |-> <<>>]

-----------------------------------------------------------------------------
(* The rows of a source.                                                    *)

chapter_matches(q, c) == q.chapter \in {0, c.num}
Wants(langs, l) == langs = <<>> \/ l \in Range(langs)
EnglishWanted(langs) == Wants(langs, "en")
Or50(limit) == IF limit = 0 THEN 50 ELSE limit
Cut(s, n) == SubSeq(s, 1, IF n < Len(s) THEN n ELSE Len(s))
Past(s, n) == SubSeq(s, n + 1, Len(s))

(* A list sorted by falling weights, each a function of the position; the   *)
(* equal ones stay in order.                                                *)
Ahead(w, i, j) == w[i] > w[j] \/ (w[i] = w[j] /\ i < j)
Rank(w, j) == 1 + Cardinality({i \in DOMAIN w : Ahead(w, i, j)})
Descending(s, w) == [n \in DOMAIN s |-> s[CHOOSE j \in DOMAIN s : Rank(w, j) = n]]
NewestFirst(s) == Descending(s, [i \in DOMAIN s |-> s[i].date])
LastFirst(s)   == Descending(s, [i \in DOMAIN s |-> s[i].num])

Usable(s) == Kept(s, {c \in Range(s) : c.usable})
InLangs(langs, s) == Kept(s, {c \in Range(s) : Wants(langs, c.lang)})
Matching(q, s) == Kept(s, {c \in Range(s) : c.usable /\ chapter_matches(q, c)})
WantedOf(q, s) == InLangs(q.langs, Matching(q, s))

(* What each search makes of the feed it has enumerated: sorted by date, by  *)
(* position or number, or in the order of the feed.                         *)
MangaDexRows(q, s)     == Matching(q, s)
MangaDotRows(q, s)     == Cut(NewestFirst(WantedOf(q, s)), Or50(q.limit))
MangaBallRows(q, s)    == Cut(NewestFirst(WantedOf(q, s)), Or50(q.limit))
KaganeRows(q, s)       == Cut(LastFirst(Matching(q, s)), Or50(q.limit))
AtsumaruRows(q, s)     == Cut(LastFirst(Matching(q, s)), Or50(q.limit))
WeebCentralRows(q, s)  == Cut(Matching(q, s), Or50(q.limit))
ProjectSukiRows(q, s)  == Cut(LastFirst(Matching(q, s)), Or50(q.limit))
MangaFireRows(q, s)    == Cut(Matching(q, s), Or50(q.limit))
ComixRows(q, s) ==  \* the window is cut before rows without an id are dropped
  Usable(Cut(Kept(s, {c \in Range(s) : chapter_matches(q, c)}), q.offset + q.limit))

SearchRows(q, s) ==
  CASE src = "mangadex"    -> MangaDexRows(q, s)
    [] src = "mangadot"    -> MangaDotRows(q, s)
    [] src = "mangaball"   -> MangaBallRows(q, s)
    [] src = "kagane"      -> KaganeRows(q, s)
    [] src = "atsumaru"    -> AtsumaruRows(q, s)
    [] src = "weebcentral" -> WeebCentralRows(q, s)
    [] src = "projectsuki" -> ProjectSukiRows(q, s)
    [] src = "mangafire"   -> MangaFireRows(q, s)
    [] src = "comix"       -> ComixRows(q, s)

(* The language of a feed that has one: that of the series, or the first    *)
(* that is asked for.                                                       *)
SeriesLang == site[1].lang
FilterLanguage(langs) == IF langs = <<>> THEN "en" ELSE langs[1]

(* Sources that have nothing in the languages asked for answer at once.     *)
Declines(q) ==
  \/ src \in {"atsumaru", "weebcentral", "projectsuki"} /\ ~EnglishWanted(q.langs)
  \/ src = "kagane" /\ ~Wants(q.langs, SeriesLang)
  \/ src = "mangadot" /\ q.kind = "recent" /\ ~EnglishWanted(q.langs)

-----------------------------------------------------------------------------
(* The recent releases of the title.                                        *)

Top(s) == Cut(s, 1)
OfLangs(k, s) == Kept(s, {c \in Range(s) : c.lang \in k})

MangaDexRecent(q)    == Usable(Cut(NewestFirst(InLangs(q.langs, site)), Or50(q.limit)))
BugMangaDotRecent(q) == Top(NewestFirst(Usable(site)))
MangaDotRecent(q)    == Top(NewestFirst(Usable(InLangs(q.langs, site))))
MangaBallRecent(q)   == Usable(NewestFirst(InLangs(q.langs, site)))
KaganeRecent(q)      == Top(Usable(Reverse(site)))
AtsumaruRecent(q)    == Top(Usable(Reverse(site)))
WeebCentralRecent(q) == Top(Usable(Reverse(site)))
ProjectSukiRecent(q) == Top(Usable(Reverse(site)))
MangaFireRecent(q)   ==  \* of the first page only
  Top(Usable(Cut(Reverse(OfLangs({FilterLanguage(q.langs)}, site)), FeedPage)))
ComixRecent(q)       == Top(Reverse(site))

RecentRows(q) ==
  CASE src = "mangadex"    -> MangaDexRecent(q)
    [] src = "mangadot"    -> MangaDotRecent(q)
    [] src = "mangaball"   -> MangaBallRecent(q)
    [] src = "kagane"      -> KaganeRecent(q)
    [] src = "atsumaru"    -> AtsumaruRecent(q)
    [] src = "weebcentral" -> WeebCentralRecent(q)
    [] src = "projectsuki" -> ProjectSukiRecent(q)
    [] src = "mangafire"   -> MangaFireRecent(q)
    [] src = "comix"       -> ComixRecent(q)

-----------------------------------------------------------------------------
(* The feed and its cache.                                                  *)

(* The languages that the feed is asked for are part of its key.            *)
BugEnumKey(q) == {}
EnumKey(q) ==
  CASE src = "mangadex"  -> IF q.langs = <<>> THEN {"en"} ELSE Range(q.langs)
    [] src = "mangafire" -> {FilterLanguage(q.langs)}
    [] OTHER             -> {}

(* What the site lists under a key, in the order of the feed.               *)
Listed(k, s) ==
  CASE src = "mangadex"  -> OfLangs(k, s)
    [] src = "mangafire" -> Reverse(OfLangs(k, s))
    [] src \in {"kagane", "weebcentral", "comix"} -> Reverse(s)
    [] OTHER             -> s

Paged == src \in {"mangadex", "kagane", "mangafire"}
KeyOf(r) == EnumKey(query[r])
Reach(r, p) == place' = [place EXCEPT ![r] = p]

(* The page after the rows had so far: at their number, or beyond the last  *)
(* of them where the feed has a cursor.                                     *)
Beyond(r) ==
  LET f == Listed(KeyOf(r), site)  had == Len(rows[r])
  IN  IF src = "kagane" /\ had > 0
      THEN LET i == CHOOSE i \in DOMAIN f : f[i] = Last(rows[r]) IN i
      ELSE had
PageBeyond(r) == LET f == Listed(KeyOf(r), site) IN Cut(Past(f, Beyond(r)), FeedPage)

(* A feed by number ends with a short page, or at the total that the page   *)
(* told; a feed by cursor with a page that names no next one.               *)
BugEnds(r, p) == Len(p) <= FeedPage
Ends(r, p) ==
  LET total == Len(Listed(KeyOf(r), site))
  IN  IF src = "kagane" THEN Beyond(r) + Len(p) >= total
      ELSE Len(p) < FeedPage \/ Len(rows[r]) + FeedPage >= total

AskFor(r) ==
  /\ place[r] = "new"
  /\ \E q \in Queries :
       /\ query' = [query EXCEPT ![r] = q]
       /\ Reach(r, IF Declines(q) THEN "found" ELSE IF q.kind = "recent" THEN "poll" ELSE "seek")
  /\ UNCHANGED <<src, site, grown, enumerated, rows, since, last, answer>>

Hit(r) ==
  /\ place[r] = "seek" /\ enumerated[KeyOf(r)] # None
  /\ rows' = [rows EXCEPT ![r] = enumerated[KeyOf(r)].rows]
  /\ Reach(r, "found")
  /\ UNCHANGED <<src, site, grown, enumerated, query, since, last, answer>>

(* The first to miss walks; who comes meanwhile waits for its rows.         *)
Begin(r) ==
  /\ place[r] = "seek" /\ enumerated[KeyOf(r)] = None
  /\ \A o \in Searchers : place[o] \in {"walk", "rest"} => KeyOf(o) # KeyOf(r)
  /\ since' = [since EXCEPT ![r] = site]
  /\ Reach(r, "walk")
  /\ UNCHANGED <<src, site, grown, enumerated, query, rows, last, answer>>

Fill(r, s) ==
  /\ rows' = [rows EXCEPT ![r] = s]
  /\ since' = [since EXCEPT ![r] = <<>>] /\ last' = [last EXCEPT ![r] = 0]
  /\ enumerated' = [enumerated EXCEPT ![KeyOf(r)] = [rows |-> s, since |-> since[r]]]
  /\ Reach(r, "found")

(* Page after page. *)
Walk(r) ==
  /\ place[r] = "walk" /\ Paged /\ src # "mangafire"
  /\ LET p == PageBeyond(r) IN
       IF Ends(r, p)
       THEN Fill(r, rows[r] \o p)
       ELSE rows' = [rows EXCEPT ![r] = @ \o p] /\ UNCHANGED <<enumerated, place, since, last>>
  /\ UNCHANGED <<src, site, grown, query, answer>>

(* The first page of MangaFire tells how many there are, and the others are *)
(* fetched together.                                                        *)
FirstPage(r) ==
  /\ place[r] = "walk" /\ src = "mangafire"
  /\ LET f == Listed(KeyOf(r), site) IN
       IF Len(f) <= FeedPage
       THEN Fill(r, f)
       ELSE /\ last' = [last EXCEPT ![r] = (Len(f) + FeedPage - 1) \div FeedPage]
            /\ rows' = [rows EXCEPT ![r] = Cut(f, FeedPage)]
            /\ Reach(r, "rest") /\ UNCHANGED <<enumerated, since>>
  /\ UNCHANGED <<src, site, grown, query, answer>>
OtherPages(r) ==
  /\ place[r] = "rest"
  /\ Fill(r, rows[r] \o Past(Cut(Listed(KeyOf(r), site), last[r] * FeedPage), FeedPage))
  /\ UNCHANGED <<src, site, grown, query, answer>>

(* The whole list at once. *)
List(r) ==
  /\ place[r] = "walk" /\ ~Paged
  /\ Fill(r, Listed(KeyOf(r), site))
  /\ UNCHANGED <<src, site, grown, query, answer>>

(* A call to the site fails: the walk leaves nothing. *)
Fails(r) ==
  /\ place[r] \in {"walk", "rest", "poll"}
  /\ Reach(r, "failed") /\ query' = [query EXCEPT ![r] = None]
  /\ rows' = [rows EXCEPT ![r] = <<>>]
  /\ since' = [since EXCEPT ![r] = <<>>] /\ last' = [last EXCEPT ![r] = 0]
  /\ UNCHANGED <<src, site, grown, enumerated, answer>>

Polled(r) ==
  /\ place[r] = "poll"
  /\ rows' = [rows EXCEPT ![r] = RecentRows(query[r])]
  /\ Reach(r, "found")
  /\ UNCHANGED <<src, site, grown, enumerated, query, since, last, answer>>

(* The routes sort what the source returns and cut the page asked for.      *)
Window(q, s) ==
  LET sorted == NewestFirst(s)
  IN  IF q.kind = "recent" THEN Cut(sorted, Or50(q.limit))
      ELSE Cut(Past(sorted, q.offset), q.limit)
Answer(r) ==
  /\ place[r] = "found"
  /\ LET q == query[r]
         mine == IF Declines(q) \/ q.kind = "recent" THEN rows[r] ELSE SearchRows(q, rows[r])
     IN  answer' = [answer EXCEPT ![r] = Window(q, mine)]
  /\ Reach(r, "done") /\ rows' = [rows EXCEPT ![r] = <<>>]
  /\ UNCHANGED <<src, site, grown, enumerated, query, since, last>>

Expire(k) ==
  /\ enumerated[k] # None /\ enumerated' = [enumerated EXCEPT ![k] = None]
  /\ UNCHANGED <<src, site, grown, place, query, rows, since, last, answer>>

(* A chapter is published, not always the last by number, while a feed is   *)
(* walked (at other times it just is in the feed of the next walk).         *)
Publish(i) ==
  /\ grown < MaxGrowth /\ grown' = grown + 1
  /\ \E r \in Searchers : place[r] \in {"walk", "rest"}
  /\ site' = InsertAt(site, i, [num |-> IF i > Len(site) THEN Last(site).num + 1 ELSE site[i].num,
                                lang |-> SeriesLang, date |-> Today + grown, usable |-> TRUE])
  /\ UNCHANGED <<src, enumerated, place, query, rows, since, last, answer>>

SearchNext ==
  \/ \E r \in Searchers :
       AskFor(r) \/ Hit(r) \/ Begin(r) \/ Walk(r) \/ FirstPage(r) \/ OtherPages(r) \/ List(r) \/ Fails(r) \/ Polled(r) \/ Answer(r)
  \/ \E k \in SUBSET Langs : Expire(k)
  \/ \E i \in 1..(Len(site) + 1) : Publish(i)

SearchSpec == SearchInit /\ [][SearchNext]_searchVars

-----------------------------------------------------------------------------
(* What a search should answer from the site as it is: the window of all    *)
(* the chapters that match.                                                 *)
Asked(q) == IF q.langs = <<>> THEN [q EXCEPT !.langs = IF src = "mangadex" THEN <<"en">> ELSE <<>>] ELSE q
TheWindow(q) == Window(q, WantedOf(Asked(q), site))
Searched(r) == place[r] = "done" /\ query[r].kind = "search"

(* "Slicing the merged list instead means a given (offset, limit) returns   *)
(* the same window" (search): of the sources that list by date the first    *)
(* page is the newest that match, in the languages asked for, whoever       *)
(* filled the cache and for whichever chapter and languages; of MangaDex,   *)
(* which does not cut, every page is.                                       *)
PageIsTheWindow ==
  \A r \in Searchers :
    /\ Searched(r) /\ grown = 0 /\ src \in {"mangadex", "mangadot", "mangaball"}
    /\ query[r].offset = 0 \/ src = "mangadex"
    => answer[r] = TheWindow(query[r])

(* "the COMPLETE feed": chapters published while a feed is walked may be    *)
(* listed twice but never push one out of it.  (MangaFire, which asks for   *)
(* as many pages as the first one told, does lose its last.)                *)
FeedIsWhole ==
  \A k \in SUBSET Langs :
    enumerated[k] # None /\ src # "mangafire" => Range(Listed(k, enumerated[k].since)) \subseteq Range(enumerated[k].rows)

(* A release that a poll brings in given languages is one that a search in  *)
(* them finds; but for one without an id, which a poll of Comix can show    *)
(* and a search cannot.                                                     *)
RecentIsSearchable ==
  \A r \in Searchers :
    /\ place[r] = "done" /\ query[r].kind = "recent" /\ query[r].langs # <<>> /\ grown = 0
    => LET q == [query[r] EXCEPT !.kind = "search", !.chapter = 0, !.offset = 0, !.limit = Len(site)]
       IN  {c \in Range(answer[r]) : src # "comix" \/ c.usable}
             \subseteq Range(SearchRows(q, Listed(EnumKey(q), site)))

(* A search answers with what the site has, no more and no less. *)
SearchIsSound == PageIsTheWindow /\ FeedIsWhole /\ RecentIsSearchable

=============================================================================
