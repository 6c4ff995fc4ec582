------------------------------- MODULE Source -------------------------------
(* What SourceSearch and ChapterPages share: the source that is asked, which *)
(* does not change, and the filter that its lists go through.               *)
EXTENDS Naturals, Sequences

CONSTANTS
  Sources, \* the keys of the sources of this instance
  None

SourcesAssumption ==
  Sources \subseteq {"mangadex", "mangadot", "mangaball", "mangafire", "kagane", "atsumaru", "weebcentral", "projectsuki", "comix"}
ASSUME SourcesAssumption

VARIABLE src

(* [c for c in s if c in T] *)
Kept(s, T) ==
  LET kept[n \in 0..Len(s)] ==
        IF n = 0 THEN <<>> ELSE IF s[n] \in T THEN Append(kept[n - 1], s[n]) ELSE kept[n - 1]
  IN  kept[Len(s)]
=============================================================================
