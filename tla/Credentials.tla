---------------------------- MODULE Credentials ----------------------------
(* The two kinds of credentials that the calls of one source share and mint *)
(* again when the source refuses them:                                      *)
(*                                                                          *)
(*   "csrf"  the PHPSESSID and token of CsrfBootstrap (session_prep.py),    *)
(*           refreshed by SourceContext after a 403 about the token;        *)
(*   "vrf"   the signer of MangaFire, built from a script of its site, and  *)
(*           built anew after a 403.                                        *)
(*                                                                          *)
(* A mint holds the lock of the source while it fetches.  Credentials are   *)
(* the number of their mint; the source may drop those minted so far.       *)
EXTENDS Naturals, Sequences, SequencesExt

CONSTANTS Calls, MaxMints, MaxDrops

ASSUME CredentialsAssumption == MaxMints \in Nat /\ MaxDrops \in Nat

VARIABLES
  kind,    \* of the source
  kept,    \* the credentials in the cache, 0 when there are none
  mints,   \* mints so far
  dropped, \* the source refuses credentials up to this one
  drops,
  at,      \* where each call is
  using,   \* what it carries
  stale,   \* what its refresh takes for stale
  refused, \* what it was refused with, 0 before
  lock     \* who holds the lock, then who waits

credentialsVars == <<kind, kept, mints, dropped, drops, at, using, stale, refused, lock>>
world == <<kind, dropped, drops>>

CredentialsInit ==
  /\ kind \in {"csrf", "vrf"} /\ kept = 0 /\ mints = 0 /\ dropped = 0 /\ drops = 0
  /\ at = [c \in Calls |-> "new"] /\ using = [c \in Calls |-> 0]
  /\ stale = [c \in Calls |-> 0] /\ refused = [c \in Calls |-> 0] /\ lock = <<>>

Goto(c, p) == at' = [at EXCEPT ![c] = p]
First(c)   == refused[c] = 0
Carry(c, n) == using' = [using EXCEPT ![c] = n]

(* The first request: the cache is looked at before the lock; the signer is *)
(* read under it.                                                           *)
Prepare(c) ==
  /\ at[c] = "new"
  /\ IF kind = "csrf" /\ kept # 0
     THEN Goto(c, "sent") /\ Carry(c, kept) /\ UNCHANGED lock
     ELSE Goto(c, "lock") /\ lock' = Append(lock, c) /\ UNCHANGED using
  /\ UNCHANGED <<world, kept, mints, stale, refused>>

(* What a refresh compares the cache with when it has the lock: the cached  *)
(* credentials as it asks for them, or the signer that the call used.       *)
BugStale(c) == kept
Stale(c) == IF kind = "csrf" THEN kept ELSE using[c]

(* A 403 of the first request asks for a refresh. *)
Refused(c) ==
  /\ at[c] = "sent" /\ First(c) /\ using[c] <= dropped
  /\ refused' = [refused EXCEPT ![c] = using[c]]
  /\ stale' = [stale EXCEPT ![c] = Stale(c)]
  /\ Goto(c, "lock") /\ lock' = Append(lock, c)
  /\ UNCHANGED <<world, kept, mints, using>>

(* Under the lock: what a peer has minted meanwhile is taken. *)
BugFresh(c) == kept # 0
Fresh(c) == kept # 0 /\ (First(c) \/ kept # stale[c])
Reuse(c) ==
  /\ at[c] = "lock" /\ Head(lock) = c /\ Fresh(c)
  /\ Carry(c, kept) /\ Goto(c, "sent") /\ lock' = Tail(lock)
  /\ UNCHANGED <<world, kept, mints, stale, refused>>
Acquire(c) ==
  /\ at[c] = "lock" /\ Head(lock) = c /\ ~Fresh(c) /\ mints < MaxMints
  /\ Goto(c, "mint")
  /\ UNCHANGED <<world, kept, mints, using, stale, refused, lock>>
Mints(c) ==
  /\ at[c] = "mint"
  /\ mints' = mints + 1 /\ kept' = mints' /\ Carry(c, mints')
  /\ Goto(c, "sent") /\ lock' = Tail(lock)
  /\ UNCHANGED <<world, stale, refused>>

(* A call is at most once in the lock. *)
Without(s, c) ==
  IF c \in ToSet(s) THEN RemoveAt(s, CHOOSE i \in DOMAIN s : s[i] = c) ELSE s

(* The page has no token, the script no function, or the fetch fails; or    *)
(* the call is cancelled where it stands.                                   *)
Gives(c) ==
  /\ at[c] \in {"lock", "mint", "sent"}
  /\ Goto(c, "failed") /\ lock' = Without(lock, c)
  /\ UNCHANGED <<world, kept, mints, using, stale, refused>>
Answered(c) ==
  /\ at[c] = "sent" /\ (using[c] > dropped \/ ~First(c))
  /\ Goto(c, "done")
  /\ UNCHANGED <<world, kept, mints, using, stale, refused, lock>>

(* A session ends, or the site ships a new script. *)
Drop ==
  /\ drops < MaxDrops /\ drops' = drops + 1 /\ dropped' = mints
  /\ UNCHANGED <<kind, kept, mints, at, using, stale, refused, lock>>

CredentialsNext ==
  \/ \E c \in Calls : Prepare(c) \/ Refused(c) \/ Reuse(c) \/ Acquire(c) \/ Mints(c) \/ Gives(c) \/ Answered(c)
  \/ Drop

CredentialsSpec == CredentialsInit /\ [][CredentialsNext]_credentialsVars

(* "covers a chunk build rotation": the one retry of a refused call never   *)
(* carries what it was refused with again, whoever minted meanwhile        *)
(* (prepare, _signed_get_json); and the signer is built again only while it *)
(* is the one that was refused, so a late 403 of the old one costs nothing. *)
RetryIsNewer ==
  \A c \in Calls :
    /\ at[c] = "sent" /\ ~First(c) => using[c] > refused[c]
    /\ kind = "vrf" /\ at[c] = "mint" => kept = refused[c]

=============================================================================
