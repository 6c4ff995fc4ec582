----------------------------- MODULE HandleStore -----------------------------
(***************************************************************************)
(* HandleStore (handles/store.py): the opaque download handles that a      *)
(* search mints and POST /downloads resolves.  A bounded TTL cache in      *)
(* memory answers for fresh handles; a table behind it, written by a task  *)
(* that mint schedules, carries them through evictions and restarts.       *)
(*                                                                         *)
(* Both tiers are read with one clock here (the code reads time.monotonic  *)
(* for the cache and time.time for the table).  An entry is represented by *)
(* the time it expires at; Never stands for no entry.                      *)
(***************************************************************************)
EXTENDS Integers, FiniteSets

CONSTANTS
  Handles,      \* the tokens that can be minted, each at most once (CSPRNG)
  Clients,      \* concurrent POST /downloads
  TTL,          \* settings.handle_ttl_seconds
  MaxSize,      \* settings.handle_maxsize
  MaxTime,      \* bound on the clock
  MaxRestarts   \* bound on the number of crashes and shutdowns

ASSUME HandlesAssumption ==
  /\ IsFiniteSet(Handles)
  /\ TTL \in Nat \ {0} /\ MaxSize \in Nat \ {0}
  /\ MaxTime \in Nat /\ MaxRestarts \in Nat

VARIABLES
  now,
  restarts,
  open,        \* the process is up
  minted,      \* when each handle was minted
  cache,       \* _cache: when each entry expires
  pending,     \* _pending: the handles whose persist is scheduled
  disk,        \* expires_at of each row
  lost,        \* history: the handles that were never made durable
  reader       \* where each resolve is

vars == <<now, restarts, open, minted, cache, pending, disk, lost, reader>>

Never == -1
Minted(h) == minted[h] # Never
BugExpiresAt(h) == 1000 * (minted[h] + TTL)  \* milliseconds
ExpiresAt(h) == minted[h] + TTL

\* A resolve remembers what its lookup in the table read, and (for the
\* properties only) whether the row was there when it began.
Idle == [at |-> "idle"]
Resolve == {Idle} \cup [at : {"select"}, handle : Handles, durable : BOOLEAN]
                  \cup [at : {"fetched", "prune"}, handle : Handles, durable : BOOLEAN,
                        row : Never..(MaxTime + TTL)]

Init ==
  /\ now = 0
  /\ restarts = 0
  /\ open = TRUE
  /\ minted = [h \in Handles |-> Never]
  /\ cache = [h \in Handles |-> Never]
  /\ pending = {}
  /\ disk = [h \in Handles |-> Never]
  /\ lost = {}
  /\ reader = [c \in Clients |-> Idle]

-----------------------------------------------------------------------------
Cached(h) == cache[h] > now
Entries == {h \in Handles : Cached(h)}

\* The entry that makes room: the least recently used one in the code, any here.
Evicted(others) ==
  IF Cardinality(others) < MaxSize THEN {{}} ELSE {{g} : g \in others}

\* TTLCache.__setitem__: h enters the cache for a whole TTL.
Stored(h) ==
  {[g \in Handles |-> IF g = h THEN now + TTL
                      ELSE IF Cached(g) /\ g \notin S THEN cache[g] ELSE Never] :
     S \in Evicted(Entries \ {h})}

\* mint: into the cache at once, and a task to persist the row.
Mint(h) ==
  /\ open /\ ~Minted(h)
  /\ minted' = [minted EXCEPT ![h] = now]
  /\ cache' \in Stored(h)
  /\ pending' = pending \cup {h}
  /\ UNCHANGED <<now, restarts, open, disk, lost, reader>>

\* _persist: INSERT and commit under the write lock.
Persist(h) ==
  /\ open /\ h \in pending
  /\ disk' = [disk EXCEPT ![h] = ExpiresAt(h)]
  /\ pending' = pending \ {h}
  /\ UNCHANGED <<now, restarts, open, minted, cache, lost, reader>>

\* A failed INSERT is logged: the handle lives in memory only.
PersistFails(h) ==
  /\ open /\ h \in pending
  /\ pending' = pending \ {h}
  /\ lost' = lost \cup {h}
  /\ UNCHANGED <<now, restarts, open, minted, cache, disk, reader>>

-----------------------------------------------------------------------------
\* resolve: a cached record is the answer and changes nothing; else the table is
\* asked.
Ask(c, h) ==
  /\ open /\ reader[c] = Idle /\ Minted(h)
  /\ ~Cached(h)
  /\ reader' = [reader EXCEPT ![c] =
       [at |-> "select", handle |-> h, durable |-> disk[h] # Never]]
  /\ UNCHANGED <<now, restarts, open, minted, cache, pending, disk, lost>>

\* The SELECT in the thread of the connection.
Select(c) ==
  /\ open /\ reader[c].at = "select"
  /\ reader' = [reader EXCEPT ![c] =
       [at |-> "fetched", handle |-> @.handle, durable |-> @.durable, row |-> disk[@.handle]]]
  /\ UNCHANGED <<now, restarts, open, minted, cache, pending, disk, lost>>

BugRowIsLive(c) == reader[c].row # Never  \* checked when it was selected
BugRowIsFresh(c) == reader[c].row > now + 1  \* off by one
RowIsLive(c) == reader[c].row > now

\* A live row is the answer, and enters the cache again.
Rewarm(c) ==
  /\ open /\ reader[c].at = "fetched" /\ RowIsLive(c)
  /\ cache' \in Stored(reader[c].handle)
  /\ reader' = [reader EXCEPT ![c] = Idle]
  /\ UNCHANGED <<now, restarts, open, minted, pending, disk, lost>>

\* No row: the handle is unknown.
Unknown(c) ==
  /\ open /\ reader[c].at = "fetched" /\ reader[c].row = Never
  /\ reader' = [reader EXCEPT ![c] = Idle]
  /\ UNCHANGED <<now, restarts, open, minted, cache, pending, disk, lost>>

\* An expired row is a miss, and is deleted.
Aged(c) ==
  /\ open /\ reader[c].at = "fetched" /\ reader[c].row # Never /\ ~RowIsLive(c)
  /\ reader' = [reader EXCEPT ![c].at = "prune"]
  /\ UNCHANGED <<now, restarts, open, minted, cache, pending, disk, lost>>

\* _prune_handle, whose failure is ignored.
Prune(c) ==
  /\ open /\ reader[c].at = "prune"
  /\ disk' \in {disk, [disk EXCEPT ![reader[c].handle] = Never]}
  /\ reader' = [reader EXCEPT ![c] = Idle]
  /\ UNCHANGED <<now, restarts, open, minted, cache, pending, lost>>

-----------------------------------------------------------------------------
ProcessEnds ==
  /\ restarts < MaxRestarts
  /\ restarts' = restarts + 1
  /\ open' = FALSE
  /\ cache' = [h \in Handles |-> Never]
  /\ reader' = [c \in Clients |-> Idle]
  /\ UNCHANGED <<now, minted, disk>>

\* close: the scheduled persists are awaited first.
Close ==
  /\ open /\ pending = {} /\ \A c \in Clients : reader[c] = Idle
  /\ ProcessEnds
  /\ UNCHANGED <<pending, lost>>

Crash ==
  /\ open
  /\ ProcessEnds
  /\ pending' = {}
  /\ lost' = lost \cup pending

\* The rows that rehydrate deletes, and the ones it loads.
BugOutdated == {h \in Handles : disk[h] > now}  \* the comparison swapped
Outdated == {h \in Handles : disk[h] # Never /\ disk[h] <= now}
Loaded == {h \in Handles : disk[h] > now} \ Outdated

\* open_handle_store: delete what has expired, load the rest for a whole TTL; of
\* more rows than the cache holds, some are dropped again.
Boot ==
  /\ ~open
  /\ open' = TRUE
  /\ disk' = [h \in Handles |-> IF h \in Outdated THEN Never ELSE disk[h]]
  /\ \E S \in SUBSET Loaded :
       /\ IF Cardinality(Loaded) <= MaxSize THEN S = Loaded ELSE Cardinality(S) = MaxSize
       /\ cache' = [h \in Handles |-> IF h \in S THEN now + TTL ELSE Never]
  /\ UNCHANGED <<now, restarts, minted, pending, lost, reader>>

Tick ==
  /\ now < MaxTime
  /\ now' = now + 1
  /\ UNCHANGED <<restarts, open, minted, cache, pending, disk, lost, reader>>

Next ==
  \/ \E h \in Handles : Mint(h) \/ Persist(h) \/ PersistFails(h)
  \/ \E c \in Clients, h \in Handles : Ask(c, h)
  \/ \E c \in Clients : Select(c) \/ Rewarm(c) \/ Unknown(c) \/ Aged(c) \/ Prune(c)
  \/ Close \/ Crash \/ Boot
  \/ Tick

Spec == Init /\ [][Next]_vars

-----------------------------------------------------------------------------
TypeOK ==
  /\ now \in 0..MaxTime
  /\ restarts \in 0..MaxRestarts
  /\ open \in BOOLEAN
  /\ minted \in [Handles -> Never..MaxTime]
  /\ cache \in [Handles -> Never..(MaxTime + TTL)]
  /\ pending \subseteq Handles
  /\ disk \in [Handles -> Never..(MaxTime + TTL)]
  /\ lost \subseteq Handles
  /\ reader \in [Clients -> Resolve]

\* Handles age out: whatever evictions, restarts and resolves bring a handle
\* back into the cache, it is gone two TTLs after it was minted.
AgesOut == \A h \in Handles : Cached(h) => now < minted[h] + 2 * TTL

\* An unexpired handle is in one of the tiers, or on its way to the table: it is
\* lost only if its persist failed or a crash came first.
StillResolvable ==
  \A h \in Handles :
    Minted(h) /\ now < ExpiresAt(h) /\ open =>
      Cached(h) \/ disk[h] # Never \/ h \in pending \/ h \in lost

\* A handle whose row was there when it was asked for is refused only when it
\* has expired, whoever prunes, restarts or evicts meanwhile.
RefusedIfExpired ==
  [][\A c \in Clients :
       reader[c] # Idle /\ reader'[c] = Idle /\ open' /\ reader[c].durable
         => cache'[reader[c].handle] > now \/ now >= ExpiresAt(reader[c].handle)]_vars

\* The cache never holds more than its bound.
CacheBounded == Cardinality(Entries) <= MaxSize
=============================================================================
