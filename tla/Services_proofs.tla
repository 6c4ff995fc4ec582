--------------------------- MODULE Services_proofs ---------------------------
(* What TLAPS proves of the services that MCServices runs side by side: of  *)
(* HandleStore, for any handles, clients, TTL and bounds; of Credentials,   *)
(* for any calls, mints and drops; of Metrics, for any requests, events and *)
(* restarts; of ChapterPages, for any chapters, jobs, zones and numbers of  *)
(* pages; and of SourceSearch, for any sites, queries, page sizes, requests *)
(* and chapters published meanwhile.                                        *)
EXTENDS HandleStore, Credentials, Metrics, SourceSearch, ChapterPages,
  FiniteSetTheorems, SequenceTheorems, WellFoundedInduction, TLAPS

-----------------------------------------------------------------------------
(* The handles.                                                            *)


\* A row expires one TTL after its handle was minted, and only minted handles
\* have one or wait for one.
RowsAreMinted ==
  /\ \A h \in Handles : minted[h] <= now
  /\ \A h \in pending : Minted(h)
  /\ \A h \in Handles : disk[h] # Never => Minted(h) /\ disk[h] = ExpiresAt(h)

\* An entry of the cache was set while its handle had not expired.
EntriesAreMinted ==
  \A h \in Handles : cache[h] # Never => Minted(h) /\ cache[h] <= minted[h] + 2 * TTL

\* What a resolve has read is what the row of its handle was; one that prunes
\* has seen the handle expired.
ReadersAreMinted ==
  \A c \in Clients : reader[c] # Idle =>
    LET h == reader[c].handle IN
      /\ Minted(h)
      /\ reader[c].at # "select" /\ reader[c].row # Never => reader[c].row = ExpiresAt(h)
      /\ reader[c].at = "prune" => ExpiresAt(h) <= now

\* An unexpired handle is durable, about to be, or lost.
DurableUnlessLost ==
  \A h \in Handles :
    Minted(h) /\ now < ExpiresAt(h) => disk[h] # Never \/ h \in pending \/ h \in lost

\* A resolve whose handle had a row finds it, unless the handle has expired.
FindsItsRow ==
  \A c \in Clients : reader[c] # Idle /\ reader[c].durable =>
    LET h == reader[c].handle IN
      /\ reader[c].at = "select" => disk[h] # Never \/ now >= ExpiresAt(h)
      /\ reader[c].at = "fetched" /\ reader[c].row = Never => now >= ExpiresAt(h)

IInv ==
  /\ TypeOK
  /\ RowsAreMinted
  /\ EntriesAreMinted
  /\ ReadersAreMinted
  /\ DurableUnlessLost
  /\ FindsItsRow

LEMMA IInvInit == Init => IInv
  BY HandlesAssumption DEF Init, IInv, TypeOK, RowsAreMinted, EntriesAreMinted,
     ReadersAreMinted, DurableUnlessLost, FindsItsRow, Resolve, Idle, Minted, Never

-----------------------------------------------------------------------------
\* Where a resolve can be, and what it then carries.
LEMMA ReaderShape ==
  ASSUME TypeOK, NEW c \in Clients, reader[c] # Idle
  PROVE  /\ reader[c].at \in {"select", "fetched", "prune"}
         /\ reader[c].handle \in Handles
         /\ reader[c].durable \in BOOLEAN
         /\ reader[c].at # "select" => reader[c].row \in Never..(MaxTime + TTL)
  BY DEF TypeOK, Resolve

\* What enters the cache is there for a whole TTL; the others stay as they are
\* or go.
LEMMA StoredKeeps ==
  ASSUME TypeOK, NEW h \in Handles, cache' \in Stored(h)
  PROVE  /\ cache' \in [Handles -> Never..(MaxTime + TTL)]
         /\ cache'[h] = now + TTL
         /\ \A g \in Handles \ {h} : cache'[g] \in {cache[g], Never}
<1>1. PICK S \in Evicted(Entries \ {h}) :
        cache' = [g \in Handles |-> IF g = h THEN now + TTL
                  ELSE IF Cached(g) /\ g \notin S THEN cache[g] ELSE Never]
  BY DEF Stored
<1> QED BY <1>1, HandlesAssumption DEF TypeOK, Never

LEMMA MintKeeps == ASSUME IInv, NEW h \in Handles, Mint(h) PROVE IInv'
<1> USE HandlesAssumption DEF IInv, Mint, Minted, Never
<1>1. /\ cache' \in [Handles -> Never..(MaxTime + TTL)]
      /\ cache'[h] = now + TTL
      /\ \A g \in Handles \ {h} : cache'[g] \in {cache[g], Never}
  BY StoredKeeps
<1>2. TypeOK'
  <2>1. minted' \in [Handles -> Never..MaxTime]
    BY DEF TypeOK
  <2>2. pending' \subseteq Handles
    BY DEF TypeOK
  <2>3. reader' \in [Clients -> Resolve]
    BY DEF TypeOK
  <2> QED BY <1>1, <2>1, <2>2, <2>3 DEF TypeOK
<1>3. RowsAreMinted'
  BY DEF TypeOK, RowsAreMinted, ExpiresAt
<1>4. EntriesAreMinted'
  BY <1>1 DEF TypeOK, EntriesAreMinted
<1>5. ReadersAreMinted'
  BY ReaderShape DEF TypeOK, ReadersAreMinted, ExpiresAt
<1>6. DurableUnlessLost'
  BY DEF TypeOK, DurableUnlessLost, ExpiresAt
<1>7. FindsItsRow'
  BY ReaderShape DEF TypeOK, ReadersAreMinted, FindsItsRow, ExpiresAt
<1> QED BY <1>2, <1>3, <1>4, <1>5, <1>6, <1>7

LEMMA PersistKeeps ==
  ASSUME IInv, NEW h \in Handles, Persist(h) \/ PersistFails(h) PROVE IInv'
<1> USE HandlesAssumption DEF IInv, Persist, PersistFails, Minted, Never, ExpiresAt
<1>1. TypeOK'
  BY DEF TypeOK, RowsAreMinted
<1>2. RowsAreMinted'
  BY DEF TypeOK, RowsAreMinted
<1>3. EntriesAreMinted'
  BY DEF TypeOK, EntriesAreMinted
<1>4. ReadersAreMinted'
  BY ReaderShape DEF TypeOK, ReadersAreMinted
<1>5. DurableUnlessLost'
  BY DEF TypeOK, DurableUnlessLost
<1>6. FindsItsRow'
  BY ReaderShape DEF TypeOK, FindsItsRow, RowsAreMinted
<1> QED BY <1>1, <1>2, <1>3, <1>4, <1>5, <1>6

\* The steps of a resolve that leave both tiers alone.
LEMMA ReadKeeps ==
  ASSUME IInv, NEW c \in Clients,
         (\E h \in Handles : Ask(c, h)) \/ Select(c) \/ Unknown(c) \/ Aged(c)
  PROVE  IInv'
<1> USE HandlesAssumption DEF IInv, Minted, Never, ExpiresAt
<1>1. UNCHANGED <<now, restarts, open, minted, cache, pending, disk, lost>>
  BY DEF Ask, Select, Unknown, Aged
<1>2. /\ RowsAreMinted'
      /\ EntriesAreMinted'
      /\ DurableUnlessLost'
  BY <1>1 DEF RowsAreMinted, EntriesAreMinted, DurableUnlessLost
<1>3. CASE \E h \in Handles : Ask(c, h)
  <2>1. PICK h \in Handles : Ask(c, h)
    BY <1>3
  <2>2. reader' = [reader EXCEPT ![c] =
                    [at |-> "select", handle |-> h, durable |-> disk[h] # Never]]
    BY <2>1 DEF Ask
  <2>3. TypeOK'
    BY <1>1, <2>2 DEF TypeOK, Resolve
  <2>4. ReadersAreMinted'
    BY <1>1, <2>1, <2>2 DEF TypeOK, ReadersAreMinted, Ask
  <2>5. FindsItsRow'
    BY <1>1, <2>2 DEF TypeOK, FindsItsRow
  <2> QED BY <1>2, <2>3, <2>4, <2>5
<1>4. CASE Select(c)
  <2>1. reader[c] # Idle /\ reader[c].at = "select"
    BY <1>4 DEF Select, Idle
  <2>2. reader[c].handle \in Handles /\ reader[c].durable \in BOOLEAN
    BY <2>1, ReaderShape
  <2>3. reader' = [reader EXCEPT ![c] =
                    [at |-> "fetched", handle |-> reader[c].handle,
                     durable |-> reader[c].durable, row |-> disk[reader[c].handle]]]
    BY <1>4 DEF Select
  <2>4. TypeOK'
    BY <1>1, <2>2, <2>3 DEF TypeOK, Resolve
  <2>5. ReadersAreMinted'
    BY <1>1, <2>1, <2>2, <2>3 DEF TypeOK, ReadersAreMinted, RowsAreMinted
  <2>6. FindsItsRow'
    BY <1>1, <2>1, <2>2, <2>3 DEF TypeOK, FindsItsRow
  <2> QED BY <1>2, <2>4, <2>5, <2>6
<1>5. CASE Unknown(c)
  <2>1. reader' = [reader EXCEPT ![c] = Idle]
    BY <1>5 DEF Unknown
  <2> QED BY <1>1, <1>2, <2>1 DEF TypeOK, Resolve, ReadersAreMinted, FindsItsRow
<1>6. CASE Aged(c)
  <2>1. /\ reader[c] # Idle /\ reader[c].at = "fetched"
        /\ reader[c].row # Never /\ ~RowIsLive(c)
    BY <1>6 DEF Aged, Idle
  <2>2. /\ reader[c].handle \in Handles /\ reader[c].durable \in BOOLEAN
        /\ reader[c].row \in Never..(MaxTime + TTL)
    BY <2>1, ReaderShape
  <2>3. reader' = [reader EXCEPT ![c] =
                    [at |-> "prune", handle |-> reader[c].handle,
                     durable |-> reader[c].durable, row |-> reader[c].row]]
    <3>1. reader[c] \in [at : {"fetched", "prune"}, handle : Handles, durable : BOOLEAN,
                         row : Never..(MaxTime + TTL)]
      BY <2>1 DEF TypeOK, Resolve
    <3>2. [reader[c] EXCEPT !.at = "prune"]
            = [at |-> "prune", handle |-> reader[c].handle,
               durable |-> reader[c].durable, row |-> reader[c].row]
      BY <3>1
    <3> QED BY <1>6, <3>2 DEF Aged
  <2>4. TypeOK'
    BY <1>1, <2>2, <2>3 DEF TypeOK, Resolve
  <2>5. ReadersAreMinted'
    BY <1>1, <2>1, <2>2, <2>3 DEF TypeOK, ReadersAreMinted, RowIsLive
  <2>6. FindsItsRow'
    BY <1>1, <2>1, <2>2, <2>3 DEF TypeOK, FindsItsRow
  <2> QED BY <1>2, <2>4, <2>5, <2>6
<1> QED BY <1>3, <1>4, <1>5, <1>6

LEMMA RewarmKeeps == ASSUME IInv, NEW c \in Clients, Rewarm(c) PROVE IInv'
<1> USE HandlesAssumption DEF IInv, Minted, Never, ExpiresAt
<1> DEFINE h == reader[c].handle
<1>1. /\ reader[c] # Idle /\ reader[c].at = "fetched"
      /\ RowIsLive(c) /\ cache' \in Stored(h)
      /\ reader' = [reader EXCEPT ![c] = Idle]
      /\ UNCHANGED <<now, restarts, open, minted, pending, disk, lost>>
  BY DEF Rewarm, Idle
<1>2. h \in Handles /\ reader[c].row \in Never..(MaxTime + TTL)
  BY <1>1, ReaderShape
<1>3. /\ cache' \in [Handles -> Never..(MaxTime + TTL)]
      /\ cache'[h] = now + TTL
      /\ \A g \in Handles \ {h} : cache'[g] \in {cache[g], Never}
  BY <1>1, <1>2, StoredKeeps
<1>4. Minted(h) /\ now < minted[h] + TTL
  BY <1>1, <1>2 DEF TypeOK, ReadersAreMinted, RowIsLive
<1>5. TypeOK'
  BY <1>1, <1>3 DEF TypeOK, Resolve
<1>6. EntriesAreMinted'
  BY <1>1, <1>2, <1>3, <1>4 DEF TypeOK, EntriesAreMinted
<1>7. /\ RowsAreMinted'
      /\ DurableUnlessLost'
  BY <1>1 DEF RowsAreMinted, DurableUnlessLost
<1>8. /\ ReadersAreMinted'
      /\ FindsItsRow'
  BY <1>1 DEF TypeOK, ReadersAreMinted, FindsItsRow
<1> QED BY <1>5, <1>6, <1>7, <1>8

LEMMA PruneKeeps == ASSUME IInv, NEW c \in Clients, Prune(c) PROVE IInv'
<1> USE HandlesAssumption DEF IInv, Minted, Never, ExpiresAt
<1> DEFINE h == reader[c].handle
<1>1. /\ reader[c] # Idle /\ reader[c].at = "prune"
      /\ disk' \in {disk, [disk EXCEPT ![h] = Never]}
      /\ reader' = [reader EXCEPT ![c] = Idle]
      /\ UNCHANGED <<now, restarts, open, minted, cache, pending, lost>>
  BY DEF Prune, Idle
<1>2. h \in Handles
  BY <1>1, ReaderShape
<1>3. minted[h] + TTL <= now
  BY <1>1 DEF ReadersAreMinted
<1>4. TypeOK'
  BY <1>1, <1>2 DEF TypeOK, Resolve
<1>5. /\ RowsAreMinted'
      /\ EntriesAreMinted'
      /\ ReadersAreMinted'
  BY <1>1, <1>2 DEF TypeOK, RowsAreMinted, EntriesAreMinted, ReadersAreMinted
<1>6. DurableUnlessLost'
  BY <1>1, <1>2, <1>3 DEF TypeOK, DurableUnlessLost
<1>7. FindsItsRow'
  BY <1>1, <1>2, <1>3, ReaderShape DEF TypeOK, FindsItsRow
<1> QED BY <1>4, <1>5, <1>6, <1>7

LEMMA EndsKeeps == ASSUME IInv, Close \/ Crash PROVE IInv'
<1> USE HandlesAssumption DEF IInv, Minted, Never, ExpiresAt, ProcessEnds
<1>1. /\ cache' = [h \in Handles |-> Never]
      /\ reader' = [c \in Clients |-> Idle]
      /\ UNCHANGED <<now, minted, disk>>
      /\ restarts < MaxRestarts /\ restarts' = restarts + 1 /\ open' = FALSE
      /\ pending' \subseteq pending /\ lost' \in SUBSET (lost \cup pending)
      /\ pending \cup lost \subseteq pending' \cup lost'
  BY DEF Close, Crash
<1>2. TypeOK'
  <2>1. reader' \in [Clients -> Resolve]
    BY <1>1 DEF Resolve
  <2>2. cache' \in [Handles -> Never..(MaxTime + TTL)] /\ restarts' \in 0..MaxRestarts
    BY <1>1 DEF TypeOK
  <2>3. pending' \subseteq Handles /\ lost' \subseteq Handles
    BY <1>1 DEF TypeOK
  <2> QED BY <1>1, <2>1, <2>2, <2>3 DEF TypeOK
<1>3. /\ RowsAreMinted'
      /\ EntriesAreMinted'
      /\ DurableUnlessLost'
  BY <1>1 DEF TypeOK, RowsAreMinted, EntriesAreMinted, DurableUnlessLost
<1>4. /\ ReadersAreMinted'
      /\ FindsItsRow'
  BY <1>1 DEF TypeOK, ReadersAreMinted, FindsItsRow
<1> QED BY <1>2, <1>3, <1>4

LEMMA BootKeeps == ASSUME IInv, Boot PROVE IInv'
<1> USE HandlesAssumption DEF IInv, Boot, Minted, Never, ExpiresAt, Outdated, Loaded
<1>1. PICK S \in SUBSET Loaded : cache' = [h \in Handles |-> IF h \in S THEN now + TTL ELSE Never]
  OBVIOUS
<1>2. TypeOK'
  BY <1>1 DEF TypeOK
<1>3. RowsAreMinted'
  BY DEF TypeOK, RowsAreMinted
<1>4. EntriesAreMinted'
  BY <1>1 DEF TypeOK, RowsAreMinted, EntriesAreMinted
<1>5. ReadersAreMinted'
  BY DEF TypeOK, ReadersAreMinted
<1>6. DurableUnlessLost'
  BY DEF TypeOK, RowsAreMinted, DurableUnlessLost
<1>7. FindsItsRow'
  BY ReaderShape DEF TypeOK, RowsAreMinted, ReadersAreMinted, FindsItsRow
<1> QED BY <1>2, <1>3, <1>4, <1>5, <1>6, <1>7

LEMMA TickKeeps == ASSUME IInv, Tick PROVE IInv'
  BY HandlesAssumption, ReaderShape DEF IInv, Tick, Minted, Never, ExpiresAt, TypeOK, RowsAreMinted,
     EntriesAreMinted, ReadersAreMinted, DurableUnlessLost, FindsItsRow

LEMMA IInvStep == IInv /\ [Next]_vars => IInv'
<1> SUFFICES ASSUME IInv, [Next]_vars PROVE IInv'
  OBVIOUS
<1>1. CASE UNCHANGED vars
  BY <1>1 DEF vars, IInv, TypeOK, RowsAreMinted, EntriesAreMinted, ReadersAreMinted,
     DurableUnlessLost, FindsItsRow, Minted, ExpiresAt
<1> QED
  BY <1>1, MintKeeps, PersistKeeps, ReadKeeps, RewarmKeeps, PruneKeeps, EndsKeeps,
     BootKeeps, TickKeeps DEF Next

\* The inductive invariant of the store.
THEOREM Inductive == Spec => []IInv
<1>1. Init => IInv
  BY IInvInit
<1>2. IInv /\ [Next]_vars => IInv'
  BY IInvStep
<1> QED BY <1>1, <1>2, PTL DEF Spec

\* handles/store.py: every variable of the store keeps its type.
THEOREM TypeCorrect == Spec => []TypeOK
<1>1. IInv => TypeOK
  BY DEF IInv
<1> QED BY <1>1, Inductive, PTL

\* handles/store.py: a handle is gone two TTLs after it was minted, whatever
\* evictions, restarts and resolves bring it back into the cache.
THEOREM HandlesAgeOut == Spec => []AgesOut
<1>1. IInv => AgesOut
  BY HandlesAssumption DEF IInv, TypeOK, EntriesAreMinted, AgesOut, Cached, Never
<1> QED BY <1>1, Inductive, PTL

\* handles/store.py: no interleaving of persists, resolves, prunes and restarts
\* loses an unexpired handle: only a failed persist or a crash before it does.
THEOREM NothingIsLost == Spec => []StillResolvable
<1>1. IInv => StillResolvable
  BY DEF IInv, DurableUnlessLost, StillResolvable
<1> QED BY <1>1, Inductive, PTL

\* handles/store.py: a resolve refuses a handle that had a row only when the
\* handle has expired, whoever prunes, restarts or evicts meanwhile.
THEOREM RefusalsAreRight == Spec => RefusedIfExpired
<1> DEFINE Right(c) ==
      reader[c] # Idle /\ reader'[c] = Idle /\ open' /\ reader[c].durable
        => cache'[reader[c].handle] > now \/ now >= ExpiresAt(reader[c].handle)
<1>1. IInv /\ [Next]_vars => [\A c \in Clients : Right(c)]_vars
  <2> SUFFICES ASSUME IInv, Next, NEW c \in Clients,
                      reader[c] # Idle, reader'[c] = Idle, open', reader[c].durable
               PROVE  cache'[reader[c].handle] > now \/ now >= ExpiresAt(reader[c].handle)
    BY DEF vars
  <2>1. reader' # reader /\ (Rewarm(c) \/ Unknown(c) \/ Prune(c))
    <3>1. CASE \E d \in Clients : Select(d) \/ Rewarm(d) \/ Unknown(d) \/ Aged(d) \/ Prune(d)
      <4>1. PICK d \in Clients : Select(d) \/ Rewarm(d) \/ Unknown(d) \/ Aged(d) \/ Prune(d)
        BY <3>1
      <4>2. d = c
        <5>1. SUFFICES ASSUME d # c PROVE FALSE
          OBVIOUS
        <5>2. reader \in [Clients -> Resolve]
          BY DEF IInv, TypeOK
        <5>3. CASE Select(d) \/ Rewarm(d) \/ Unknown(d) \/ Prune(d)
          BY <5>1, <5>2, <5>3 DEF Select, Rewarm, Unknown, Prune
        <5>4. CASE Aged(d)
          BY <5>1, <5>2, <5>4 DEF Aged
        <5> QED BY <4>1, <5>3, <5>4
      <4>3. ~Select(c)
        <5>1. SUFFICES ASSUME Select(c) PROVE FALSE
          OBVIOUS
        <5>2. reader'[c].at = "fetched"
          BY <5>1 DEF Select, IInv, TypeOK
        <5> QED BY <5>2 DEF Idle
      <4>4. ~Aged(c)
        <5>1. SUFFICES ASSUME Aged(c) PROVE FALSE
          OBVIOUS
        <5>2. reader[c] \in [at : {"fetched", "prune"}, handle : Handles, durable : BOOLEAN,
                             row : Never..(MaxTime + TTL)]
          BY <5>1 DEF Aged, IInv, TypeOK, Resolve, Idle
        <5>3. [reader[c] EXCEPT !.at = "prune"] # Idle
          BY <5>2 DEF Idle
        <5>4. reader'[c] = [reader[c] EXCEPT !.at = "prune"]
          BY <5>1 DEF Aged, IInv, TypeOK
        <5> QED BY <5>3, <5>4
      <4> QED BY <4>1, <4>2, <4>3, <4>4
    <3>2. CASE \E d \in Clients, h \in Handles : Ask(d, h)
      BY <3>2 DEF Ask, IInv, TypeOK, Idle
    <3>3. CASE ~\E d \in Clients : Select(d) \/ Rewarm(d) \/ Unknown(d) \/ Aged(d) \/ Prune(d)
      <4>1. CASE Close \/ Crash
        BY <4>1 DEF Close, Crash, ProcessEnds
      <4>2. CASE \E h \in Handles : Mint(h) \/ Persist(h) \/ PersistFails(h)
        BY <4>2 DEF Mint, Persist, PersistFails
      <4>3. CASE Boot \/ Tick
        BY <4>3 DEF Boot, Tick
      <4> QED BY <3>2, <3>3, <4>1, <4>2, <4>3 DEF Next
    <3> QED BY <3>1, <3>3
  <2>2. CASE Rewarm(c)
    <3>1. reader[c].handle \in Handles
      BY ReaderShape DEF IInv
    <3>2. cache'[reader[c].handle] = now + TTL
      BY <2>2, <3>1, StoredKeeps DEF Rewarm, IInv
    <3> QED BY <3>2, HandlesAssumption DEF IInv, TypeOK
  <2>3. CASE Unknown(c)
    BY <2>3 DEF Unknown, IInv, FindsItsRow, Idle
  <2>4. CASE Prune(c)
    <3>1. reader[c].handle \in Handles /\ ExpiresAt(reader[c].handle) <= now
      BY <2>4, ReaderShape DEF Prune, IInv, ReadersAreMinted
    <3> QED BY <3>1, HandlesAssumption DEF IInv, TypeOK, ExpiresAt, Never
  <2> QED BY <2>1, <2>2, <2>3, <2>4
<1> QED BY <1>1, Inductive, PTL DEF Spec, RefusedIfExpired

-----------------------------------------------------------------------------
\* A store makes room before it adds: the entries stay within the bound.
LEMMA StoredFits ==
  ASSUME TypeOK, CacheBounded, NEW h \in Handles, cache' \in Stored(h), now' = now
  PROVE  CacheBounded'
<1> DEFINE others == Entries \ {h}
<1>1. PICK S \in Evicted(others) :
        cache' = [g \in Handles |-> IF g = h THEN now + TTL
                  ELSE IF Cached(g) /\ g \notin S THEN cache[g] ELSE Never]
  BY DEF Stored
<1>2. Entries' = (others \ S) \cup {h}
  BY <1>1, HandlesAssumption DEF Entries, Cached, TypeOK, Never
<1>3. /\ IsFiniteSet(Entries) /\ IsFiniteSet(others)
      /\ Cardinality(others) <= Cardinality(Entries)
      /\ Cardinality(others) \in Nat /\ Cardinality(Entries) \in Nat
  BY HandlesAssumption, FS_Subset, FS_CardinalityType DEF Entries
<1>4. IsFiniteSet(others \ S) /\ Cardinality(others \ S) \in Nat
  BY <1>3, FS_Subset, FS_CardinalityType
<1>5. Cardinality(Entries') = Cardinality(others \ S) + 1
  BY <1>2, <1>4, FS_AddElement
<1>6. CASE Cardinality(others) < MaxSize
  <2>1. S = {}
    BY <1>6 DEF Evicted
  <2> QED BY <1>3, <1>5, <1>6, <2>1, HandlesAssumption DEF CacheBounded
<1>7. CASE ~(Cardinality(others) < MaxSize)
  <2>1. PICK g \in others : S = {g}
    BY <1>7 DEF Evicted
  <2>2. Cardinality(others \ S) = Cardinality(others) - 1
    BY <1>3, <2>1, FS_RemoveElement
  <2> QED BY <1>3, <1>5, <2>2, HandlesAssumption DEF CacheBounded
<1> QED BY <1>6, <1>7

\* What leaves the cache makes it smaller.
LEMMA FewerFit ==
  ASSUME CacheBounded, Entries' \subseteq Entries PROVE CacheBounded'
<1>1. IsFiniteSet(Entries)
  BY HandlesAssumption, FS_Subset DEF Entries
<1>2. /\ Cardinality(Entries') <= Cardinality(Entries)
      /\ Cardinality(Entries) \in Nat /\ Cardinality(Entries') \in Nat
  BY <1>1, FS_Subset, FS_CardinalityType
<1> QED BY <1>2, HandlesAssumption DEF CacheBounded

\* handles/store.py: mints, resolves and restarts never take the cache beyond
\* its maxsize.
THEOREM MemoryIsBounded == Spec => []CacheBounded
<1>1. Init => CacheBounded
  <2>1. SUFFICES ASSUME Init PROVE CacheBounded
    OBVIOUS
  <2>2. Entries = {}
    BY <2>1 DEF Init, Entries, Cached, Never
  <2> QED BY <2>2, FS_EmptySet, HandlesAssumption DEF CacheBounded
<1>2. IInv /\ CacheBounded /\ [Next]_vars => CacheBounded'
  <2> SUFFICES ASSUME IInv, CacheBounded, [Next]_vars PROVE CacheBounded'
    OBVIOUS
  <2>1. CASE \E h \in Handles : Mint(h)
    BY <2>1, StoredFits DEF Mint, IInv
  <2>2. CASE \E c \in Clients : Rewarm(c)
    <3>1. PICK c \in Clients : Rewarm(c)
      BY <2>2
    <3>2. reader[c].handle \in Handles
      BY <3>1, ReaderShape DEF Rewarm, Idle, IInv
    <3> QED BY <3>1, <3>2, StoredFits DEF Rewarm, IInv
  <2>3. CASE Boot
    <3>1. PICK S \in SUBSET Loaded :
            /\ IF Cardinality(Loaded) <= MaxSize THEN S = Loaded ELSE Cardinality(S) = MaxSize
            /\ cache' = [h \in Handles |-> IF h \in S THEN now + TTL ELSE Never]
      BY <2>3 DEF Boot
    <3>2. Entries' = S
      BY <2>3, <3>1, HandlesAssumption DEF Boot, Entries, Cached, Loaded, IInv, TypeOK, Never
    <3> QED BY <3>1, <3>2, HandlesAssumption DEF CacheBounded
  <2>4. CASE Close \/ Crash
    <3>1. Entries' \subseteq Entries
      BY <2>4 DEF Close, Crash, ProcessEnds, Entries, Cached, Never, IInv, TypeOK
    <3> QED BY <3>1, FewerFit
  <2>5. CASE Tick
    <3>1. Entries' \subseteq Entries
      BY <2>5, HandlesAssumption DEF Tick, Entries, Cached, Never, IInv, TypeOK
    <3> QED BY <3>1, FewerFit
  <2>6. CASE UNCHANGED <<now, cache>>
    BY <2>6 DEF CacheBounded, Entries, Cached
  <2>7. \/ UNCHANGED <<now, cache>> \/ Boot \/ Close \/ Crash \/ Tick
        \/ \E h \in Handles : Mint(h)
        \/ \E c \in Clients : Rewarm(c)
    BY DEF Next, vars, Persist, PersistFails, Ask, Select, Unknown, Aged, Prune
  <2> QED BY <2>1, <2>2, <2>3, <2>4, <2>5, <2>6, <2>7
<1> QED BY <1>1, <1>2, Inductive, PTL DEF Spec

-----------------------------------------------------------------------------
(* The credentials of a source.                                            *)

\* Who leaves the lock leaves the others in it, and its holder in front.
LEMMA LeavesLock ==
  ASSUME NEW S, NEW s \in Seq(S), NEW e
  PROVE  /\ Without(s, e) \in Seq(S)
         /\ \A d \in ToSet(s) : d # e => d \in ToSet(Without(s, e))
         /\ s # <<>> /\ s[1] # e => Without(s, e) # <<>> /\ Without(s, e)[1] = s[1]
<1>1. CASE e \notin ToSet(s)
  BY <1>1 DEF Without
<1>2. CASE e \in ToSet(s)
  <2> DEFINE i == CHOOSE n \in DOMAIN s : s[n] = e
             a == SubSeq(s, 1, i - 1)
             b == SubSeq(s, i + 1, Len(s))
             u == a \o b
  <2>1. i \in DOMAIN s /\ s[i] = e
    BY <1>2 DEF ToSet
  <2>2. i \in 1..Len(s) /\ Len(s) \in Nat /\ DOMAIN s = 1..Len(s)
    BY <2>1
  <2>3. Without(s, e) = u
    BY <1>2 DEF Without, RemoveAt
  <2> HIDE DEF i
  <2>4. /\ a \in Seq(S) /\ Len(a) = i - 1 /\ \A n \in 1..(i - 1) : a[n] = s[n]
        /\ b \in Seq(S)
    BY <2>2
  <2>9. Len(b) = Len(s) - i
    <3>1. i + 1 \in Int /\ Len(s) \in Int /\ \A n \in (i + 1)..Len(s) : s[n] \in S
      BY <2>2
    <3>2. Len(b) = IF i + 1 <= Len(s) THEN Len(s) - (i + 1) + 1 ELSE 0
      BY <3>1, SubSeqProperties
    <3> HIDE DEF a, b, u
    <3>3. i \in Nat /\ Len(s) \in Nat /\ i <= Len(s)
      BY <2>2
    <3>4. CASE i = Len(s)
      <4>1. ~(i + 1 <= Len(s)) /\ Len(s) - i = 0
        BY <3>3, <3>4
      <4> QED BY <3>2, <4>1
    <3>5. CASE i # Len(s)
      <4>1. i + 1 <= Len(s) /\ Len(s) - (i + 1) + 1 = Len(s) - i
        BY <3>3, <3>5
      <4> QED BY <3>2, <4>1
    <3> QED BY <3>4, <3>5
  <2>10. \A n \in 1..(Len(s) - i) : b[n] = s[n + i]
    <3>1. TAKE n \in 1..(Len(s) - i)
    <3>2. n \in 1..(Len(s) - (i + 1) + 1) /\ (i + 1) + n - 1 = n + i
      BY <2>2
    <3> QED BY <2>2, <3>2
  <2> HIDE DEF a, b
  <2>5. /\ u \in Seq(S) /\ DOMAIN u = 1..(Len(s) - 1)
        /\ \A n \in 1..(i - 1) : u[n] = a[n]
        /\ \A n \in 1..(Len(s) - i) : u[n + (i - 1)] = b[n]
    <3>1. u \in Seq(S)
      BY <2>4
    <3>2. Len(u) = Len(s) - 1
      <4>1. Len(u) = Len(a) + Len(b)
        BY <2>4, ConcatProperties
      <4>2. (i - 1) + (Len(s) - i) = Len(s) - 1
        BY <2>2
      <4> QED BY <2>4, <2>9, <4>1, <4>2
    <3>3. DOMAIN u = 1..(Len(s) - 1)
      BY <3>1, <3>2
    <3>4. ASSUME NEW n \in 1..(i - 1) PROVE u[n] = a[n]
      BY <2>2, <2>4
    <3>5. ASSUME NEW n \in 1..(Len(s) - i) PROVE u[n + (i - 1)] = b[n]
      <4>1. n + (i - 1) \in 1..(Len(a) + Len(b)) /\ n + (i - 1) > Len(a) /\ n + (i - 1) - Len(a) = n
        BY <2>2, <2>4, <2>9
      <4> QED BY <2>4, <4>1
    <3> QED BY <3>1, <3>3, <3>4, <3>5
  <2> HIDE DEF u
  <2>6. ASSUME NEW n \in DOMAIN s, s[n] # e PROVE s[n] \in ToSet(u)
    <3>1. CASE n \in 1..(i - 1)
      <4>1. n \in DOMAIN u /\ u[n] = s[n]
        BY <2>2, <2>4, <2>5, <3>1
      <4> QED BY <4>1 DEF ToSet
    <3>2. CASE n \notin 1..(i - 1)
      <4>1. n - i \in 1..(Len(s) - i) /\ (n - i) + i = n /\ (n - i) + (i - 1) = n - 1
        BY <2>1, <2>2, <2>6, <3>2
      <4>2. n - 1 \in DOMAIN u /\ u[n - 1] = s[n]
        <5>1. n - 1 \in 1..(Len(s) - 1)
          BY <2>1, <2>2, <4>1
        <5>2. u[n - 1] = b[n - i] /\ b[n - i] = s[n]
          BY <2>5, <2>10, <4>1
        <5> QED BY <2>5, <5>1, <5>2
      <4> QED BY <4>2 DEF ToSet
    <3> QED BY <3>1, <3>2
  <2>7. \A d \in ToSet(s) : d # e => d \in ToSet(u)
    BY <2>6 DEF ToSet
  <2>8. ASSUME s # <<>>, s[1] # e PROVE u # <<>> /\ u[1] = s[1]
    <3>1. 1 \in 1..(i - 1) /\ 1 \in DOMAIN u
      BY <2>1, <2>2, <2>5, <2>8
    <3> QED BY <2>4, <2>5, <3>1
  <2> QED BY <2>3, <2>5, <2>7, <2>8
<1> QED BY <1>1, <1>2

CredentialsTypeOK ==
  /\ kind \in {"csrf", "vrf"} /\ kept \in Nat /\ mints \in Nat /\ dropped \in Nat /\ drops \in Nat
  /\ at \in [Calls -> {"new", "lock", "mint", "sent", "done", "failed"}]
  /\ using \in [Calls -> Nat] /\ stale \in [Calls -> Nat] /\ refused \in [Calls -> Nat]
  /\ lock \in Seq(Calls)

\* Who waits is in the lock, and who mints has it.
LockIsTheirs ==
  \A d \in Calls :
    /\ at[d] \in {"lock", "mint"} => d \in ToSet(lock)
    /\ at[d] = "mint" => lock[1] = d

\* What is kept is the last mint, and what anybody has is that or older.
OldestFirst ==
  /\ kept = mints
  /\ \A d \in Calls : using[d] <= mints /\ stale[d] <= mints /\ refused[d] <= mints

\* A new call was refused nothing; a refresh takes for stale what its call was
\* refused with, or something newer.
StaleIsRefused ==
  \A d \in Calls : ~First(d) =>
    /\ at[d] # "new" /\ stale[d] >= refused[d]
    /\ kind = "vrf" => stale[d] = refused[d]

CInv == CredentialsTypeOK /\ LockIsTheirs /\ OldestFirst /\ StaleIsRefused /\ RetryIsNewer

\* The holder of the lock is at its head, and whoever gives it up leaves the others.
LEMMA Holder ==
  ASSUME CredentialsTypeOK, LockIsTheirs, NEW d \in Calls, at[d] \in {"lock", "mint"}
  PROVE  /\ lock # <<>> /\ Head(lock) = lock[1]
         /\ Tail(lock) \in Seq(Calls)
         /\ \A e \in ToSet(lock) : e # lock[1] => e \in ToSet(Tail(lock))
<1>1. lock \in Seq(Calls) /\ d \in ToSet(lock)
  BY DEF CredentialsTypeOK, LockIsTheirs
<1>2. lock # <<>>
  BY <1>1 DEF ToSet
<1>3. Head(lock) = lock[1] /\ Tail(lock) \in Seq(Calls)
  BY <1>1, <1>2
<1>4. ASSUME NEW e \in ToSet(lock), e # lock[1] PROVE e \in ToSet(Tail(lock))
  <2>1. PICK n \in 1..Len(lock) : lock[n] = e /\ n # 1
    BY <1>1, <1>4 DEF ToSet
  <2>2. n - 1 \in 1..(Len(lock) - 1) /\ (n - 1) + 1 = n /\ DOMAIN Tail(lock) = 1..(Len(lock) - 1)
    BY <1>1, <1>2, <2>1
  <2>3. Tail(lock)[n - 1] = e
    BY <1>1, <1>2, <2>1, <2>2
  <2> QED BY <2>2, <2>3 DEF ToSet
<1> QED BY <1>2, <1>3, <1>4

\* Who asks for the lock comes behind the others.
LEMMA Enters ==
  ASSUME CredentialsTypeOK, NEW c \in Calls
  PROVE  /\ Append(lock, c) \in Seq(Calls) /\ c \in ToSet(Append(lock, c))
         /\ \A d \in ToSet(lock) : d \in ToSet(Append(lock, c)) /\ Append(lock, c)[1] = lock[1]
<1> DEFINE u == Append(lock, c)
<1>1. /\ u \in Seq(Calls) /\ Len(lock) \in Nat /\ DOMAIN lock = 1..Len(lock)
      /\ DOMAIN u = 1..(Len(lock) + 1) /\ u[Len(lock) + 1] = c
      /\ \A n \in 1..Len(lock) : u[n] = lock[n]
  BY DEF CredentialsTypeOK
<1> HIDE DEF u
<1>2. \A d \in ToSet(lock) : d \in ToSet(u) /\ u[1] = lock[1]
  BY <1>1 DEF ToSet
<1>3. c \in ToSet(u)
  BY <1>1 DEF ToSet
<1> QED BY <1>1, <1>2, <1>3 DEF u

LEMMA PrepareKeeps == ASSUME CInv, NEW c \in Calls, Prepare(c) PROVE CInv'
<1> USE DEF CInv, CredentialsTypeOK, OldestFirst, StaleIsRefused, RetryIsNewer, First
<1>1. CASE at'[c] = "sent"
  <2>1. /\ at' = [at EXCEPT ![c] = "sent"] /\ using' = [using EXCEPT ![c] = kept] /\ at[c] = "new"
        /\ UNCHANGED <<kind, kept, mints, dropped, drops, stale, refused, lock>> /\ kind = "csrf"
    BY <1>1 DEF Prepare, Goto, Carry, world
  <2>2. LockIsTheirs'
    BY <2>1 DEF LockIsTheirs
  <2>3. RetryIsNewer'
    BY <2>1
  <2> QED BY <2>1, <2>2, <2>3
<1>2. CASE at'[c] # "sent"
  <2>1. lock' = Append(lock, c) /\ at' = [at EXCEPT ![c] = "lock"] /\ at[c] = "new"
        /\ UNCHANGED <<kind, kept, mints, dropped, drops, using, stale, refused>>
    BY <1>2 DEF Prepare, Goto, Carry, world
  <2>2. LockIsTheirs'
    BY <2>1, Enters DEF LockIsTheirs
  <2> QED BY <2>1, <2>2, Enters
<1> QED BY <1>1, <1>2

LEMMA RefusedKeeps == ASSUME CInv, NEW c \in Calls, Refused(c) PROVE CInv'
<1> USE DEF CInv, CredentialsTypeOK, OldestFirst, StaleIsRefused, RetryIsNewer, First
<1>1. /\ lock' = Append(lock, c) /\ at' = [at EXCEPT ![c] = "lock"] /\ at[c] = "sent"
      /\ refused' = [refused EXCEPT ![c] = using[c]] /\ stale' = [stale EXCEPT ![c] = Stale(c)]
      /\ UNCHANGED <<kind, kept, mints, dropped, drops, using>>
  BY DEF Refused, Goto, world
<1>2. LockIsTheirs'
  BY <1>1, Enters DEF LockIsTheirs
<1>3. Stale(c) \in Nat /\ Stale(c) >= using[c] /\ Stale(c) <= mints /\ (kind = "vrf" => Stale(c) = using[c])
  BY DEF Stale
<1> HIDE DEF Stale
<1> QED BY <1>1, <1>2, <1>3, Enters

LEMMA ReuseKeeps == ASSUME CInv, NEW c \in Calls, Reuse(c) PROVE CInv'
<1> USE DEF CInv, CredentialsTypeOK, OldestFirst, StaleIsRefused, RetryIsNewer, First
<1>1. /\ lock' = Tail(lock) /\ at' = [at EXCEPT ![c] = "sent"] /\ at[c] = "lock" /\ Head(lock) = c
      /\ using' = [using EXCEPT ![c] = kept] /\ Fresh(c)
      /\ UNCHANGED <<kind, kept, mints, dropped, drops, stale, refused>>
  BY DEF Reuse, Goto, Carry, world
<1>2. /\ lock # <<>> /\ c = lock[1] /\ Tail(lock) \in Seq(Calls)
      /\ \A e \in ToSet(lock) : e # lock[1] => e \in ToSet(Tail(lock))
  BY <1>1, Holder
<1>3. LockIsTheirs'
  BY <1>1, <1>2 DEF LockIsTheirs
<1>4. ~First(c) => kept > refused[c]
  BY <1>1 DEF Fresh
<1> QED BY <1>1, <1>2, <1>3, <1>4

LEMMA AcquireKeeps == ASSUME CInv, NEW c \in Calls, Acquire(c) PROVE CInv'
<1> USE DEF CInv, CredentialsTypeOK, OldestFirst, StaleIsRefused, RetryIsNewer, First
<1>1. /\ at' = [at EXCEPT ![c] = "mint"] /\ at[c] = "lock" /\ Head(lock) = c /\ ~Fresh(c)
      /\ UNCHANGED <<kind, kept, mints, dropped, drops, using, stale, refused, lock>>
  BY DEF Acquire, Goto, world
<1>2. c = lock[1]
  BY <1>1, Holder
<1>3. LockIsTheirs'
  BY <1>1, <1>2 DEF LockIsTheirs
<1>4. kind = "vrf" => kept = refused[c]
  BY <1>1 DEF Fresh
<1> QED BY <1>1, <1>3, <1>4

LEMMA MintsKeeps == ASSUME CInv, NEW c \in Calls, Mints(c) PROVE CInv'
<1> USE DEF CInv, CredentialsTypeOK, OldestFirst, StaleIsRefused, RetryIsNewer, First
<1>1. /\ lock' = Tail(lock) /\ at' = [at EXCEPT ![c] = "sent"] /\ at[c] = "mint"
      /\ mints' = mints + 1 /\ kept' = mints + 1 /\ using' = [using EXCEPT ![c] = mints + 1]
      /\ UNCHANGED <<kind, dropped, drops, stale, refused>>
  BY DEF Mints, Goto, Carry, world
<1>2. /\ lock # <<>> /\ c = lock[1] /\ Tail(lock) \in Seq(Calls)
      /\ \A e \in ToSet(lock) : e # lock[1] => e \in ToSet(Tail(lock))
  BY <1>1, Holder DEF LockIsTheirs
<1>3. LockIsTheirs' /\ \A d \in Calls : at'[d] # "mint"
  BY <1>1, <1>2 DEF LockIsTheirs
<1> QED BY <1>1, <1>2, <1>3

LEMMA GivesKeeps == ASSUME CInv, NEW c \in Calls, Gives(c) PROVE CInv'
<1> USE DEF CInv, CredentialsTypeOK, OldestFirst, StaleIsRefused, RetryIsNewer, First
<1>1. /\ lock' = Without(lock, c) /\ at' = [at EXCEPT ![c] = "failed"]
      /\ UNCHANGED <<kind, kept, mints, dropped, drops, using, stale, refused>>
  BY DEF Gives, Goto, world
<1>2. /\ Without(lock, c) \in Seq(Calls)
      /\ \A d \in ToSet(lock) : d # c => d \in ToSet(Without(lock, c))
      /\ lock # <<>> /\ lock[1] # c => Without(lock, c)[1] = lock[1]
  BY LeavesLock
<1>3. LockIsTheirs'
  <2>1. \A d \in Calls : at[d] = "mint" => lock # <<>>
    BY Holder
  <2> QED BY <1>1, <1>2, <2>1 DEF LockIsTheirs
<1> QED BY <1>1, <1>2, <1>3

\* CInv holds of every reachable state (CsrfBootstrap.prepare, the signer of MangaFire).
THEOREM CredentialsInductive == CredentialsSpec => []CInv
<1> USE DEF CInv, CredentialsTypeOK, LockIsTheirs, OldestFirst, StaleIsRefused, RetryIsNewer, First
<1>1. CredentialsInit => CInv
  BY DEF CredentialsInit
<1>2. CInv /\ [CredentialsNext]_credentialsVars => CInv'
  <2> SUFFICES ASSUME CInv, [CredentialsNext]_credentialsVars PROVE CInv'
    OBVIOUS
  <2>1. CASE UNCHANGED credentialsVars
    BY <2>1 DEF credentialsVars
  <2>2. ASSUME NEW c \in Calls, Answered(c) PROVE CInv'
    BY <2>2 DEF Answered, Goto, world
  <2>3. CASE Drop
    BY <2>3 DEF Drop
  <2> HIDE DEF CInv
  <2>4. CASE CredentialsNext
    BY <2>2, <2>3, <2>4, PrepareKeeps, RefusedKeeps, ReuseKeeps, AcquireKeeps, MintsKeeps, GivesKeeps
       DEF CredentialsNext
  <2> QED BY <2>1, <2>4
<1> QED BY <1>1, <1>2, PTL DEF CredentialsSpec

\* The one retry of a refused call never carries what it was refused with, and a
\* signer is built again only while it is the one that was refused, for any number
\* of calls, mints and drops (prepare, _signed_get_json).
THEOREM RetriesAreNewer == CredentialsSpec => []RetryIsNewer
BY CredentialsInductive, PTL DEF CInv

-----------------------------------------------------------------------------
(* The metrics.                                                            *)

Events == [id : Nat, req : Requests]
Counts == Nat \cup {NoRolls}

Points == {"off", "snapshot", "delete", "insert", "inserted", "flush", "append", "appended", "prune", "pruned", "close"}
Tasks  == [pc : Points, batch : Seq(Events), rolls : Counts]

MetricsTypeOK ==
  /\ phase \in {"up", "stop", "final", "down"}
  /\ stage \in [Requests -> {"new", "open", "done", "over"}]
  /\ id \in [Requests -> Nat] /\ next \in Nat /\ mem \in Nat /\ saved \in Nat
  /\ queue \in Seq(Events)
  /\ task \in [Writers -> Tasks]
  /\ writeLock \in Writers \cup {"none"} /\ torn \in BOOLEAN
  /\ txn \in [rolls : Counts, ring : Seq(Events)]
  /\ committed \in [rolls : Counts, ring : Seq(Events)]

\* An event that may still be served, or be brought back by a boot.
Around(e) ==
  \/ e \in ToSet(queue) \/ e \in ToSet(txn.ring) \/ e \in ToSet(committed.ring)
  \/ \E w \in Writers : e \in ToSet(task[w].batch)
Live(r) == stage[r] \in {"open", "done"}

\* No id stands for two requests, nor will it: the next one is beyond them all.
IdsAreOnes ==
  /\ \A e, f \in Events : Around(e) /\ Around(f) /\ e.id = f.id => e.req = f.req
  /\ \A e \in Events : Around(e) => e.id < next
  /\ \A r \in Requests : Live(r) =>
       /\ id[r] < next
       /\ \A e \in Events : Around(e) /\ e.id = id[r] => e.req = r
       /\ \A s \in Requests : Live(s) /\ id[s] = id[r] => s = r

\* A process that is down has left what was committed, and nothing else.
DownIsDown ==
  phase = "down" =>
    /\ \A r \in Requests : ~Live(r)
    /\ queue = <<>> /\ txn = committed /\ writeLock = "none"
    /\ \A w \in Writers : task[w] = Ended

\* Who is inside a transaction has the lock, and is alone in it.
WriterIsAlone ==
  \A w \in Writers :
    /\ task[w].pc \in {"insert", "inserted", "appended", "pruned"} => writeLock = w
    /\ task[w].pc \in {"delete", "insert", "inserted"} => task[w].rolls \in Nat
    /\ task[w].pc = "inserted" => txn.rolls = task[w].rolls

\* The counters on the disk are those of the last snapshot, or were torn.
DiskIsSaved == torn \/ committed.rolls = saved

MInv == MetricsTypeOK /\ IdsAreOnes /\ DownIsDown /\ WriterIsAlone /\ DiskIsSaved

LEMMA NoRollsIs == NoRolls \in Int /\ NoRolls \notin Nat /\ NoRolls < 0
BY DEF NoRolls

\* A set of numbers with a bound has a greatest one.
LEMMA MaxIs ==
  ASSUME NEW S \in SUBSET Nat, NEW b \in Nat, \A x \in S : x <= b, S # {}
  PROVE  Max(S) \in S /\ \A x \in S : x <= Max(S)
<1> DEFINE T == {n \in Nat : \A x \in S : x <= n}
<1>1. T \subseteq Nat /\ T # {}
  OBVIOUS
<1>2. PICK m \in T : \A y \in T : ~(<<y, m>> \in OpToRel(<, Nat))
  <2> HIDE DEF T
  <2> QED BY <1>1, NatLessThanWellFounded, WFMin
<1>3. \A y \in T : ~(y < m)
  BY <1>2 DEF OpToRel
<1>4. m \in Nat /\ \A x \in S : x <= m
  OBVIOUS
<1>5. m \in S
  <2> SUFFICES ASSUME m \notin S PROVE FALSE
    OBVIOUS
  <2>1. m # 0
    <3>1. PICK x \in S : TRUE
      OBVIOUS
    <3>2. x \in Nat /\ x <= m /\ x # m
      BY <1>4, <3>1
    <3> QED BY <3>2
  <2>2. \A x \in S : x \in Nat /\ x <= m /\ x # m
    BY <1>4
  <2>3. m - 1 \in Nat /\ \A x \in S : x <= m - 1
    BY <1>4, <2>1, <2>2
  <2>4. m - 1 \in T /\ m - 1 < m
    BY <1>4, <2>3
  <2> QED BY <1>3, <2>4
<1> QED BY <1>4, <1>5 DEF Max


LEMMA LoopsAre ==
  /\ Ended \in Tasks /\ Ended.batch = <<>> /\ Ended.pc = "off"
  /\ Loops \in [Writers -> Tasks]
  /\ \A w \in Writers : Loops[w].batch = <<>> /\ Loops[w].pc \in {"off", "flush", "snapshot"}
<1>1. <<>> \in Seq(Events) /\ NoRolls \in Counts
  BY DEF Counts
<1>2. Ended = [pc |-> "off", batch |-> <<>>, rolls |-> NoRolls]
  BY DEF Ended
<1>3. Ended.batch = <<>> /\ Ended.pc = "off" /\ Ended.rolls = NoRolls
  BY <1>2
<1>4. Ended \in Tasks
  <2> DEFINE o == <<>>
  <2>1. o \in Seq(Events) /\ Ended = [pc |-> "off", batch |-> o, rolls |-> NoRolls]
    BY <1>1, <1>2
  <2> HIDE DEF o
  <2> QED BY <1>1, <2>1 DEF Tasks, Points
<1>5. ASSUME NEW w \in Writers
      PROVE  Begun(w) \in Tasks /\ Begun(w).batch = <<>> /\ Begun(w).pc \in {"flush", "snapshot"}
  <2> DEFINE p == IF w = "flushes" THEN "flush" ELSE "snapshot"
  <2>1. Begun(w) = [Ended EXCEPT !.pc = p] /\ p \in {"flush", "snapshot"}
    BY DEF Begun
  <2> HIDE DEF p
  <2> QED BY <1>3, <1>4, <2>1 DEF Tasks, Points
<1> QED BY <1>3, <1>4, <1>5 DEF Loops

LEMMA MetricsInitInv == MetricsInit => MInv
<1> SUFFICES ASSUME MetricsInit PROVE MInv
  OBVIOUS
<1> USE DEF MetricsInit
<1>1. \A w \in Writers : task[w].batch = <<>> /\ task[w].pc \in {"off", "flush", "snapshot"}
  BY LoopsAre
<1>2. MetricsTypeOK
  <2>1. 0 \in Counts /\ <<>> \in Seq(Events)
    BY DEF Counts
  <2> QED BY <2>1, LoopsAre DEF MetricsTypeOK
<1>3. \A e : ~Around(e)
  BY <1>1 DEF Around, ToSet
<1>4. IdsAreOnes
  BY <1>3 DEF IdsAreOnes, Live
<1> QED BY <1>1, <1>2, <1>4 DEF MInv, DownIsDown, WriterIsAlone, DiskIsSaved

\* What the boot makes of the counters that it finds.
LEMMA RollsBack ==
  ASSUME NEW n \in Counts
  PROVE  Max({0, n}) \in Nat /\ (n \in Nat => Max({0, n}) = n)
<1>1. CASE n \in Nat
  BY <1>1, MaxIs
<1>2. CASE n = NoRolls
  <2>1. Max({0, n}) = 0
    BY <1>2, NoRollsIs DEF Max
  <2> QED BY <1>2, <2>1, NoRollsIs
<1> QED BY <1>1, <1>2 DEF Counts

LEMMA MinIs ==
  ASSUME NEW m \in Nat, NEW n \in Nat
  PROVE  Min({m, n}) \in Nat /\ Min({m, n}) <= n
BY DEF Min

\* What a row of the ring comes from.
LEMMA ConcatHas ==
  ASSUME NEW S, NEW s \in Seq(S), NEW t \in Seq(S)
  PROVE  s \o t \in Seq(S) /\ \A e \in ToSet(s \o t) : e \in ToSet(s) \/ e \in ToSet(t)
<1> DEFINE u == s \o t
<1>1. /\ u \in Seq(S) /\ Len(u) = Len(s) + Len(t)
      /\ \A i \in 1..(Len(s) + Len(t)) : u[i] = IF i <= Len(s) THEN s[i] ELSE t[i - Len(s)]
  BY ConcatProperties
<1>2. Len(s) \in Nat /\ Len(t) \in Nat /\ DOMAIN s = 1..Len(s) /\ DOMAIN t = 1..Len(t)
  OBVIOUS
<1> HIDE DEF u
<1>3. DOMAIN u = 1..(Len(s) + Len(t))
  BY <1>1
<1>4. ASSUME NEW i \in DOMAIN u PROVE u[i] \in ToSet(s) \/ u[i] \in ToSet(t)
  <2>1. CASE i <= Len(s)
    <3>1. i \in DOMAIN s /\ u[i] = s[i]
      BY <1>1, <1>2, <1>3, <2>1
    <3> QED BY <3>1 DEF ToSet
  <2>2. CASE ~(i <= Len(s))
    <3>1. i - Len(s) \in DOMAIN t /\ u[i] = t[i - Len(s)]
      BY <1>1, <1>2, <1>3, <2>2
    <3> QED BY <3>1 DEF ToSet
  <2> QED BY <2>1, <2>2
<1> QED BY <1>1, <1>4 DEF ToSet, u

LEMMA NewestHas ==
  ASSUME NEW S, NEW s \in Seq(S), NEW n \in 0..Len(s)
  PROVE  Newest(s, n) \in Seq(S) /\ \A e \in ToSet(Newest(s, n)) : e \in ToSet(s)
<1> DEFINE k == Len(s) - n + 1
           u == SubSeq(s, k, Len(s))
<1>1. Len(s) \in Nat /\ k \in 1..(Len(s) + 1) /\ DOMAIN s = 1..Len(s)
  OBVIOUS
<1>2. Newest(s, n) = u
  BY DEF Newest
<1> HIDE DEF k
<1>3. /\ u \in Seq(S) /\ Len(u) = IF k <= Len(s) THEN Len(s) - k + 1 ELSE 0
      /\ \A i \in 1..(Len(s) - k + 1) : u[i] = s[k + i - 1]
  <2>1. k \in Int /\ Len(s) \in Int /\ \A i \in k..Len(s) : s[i] \in S
    BY <1>1
  <2> QED BY <2>1, SubSeqProperties
<1> HIDE DEF u
<1>4. \A i \in DOMAIN u : i \in 1..(Len(s) - k + 1) /\ k + i - 1 \in DOMAIN s
  BY <1>1, <1>3
<1>5. \A i \in DOMAIN u : u[i] \in ToSet(s)
  BY <1>3, <1>4 DEF ToSet
<1> QED BY <1>2, <1>3, <1>5 DEF ToSet

-----------------------------------------------------------------------------
\* When no event comes up, no request comes to life and no id is taken, the ids
\* stay apart.
Quiet ==
  /\ \A e \in Events : Around(e)' => Around(e)
  /\ UNCHANGED <<id, next>>
  /\ \A r \in Requests : Live(r)' => Live(r)

LEMMA QuietKeeps == ASSUME IdsAreOnes, Quiet PROVE IdsAreOnes'
BY DEF IdsAreOnes, Quiet


LEMMA OpenKeeps == ASSUME MInv, NEW r \in Requests, Open(r) PROVE MInv'
<1> USE DEF MInv, MetricsTypeOK
<1>1. /\ phase = "up" /\ stage[r] = "new" /\ stage' = [stage EXCEPT ![r] = "open"]
      /\ id' = [id EXCEPT ![r] = next] /\ next' = next + 1
      /\ UNCHANGED <<phase, mem, queue, task, writeLock, txn, committed, saved, torn>>
  BY DEF Open
<1>2. /\ \A e \in Events : Around(e)' <=> Around(e)
      /\ \A s \in Requests : s # r => (Live(s)' <=> Live(s)) /\ id'[s] = id[s]
      /\ id'[r] = next /\ ~Live(r)
  BY <1>1 DEF Around, Live
<1>3. \A e \in Events : e.id \in Nat
  BY DEF Events
<1>4. \A e \in Events : Around(e) => e.id < next /\ e.id < next + 1 /\ e.id # next
  BY <1>3 DEF IdsAreOnes
<1>5. \A s \in Requests : Live(s) => id[s] < next /\ id[s] < next + 1 /\ id[s] # next
  BY DEF IdsAreOnes
<1>6. IdsAreOnes'
  <2>1. \A e, f \in Events : Around(e)' /\ Around(f)' /\ e.id = f.id => e.req = f.req
    BY <1>2 DEF IdsAreOnes
  <2>2. \A e \in Events : Around(e)' => e.id < next'
    BY <1>1, <1>2, <1>4
  <2>3. ASSUME NEW s \in Requests, Live(s)'
        PROVE  /\ id'[s] < next'
               /\ \A e \in Events : Around(e)' /\ e.id = id'[s] => e.req = s
               /\ \A q \in Requests : Live(q)' /\ id'[q] = id'[s] => q = s
    <3>1. CASE s = r
      BY <1>1, <1>2, <1>4, <1>5, <3>1
    <3>2. CASE s # r
      BY <1>1, <1>2, <1>5, <2>3, <3>2 DEF IdsAreOnes
    <3> QED BY <3>1, <3>2
  <2> QED BY <2>1, <2>2, <2>3 DEF IdsAreOnes
<1>7. MetricsTypeOK'
  BY <1>1
<1> QED BY <1>1, <1>6, <1>7 DEF DownIsDown, WriterIsAlone, DiskIsSaved

\* An event of a live request carries its id.
LEMMA IngestKeeps ==
  ASSUME MInv, NEW r \in Requests, Live(r), phase # "down", Ingest(r),
         stage' \in [Requests -> {"new", "open", "done", "over"}],
         \A s \in Requests : Live(s)' <=> Live(s)
  PROVE  MInv'
<1> USE DEF MInv, MetricsTypeOK
<1> DEFINE n == [id |-> id[r], req |-> r]
<1>1. /\ mem' = mem + 1 /\ queue' = Append(queue, n)
      /\ UNCHANGED <<phase, id, next, task, writeLock, txn, committed, saved, torn>>
  BY DEF Ingest
<1>2. n \in Events /\ n.id = id[r] /\ n.req = r
  BY DEF Events
<1> HIDE DEF n
<1>3. queue' \in Seq(Events) /\ \A e \in ToSet(queue') : e \in ToSet(queue) \/ e = n
  BY <1>1, <1>2 DEF ToSet
<1>4. \A e \in Events : Around(e)' => Around(e) \/ e = n
  BY <1>1, <1>3 DEF Around
<1>5. IdsAreOnes'
  <2>1. id[r] < next /\ \A e \in Events : Around(e) /\ e.id = id[r] => e.req = r
    BY DEF IdsAreOnes
  <2>2. \A e \in Events : Around(e)' => e.id < next
    BY <1>2, <1>4, <2>1 DEF IdsAreOnes
  <2>5. \A e \in Events : Around(e)' /\ e.id = id[r] => e.req = r
    BY <1>2, <1>4, <2>1
  <2>6. \A e, f \in Events : Around(e) /\ Around(f) /\ e.id = f.id => e.req = f.req
    BY DEF IdsAreOnes
  <2>3. ASSUME NEW e \in Events, NEW f \in Events, Around(e)', Around(f)', e.id = f.id
        PROVE  e.req = f.req
    <3>1. CASE e = n \/ f = n
      BY <1>2, <2>3, <2>5, <3>1
    <3>2. CASE e # n /\ f # n
      BY <1>4, <2>3, <2>6, <3>2
    <3> QED BY <3>1, <3>2
  <2>4. ASSUME NEW s \in Requests, Live(s)
        PROVE  /\ id[s] < next
               /\ \A e \in Events : Around(e)' /\ e.id = id[s] => e.req = s
               /\ \A q \in Requests : Live(q) /\ id[q] = id[s] => q = s
    BY <1>2, <1>4, <2>4 DEF IdsAreOnes
  <2> QED BY <1>1, <2>2, <2>3, <2>4 DEF IdsAreOnes
<1>6. MetricsTypeOK'
  BY <1>1, <1>3
<1> QED BY <1>1, <1>5, <1>6 DEF DownIsDown, WriterIsAlone, DiskIsSaved

LEMMA RequestKeeps ==
  ASSUME MInv, NEW r \in Requests, Emit(r) \/ Answers(r) PROVE MInv'
<1> USE DEF MInv, MetricsTypeOK
<1>1. phase # "down" /\ Live(r) /\ stage' \in [Requests -> {"new", "open", "done", "over"}]
      /\ \A s \in Requests : Live(s)' <=> Live(s)
  BY DEF Emit, Answers, Live
<1>2. CASE Ingest(r)
  BY <1>1, <1>2, IngestKeeps
<1>3. CASE UNCHANGED <<phase, id, next, mem, queue, task, writeLock, txn, committed, saved, torn>>
  <2>1. Quiet
    BY <1>1, <1>3 DEF Quiet, Around
  <2>2. IdsAreOnes'
    BY <2>1, QuietKeeps
  <2> QED BY <1>1, <1>3, <2>2 DEF DownIsDown, WriterIsAlone, DiskIsSaved
<1> QED BY <1>2, <1>3 DEF Emit, Answers

-----------------------------------------------------------------------------
(* The writers.                                                            *)

\* A writer goes on; nobody else does, and what it holds is queued or written.
Moves(w) ==
  /\ phase # "down" /\ UNCHANGED <<phase, stage, id, next, mem>>
  /\ task' \in [Writers -> Tasks]
  /\ \A v \in Writers \ {w} : task'[v] = task[v]

LEMMA MovesKeeps ==
  ASSUME MInv, NEW w \in Writers, Moves(w), MetricsTypeOK', DiskIsSaved', WriterIsAlone',
         \A e \in Events : Around(e)' => Around(e)
  PROVE  MInv'
<1>1. Quiet
  BY DEF Moves, Quiet, Live
<1>2. IdsAreOnes'
  BY <1>1, QuietKeeps DEF MInv
<1> QED BY <1>2 DEF MInv, Moves, DownIsDown


LEMMA AfterIs ==
  ASSUME NEW w \in Writers, NEW pc
  PROVE  After(w, pc) \in {"flush", "prune", "snapshot", "close"}
BY DEF After

\* Nobody writes in a process that is down.
LEMMA WorksUp ==
  ASSUME MInv, NEW w \in Writers, task[w].pc # "off" \/ writeLock = w
  PROVE  phase # "down"
<1>1. w # "none"
  BY DEF Writers
<1> QED BY <1>1, LoopsAre DEF MInv, DownIsDown

LEMMA SnapshotKeeps == ASSUME MInv, NEW w \in Writers, Snapshot(w) PROVE MInv'
<1> USE DEF MInv, MetricsTypeOK, Tasks, Points
<1>1. /\ task[w].pc = "snapshot" /\ task' = [task EXCEPT ![w].pc = "delete", ![w].rolls = mem]
      /\ UNCHANGED <<phase, stage, id, next, mem, queue, writeLock, txn, committed, saved, torn>>
  BY DEF Snapshot, Outside
<1>2. task'[w].pc = "delete" /\ task'[w].rolls = mem /\ task'[w].batch = task[w].batch
  BY <1>1
<1>3. Moves(w)
  BY <1>1, <1>2, WorksUp DEF Moves, Counts
<1>4. WriterIsAlone' /\ DiskIsSaved' /\ MetricsTypeOK'
  BY <1>1, <1>2, <1>3 DEF Moves, WriterIsAlone, DiskIsSaved
<1>5. \A e \in Events : Around(e)' => Around(e)
  BY <1>1, <1>2, <1>3 DEF Around, Moves
<1> HIDE DEF MInv, MetricsTypeOK
<1> QED BY <1>3, <1>4, <1>5, MovesKeeps

LEMMA DeleteKeeps == ASSUME MInv, NEW w \in Writers, DeleteRolls(w) PROVE MInv'
<1> USE DEF MInv, MetricsTypeOK, Tasks, Points
<1>1. /\ task[w].pc = "delete" /\ task' = [task EXCEPT ![w].pc = "insert"]
      /\ writeLock = "none" /\ writeLock' = w /\ txn' = [txn EXCEPT !.rolls = NoRolls]
      /\ UNCHANGED <<phase, stage, id, next, mem, queue, committed, saved, torn>>
  BY DEF DeleteRolls, Outside, Step, Takes, Deleted
<1>2. /\ task'[w].pc = "insert" /\ task'[w].rolls = task[w].rolls /\ task'[w].batch = task[w].batch
      /\ txn'.rolls = NoRolls /\ txn'.ring = txn.ring /\ txn' \in [rolls : Counts, ring : Seq(Events)]
  BY <1>1 DEF Counts
<1>3. Moves(w)
  BY <1>1, <1>2, WorksUp DEF Moves
<1>4. WriterIsAlone' /\ DiskIsSaved' /\ MetricsTypeOK'
  BY <1>1, <1>2, <1>3 DEF Moves, WriterIsAlone, DiskIsSaved, Writers
<1>5. \A e \in Events : Around(e)' => Around(e)
  BY <1>1, <1>2, <1>3 DEF Around, Moves
<1> HIDE DEF MInv, MetricsTypeOK
<1> QED BY <1>3, <1>4, <1>5, MovesKeeps

LEMMA InsertKeeps == ASSUME MInv, NEW w \in Writers, InsertRolls(w) PROVE MInv'
<1> USE DEF MInv, MetricsTypeOK, Tasks, Points
<1>1. /\ task[w].pc = "insert" /\ task' = [task EXCEPT ![w].pc = "inserted"]
      /\ txn' = [txn EXCEPT !.rolls = task[w].rolls]
      /\ UNCHANGED <<phase, stage, id, next, mem, queue, writeLock, committed, saved, torn>>
  BY DEF InsertRolls, Outside, Step
<1>2. /\ task'[w].pc = "inserted" /\ task'[w].rolls = task[w].rolls /\ task'[w].batch = task[w].batch
      /\ txn'.rolls = task[w].rolls /\ txn'.ring = txn.ring /\ txn' \in [rolls : Counts, ring : Seq(Events)]
  BY <1>1
<1>3. Moves(w)
  BY <1>1, <1>2, WorksUp DEF Moves
<1>4. WriterIsAlone' /\ DiskIsSaved' /\ MetricsTypeOK'
  BY <1>1, <1>2, <1>3 DEF Moves, WriterIsAlone, DiskIsSaved
<1>5. \A e \in Events : Around(e)' => Around(e)
  BY <1>1, <1>2, <1>3 DEF Around, Moves
<1> HIDE DEF MInv, MetricsTypeOK
<1> QED BY <1>3, <1>4, <1>5, MovesKeeps

LEMMA CommitRollsKeeps == ASSUME MInv, NEW w \in Writers, CommitRolls(w) PROVE MInv'
<1> USE DEF MInv, MetricsTypeOK, Tasks, Points
<1>1. /\ task[w].pc = "inserted"
      /\ task' = [task EXCEPT ![w].pc = After(w, "snapshot"), ![w].rolls = NoRolls]
      /\ committed' = txn /\ saved' = txn.rolls /\ torn' = FALSE /\ writeLock' = "none"
      /\ UNCHANGED <<phase, stage, id, next, mem, queue, txn>>
  BY DEF CommitRolls, Saves, Outside
<1>2. /\ task'[w].pc = After(w, "snapshot") /\ task'[w].rolls = NoRolls /\ task'[w].batch = task[w].batch
      /\ After(w, "snapshot") \in {"flush", "prune", "snapshot", "close"}
  BY <1>1, AfterIs
<1>3. Moves(w)
  BY <1>1, <1>2, WorksUp DEF Moves, Counts
<1>4. writeLock = w /\ saved' \in Nat
  BY <1>1 DEF WriterIsAlone
<1>5. WriterIsAlone' /\ DiskIsSaved' /\ MetricsTypeOK'
  BY <1>1, <1>2, <1>3, <1>4 DEF Moves, WriterIsAlone, DiskIsSaved
<1>6. \A e \in Events : Around(e)' => Around(e)
  BY <1>1, <1>2, <1>3 DEF Around, Moves
<1> HIDE DEF MInv, MetricsTypeOK
<1> QED BY <1>3, <1>5, <1>6, MovesKeeps

LEMMA FlushKeeps == ASSUME MInv, NEW w \in Writers, Flush(w) PROVE MInv'
<1> USE DEF MInv, MetricsTypeOK, Tasks, Points
<1> DEFINE p == IF queue = <<>> THEN After(w, "flush") ELSE "append"
<1>1. /\ task[w].pc = "flush" /\ queue' = <<>>
      /\ task' = [task EXCEPT ![w].pc = p, ![w].batch = queue]
      /\ UNCHANGED <<phase, stage, id, next, mem, writeLock, txn, committed, saved, torn>>
  BY DEF Flush, Outside
<1>2. p \in {"flush", "prune", "snapshot", "close", "append"}
  BY AfterIs
<1> HIDE DEF p
<1>3. task'[w].pc = p /\ task'[w].rolls = task[w].rolls /\ task'[w].batch = queue
  BY <1>1
<1>4. Moves(w)
  BY <1>1, <1>2, <1>3, WorksUp DEF Moves
<1>5. WriterIsAlone' /\ DiskIsSaved' /\ MetricsTypeOK'
  BY <1>1, <1>2, <1>3, <1>4 DEF Moves, WriterIsAlone, DiskIsSaved
<1>6. \A e \in Events : Around(e)' => Around(e)
  BY <1>1, <1>3, <1>4 DEF Around, Moves, ToSet
<1> HIDE DEF MInv, MetricsTypeOK
<1> QED BY <1>4, <1>5, <1>6, MovesKeeps

LEMMA AppendKeeps == ASSUME MInv, NEW w \in Writers, AppendRows(w) PROVE MInv'
<1> USE DEF MInv, MetricsTypeOK, Tasks, Points
<1> DEFINE u == txn.ring \o task[w].batch
<1>1. /\ task[w].pc = "append" /\ task' = [task EXCEPT ![w].pc = "appended"]
      /\ writeLock = "none" /\ writeLock' = w /\ txn' = [txn EXCEPT !.ring = u]
      /\ UNCHANGED <<phase, stage, id, next, mem, queue, committed, saved, torn>>
  BY DEF AppendRows, Outside, Step, Takes
<1>2. u \in Seq(Events) /\ \A e \in ToSet(u) : e \in ToSet(txn.ring) \/ e \in ToSet(task[w].batch)
  <2>1. txn.ring \in Seq(Events) /\ task[w].batch \in Seq(Events)
    OBVIOUS
  <2> QED BY <2>1, ConcatHas
<1> HIDE DEF u
<1>3. /\ task'[w].pc = "appended" /\ task'[w].rolls = task[w].rolls /\ task'[w].batch = task[w].batch
      /\ txn'.rolls = txn.rolls /\ txn'.ring = u /\ txn' \in [rolls : Counts, ring : Seq(Events)]
  BY <1>1, <1>2
<1>4. Moves(w)
  BY <1>1, <1>3, WorksUp DEF Moves
<1>5. WriterIsAlone' /\ DiskIsSaved' /\ MetricsTypeOK'
  BY <1>1, <1>3, <1>4 DEF Moves, WriterIsAlone, DiskIsSaved, Writers
<1>6. \A e \in Events : Around(e)' => Around(e)
  BY <1>1, <1>2, <1>3, <1>4 DEF Around, Moves
<1> HIDE DEF MInv, MetricsTypeOK
<1> QED BY <1>4, <1>5, <1>6, MovesKeeps

LEMMA CommitRowsKeeps == ASSUME MInv, NEW w \in Writers, CommitRows(w) PROVE MInv'
<1> USE DEF MInv, MetricsTypeOK, Tasks, Points
<1> DEFINE q == After(w, Written(w))
<1>1. /\ task[w].pc \in {"appended", "pruned"} /\ writeLock = w /\ writeLock' = "none"
      /\ task' = [task EXCEPT ![w].pc = q, ![w].batch = <<>>]
      /\ committed' = txn /\ torn' = (torn \/ txn.rolls # committed.rolls)
      /\ UNCHANGED <<phase, stage, id, next, mem, queue, txn, saved>>
  BY DEF CommitRows, Outside, Holds, Commits
<1>7. q \in {"flush", "prune", "snapshot", "close"}
  BY AfterIs
<1> HIDE DEF q
<1>2. task'[w].pc = q /\ task'[w].rolls = task[w].rolls /\ task'[w].batch = <<>>
  BY <1>1
<1>0. task \in [Writers -> Tasks]
  OBVIOUS
<1>3. Moves(w)
  <2> DEFINE o == <<>>
  <2>1. o \in Seq(Events) /\ q \in Points /\ task' = [task EXCEPT ![w].pc = q, ![w].batch = o]
    BY <1>1, <1>7
  <2> HIDE DEF o, MInv, MetricsTypeOK
  <2>2. task' \in [Writers -> Tasks] /\ \A v \in Writers \ {w} : task'[v] = task[v]
    BY <1>0, <2>1
  <2>3. phase # "down"
    BY <1>1, WorksUp
  <2> QED BY <1>1, <2>2, <2>3 DEF Moves
<1>4. WriterIsAlone' /\ DiskIsSaved' /\ MetricsTypeOK'
  BY <1>1, <1>2, <1>3, <1>7 DEF Moves, WriterIsAlone, DiskIsSaved
<1>5. \A e \in Events : Around(e)' => Around(e)
  BY <1>1, <1>2, <1>3 DEF Around, Moves, ToSet
<1> HIDE DEF MInv, MetricsTypeOK
<1> QED BY <1>3, <1>4, <1>5, MovesKeeps

LEMMA PruneRingKeeps == ASSUME MInv, NEW w \in Writers, PruneRing(w) PROVE MInv'
<1> USE DEF MInv, MetricsTypeOK, Tasks, Points
<1>1. PICK n \in 0..Min({MaxRows, Len(txn.ring)}) : txn' = [txn EXCEPT !.ring = Newest(@, n)]
  BY DEF PruneRing
<1> DEFINE u == Newest(txn.ring, n)
<1>2. /\ task[w].pc = "prune" /\ task' = [task EXCEPT ![w].pc = "pruned"]
      /\ writeLock = "none" /\ writeLock' = w /\ txn' = [txn EXCEPT !.ring = u]
      /\ UNCHANGED <<phase, stage, id, next, mem, queue, committed, saved, torn>>
  BY <1>1 DEF PruneRing, Outside, Step, Takes
<1>3. u \in Seq(Events) /\ \A e \in ToSet(u) : e \in ToSet(txn.ring)
  <2>1. txn.ring \in Seq(Events) /\ Len(txn.ring) \in Nat /\ MaxRows \in Nat
    BY MetricsAssumption
  <2> DEFINE m == Min({MaxRows, Len(txn.ring)})
  <2>2. m \in Nat /\ m <= Len(txn.ring)
    BY <2>1, MinIs
  <2>3. n \in 0..m
    BY <1>1
  <2> HIDE DEF m
  <2>4. n \in 0..Len(txn.ring)
    BY <2>1, <2>2, <2>3
  <2> QED BY <2>1, <2>4, NewestHas
<1> HIDE DEF u
<1>4. /\ task'[w].pc = "pruned" /\ task'[w].rolls = task[w].rolls /\ task'[w].batch = task[w].batch
      /\ txn'.rolls = txn.rolls /\ txn'.ring = u /\ txn' \in [rolls : Counts, ring : Seq(Events)]
  BY <1>2, <1>3
<1>5. Moves(w)
  BY <1>2, <1>4, WorksUp DEF Moves
<1>6. WriterIsAlone' /\ DiskIsSaved' /\ MetricsTypeOK'
  BY <1>2, <1>4, <1>5 DEF Moves, WriterIsAlone, DiskIsSaved, Writers
<1>7. \A e \in Events : Around(e)' => Around(e)
  BY <1>2, <1>3, <1>4, <1>5 DEF Around, Moves
<1> HIDE DEF MInv, MetricsTypeOK
<1> QED BY <1>5, <1>6, <1>7, MovesKeeps

LEMMA WriteFailsKeeps == ASSUME MInv, NEW w \in Writers, WriteFails(w) PROVE MInv'
<1> USE DEF MInv, MetricsTypeOK, Tasks, Points
<1> DEFINE p == After(w, Written(w))
<1>1. /\ writeLock = w /\ writeLock' = "none" /\ task' = [task EXCEPT ![w] = [Ended EXCEPT !.pc = p]]
      /\ UNCHANGED <<phase, stage, id, next, mem, queue, txn, committed, saved, torn>>
  BY DEF WriteFails, Outside, Holds
<1>2. p \in {"flush", "prune", "snapshot", "close"}
  BY AfterIs
<1> HIDE DEF p
<1>3. task'[w] \in Tasks /\ task'[w].pc = p /\ task'[w].batch = <<>>
  <2>1. [Ended EXCEPT !.pc = p] \in Tasks /\ [Ended EXCEPT !.pc = p].pc = p /\ [Ended EXCEPT !.pc = p].batch = <<>>
    BY <1>2, LoopsAre
  <2> QED BY <1>1, <2>1
<1>4. Moves(w)
  BY <1>1, <1>3, WorksUp DEF Moves
<1>5. WriterIsAlone' /\ DiskIsSaved' /\ MetricsTypeOK'
  BY <1>1, <1>2, <1>3, <1>4 DEF Moves, WriterIsAlone, DiskIsSaved
<1>6. \A e \in Events : Around(e)' => Around(e)
  BY <1>1, <1>3, <1>4 DEF Around, Moves, ToSet
<1> HIDE DEF MInv, MetricsTypeOK
<1> QED BY <1>4, <1>5, <1>6, MovesKeeps

-----------------------------------------------------------------------------
(* The lifespan.                                                           *)

LEMMA StopKeeps == ASSUME MInv, Stop PROVE MInv'
<1> USE DEF MInv, MetricsTypeOK
<1> DEFINE D == /\ txn'.ring = txn.ring /\ txn' \in [rolls : Counts, ring : Seq(Events)]
                /\ committed'.ring \in {committed.ring, txn.ring}
                /\ committed' \in [rolls : Counts, ring : Seq(Events)]
                /\ saved' \in Nat /\ torn' \in BOOLEAN /\ DiskIsSaved'
<1>1. /\ phase' = "stop" /\ task' = [w \in Writers |-> Ended] /\ writeLock' = "none"
      /\ UNCHANGED <<stage, id, next, mem, queue>>
  BY DEF Stop
<1>2. D
  <2>1. CASE /\ UNCHANGED <<committed, saved, torn>>
             /\ UNCHANGED txn \/ \E w \in Writers : task[w].pc = "insert" /\ txn' = [txn EXCEPT !.rolls = task[w].rolls]
    <3>1. txn'.ring = txn.ring /\ txn' \in [rolls : Counts, ring : Seq(Events)]
      BY <2>1 DEF Tasks
    <3> QED BY <2>1, <3>1 DEF DiskIsSaved
  <2>2. CASE \E w \in Writers : task[w].pc = "inserted" /\ Saves
    <3>1. txn.rolls \in Nat /\ Saves
      BY <2>2 DEF WriterIsAlone
    <3> QED BY <3>1 DEF Saves, DiskIsSaved
  <2>3. CASE UNCHANGED <<txn, saved>> /\ Commits
    BY <2>3 DEF Commits, DiskIsSaved
  <2> QED BY <2>1, <2>2, <2>3 DEF Stop
<1>3. \A w \in Writers : task'[w].batch = <<>> /\ task'[w].pc = "off"
  BY <1>1, LoopsAre
<1>4. MetricsTypeOK'
  BY <1>1, <1>2, LoopsAre
<1>5. Quiet
  BY <1>1, <1>2, <1>3 DEF Quiet, Around, Live, ToSet
<1>6. IdsAreOnes'
  BY <1>5, QuietKeeps
<1> QED BY <1>1, <1>2, <1>3, <1>4, <1>6 DEF DownIsDown, WriterIsAlone

LEMMA FinalKeeps == ASSUME MInv, Final PROVE MInv'
<1> USE DEF MInv, MetricsTypeOK, Tasks, Points
<1>1. /\ phase' = "final" /\ task' = [task EXCEPT !["final"].pc = "flush"]
      /\ UNCHANGED <<stage, id, next, mem, queue, writeLock, txn, committed, saved, torn>>
  BY DEF Final
<1>2. "final" \in Writers
  BY DEF Writers
<1>3. /\ task'["final"].pc = "flush" /\ task'["final"].batch = task["final"].batch
      /\ \A v \in Writers \ {"final"} : task'[v] = task[v]
      /\ task' \in [Writers -> Tasks]
  BY <1>1, <1>2
<1>4. Quiet
  BY <1>1, <1>3 DEF Quiet, Around, Live
<1>5. IdsAreOnes'
  BY <1>4, QuietKeeps
<1> QED BY <1>1, <1>3, <1>5 DEF DownIsDown, WriterIsAlone, DiskIsSaved

LEMMA DownKeeps == ASSUME MInv, Down PROVE MInv'
<1> USE DEF MInv, MetricsTypeOK
<1>1. /\ phase' = "down" /\ txn' = committed /\ queue' = <<>> /\ writeLock' = "none"
      /\ task' = [w \in Writers |-> Ended]
      /\ stage' = [r \in Requests |-> IF stage[r] = "new" THEN "new" ELSE "over"]
      /\ UNCHANGED <<id, next, mem, committed, saved, torn>>
  BY DEF Down
<1>2. \A w \in Writers : task'[w] = Ended /\ task'[w].batch = <<>> /\ task'[w].pc = "off"
  BY <1>1, LoopsAre
<1>3. MetricsTypeOK' /\ \A r \in Requests : ~Live(r)'
  BY <1>1, LoopsAre DEF Live
<1>4. Quiet
  BY <1>1, <1>2, <1>3 DEF Quiet, Around, ToSet
<1>5. IdsAreOnes'
  BY <1>4, QuietKeeps
<1> QED BY <1>1, <1>2, <1>3, <1>5 DEF DownIsDown, WriterIsAlone, DiskIsSaved

\* The next id is beyond every id that the boot finds.
LEMMA RehydrateKeeps == ASSUME MInv, Rehydrate PROVE MInv'
<1> USE DEF MInv, MetricsTypeOK
<1> DEFINE ids == {e.id : e \in ToSet(committed.ring)}
<1>1. /\ phase = "down" /\ phase' = "up" /\ mem' = Max({0, committed.rolls})
      /\ next' = SeedStart(ids) /\ task' = Loops
      /\ UNCHANGED <<stage, id, queue, writeLock, txn, committed, saved, torn>>
  BY DEF Rehydrate
<1>2. /\ \A r \in Requests : ~Live(r)
      /\ queue = <<>> /\ txn = committed /\ \A w \in Writers : task[w] = Ended
  BY <1>1 DEF DownIsDown
<1>3. \A e \in ToSet(committed.ring) : e \in Events /\ e.id \in Nat /\ e.id <= next
  <2>1. \A e \in ToSet(committed.ring) : e \in Events /\ Around(e)
    BY DEF ToSet, Around
  <2>2. \A e \in Events : e.id \in Nat
    BY DEF Events
  <2> QED BY <2>1, <2>2 DEF IdsAreOnes
<1>4. Max({0} \cup ids) \in Nat /\ \A x \in ids : x <= Max({0} \cup ids)
  <2>1. {0} \cup ids \in SUBSET Nat /\ \A x \in {0} \cup ids : x <= next
    BY <1>3
  <2> HIDE DEF ids
  <2> QED BY <2>1, MaxIs
<1>5. next' \in Nat /\ \A e \in ToSet(committed.ring) : e.id < next'
  <2>1. \A e \in ToSet(committed.ring) : e.id \in ids
    OBVIOUS
  <2> DEFINE m == Max({0} \cup ids)
  <2>2. next' = m + 1 /\ m \in Nat /\ \A x \in ids : x <= m
    BY <1>1, <1>4 DEF SeedStart
  <2> HIDE DEF ids, m
  <2>3. \A e \in ToSet(committed.ring) : e.id \in Nat /\ e.id <= m
    BY <1>3, <2>1, <2>2
  <2> QED BY <2>2, <2>3
<1>6. mem' \in Nat
  BY <1>1, RollsBack
<1>7. MetricsTypeOK'
  BY <1>1, <1>5, <1>6, LoopsAre
<1>8. \A e \in Events : Around(e)' => Around(e) /\ e \in ToSet(committed.ring)
  BY <1>1, <1>2, LoopsAre DEF Around, ToSet
<1>9. IdsAreOnes'
  BY <1>1, <1>2, <1>5, <1>8 DEF IdsAreOnes, Live
<1> QED BY <1>1, <1>2, <1>7, <1>9, LoopsAre DEF DownIsDown, WriterIsAlone, DiskIsSaved

\* MInv holds of every reachable state (snapshot.py, seed_request_ids).
THEOREM MetricsInductive == MetricsSpec => []MInv
<1>1. MInv /\ [MetricsNext]_metricsVars => MInv'
  <2> SUFFICES ASSUME MInv, [MetricsNext]_metricsVars PROVE MInv'
    OBVIOUS
  <2>1. CASE UNCHANGED metricsVars
    BY <2>1 DEF metricsVars, MInv, MetricsTypeOK, IdsAreOnes, Around, Live, DownIsDown,
       WriterIsAlone, DiskIsSaved
  <2>2. CASE MetricsNext
    BY <2>2, OpenKeeps, RequestKeeps, SnapshotKeeps, DeleteKeeps, InsertKeeps, CommitRollsKeeps,
       FlushKeeps, AppendKeeps, CommitRowsKeeps, PruneRingKeeps, WriteFailsKeeps, StopKeeps,
       FinalKeeps, DownKeeps, RehydrateKeeps DEF MetricsNext, Write
  <2> QED BY <2>1, <2>2
<1> QED BY <1>1, MetricsInitInv, PTL DEF MetricsSpec

\* Under one id the events of one request are served, whatever was lost, pruned or
\* still queued when the process went down, and a boot finds the counters of the last
\* committed snapshot unless it was torn (seed_request_ids, MetricSnapshotStore).
THEOREM RestartsKeepMetrics == MetricsSpec => MetricsSurvive
<1> DEFINE Restores == phase = "down" /\ phase' = "up" => torn \/ mem' = saved
<1>1. MInv => NamesOneRequest
  <2> SUFFICES ASSUME MInv, NEW n \in 1..next, NEW e \in Breakdown(n), NEW f \in Breakdown(n)
               PROVE  e.req = f.req
    BY DEF NamesOneRequest
  <2>1. e \in ToSet(txn.ring) /\ f \in ToSet(txn.ring) /\ e.id = n /\ f.id = n
    BY DEF Breakdown
  <2>2. e \in Events /\ f \in Events
    BY <2>1 DEF MInv, MetricsTypeOK, ToSet
  <2> QED BY <2>1, <2>2 DEF MInv, IdsAreOnes, Around
<1>2. MInv /\ [MetricsNext]_metricsVars => Restores
  <2> SUFFICES ASSUME MInv, [MetricsNext]_metricsVars, phase = "down", phase' = "up", ~torn
               PROVE  mem' = saved
    OBVIOUS
  <2>1. Rehydrate
    BY DEF MetricsNext, Open, Emit, Answers, Ingest, Write, Snapshot, DeleteRolls, InsertRolls,
       CommitRolls, Flush, AppendRows, CommitRows, PruneRing, WriteFails, Outside, Stop, Final, Down, metricsVars
  <2>2. committed.rolls = saved /\ saved \in Nat
    BY DEF MInv, MetricsTypeOK, DiskIsSaved
  <2>3. mem' = Max({0, saved})
    BY <2>1, <2>2 DEF Rehydrate
  <2>4. saved \in Counts
    BY <2>2 DEF Counts
  <2> QED BY <2>2, <2>3, <2>4, RollsBack
<1>3. MetricsSpec => []NamesOneRequest /\ [][Restores]_metricsVars
  BY <1>1, <1>2, MetricsInductive, PTL DEF MetricsSpec
<1> QED BY <1>3, PTL DEF MetricsSurvive, SnapshotKept

-----------------------------------------------------------------------------
(* Lists, by induction on their length, and what Kept keeps of one.         *)

\* Induction over the naturals, for a set in place of a predicate.
LEMMA AllNaturals ==
  ASSUME NEW T, 0 \in T, \A m \in Nat : m \in T => m + 1 \in T
  PROVE  \A m \in Nat : m \in T
<1> DEFINE Bad == Nat \ T
<1> SUFFICES ASSUME Bad # {} PROVE FALSE
  OBVIOUS
<1>1. PICK m \in Bad : \A y \in Bad : ~(<<y, m>> \in OpToRel(<, Nat))
  <2>1. Bad \subseteq Nat
    OBVIOUS
  <2> HIDE DEF Bad
  <2> QED BY <2>1, NatLessThanWellFounded, WFMin
<1>2. \A y \in Bad : ~(y < m)
  BY <1>1 DEF OpToRel
<1>3. m \in Nat /\ m \notin T
  OBVIOUS
<1>4. m # 0
  BY <1>3
<1>5. m - 1 \in Nat /\ m - 1 < m /\ (m - 1) + 1 = m
  BY <1>3, <1>4
<1>6. m - 1 \in T
  BY <1>2, <1>5
<1> QED BY <1>3, <1>5, <1>6

\* Induction over the sequences, likewise.
LEMMA AllSequences ==
  ASSUME NEW S, NEW T, <<>> \in T,
         \A s \in Seq(S), e \in S : s \in T => Append(s, e) \in T
  PROVE  \A s \in Seq(S) : s \in T
<1> DEFINE Good == {m \in Nat : \A s \in Seq(S) : Len(s) = m => s \in T}
<1>1. 0 \in Good
  BY EmptySeq
<1>2. ASSUME NEW m \in Nat, m \in Good PROVE m + 1 \in Good
  <2> SUFFICES ASSUME NEW s \in Seq(S), Len(s) = m + 1 PROVE s \in T
    OBVIOUS
  <2>1. s # <<>>
    BY EmptySeq
  <2>2. PICK t \in Seq(S), e \in S : s = Append(t, e)
    BY <2>1, SequenceEmptyOrAppend
  <2>3. Len(s) = Len(t) + 1 /\ Len(t) \in Nat
    BY <2>2, AppendProperties, LenProperties
  <2>4. t \in T
    BY <1>2, <2>3
  <2> QED BY <2>2, <2>4
<1>3. \A m \in Nat : m \in Good
  <2> HIDE DEF Good
  <2> QED BY <1>1, <1>2, AllNaturals
<1> QED BY <1>3, LenProperties

-----------------------------------------------------------------------------
(* The filter. *)

\* What is kept of s up to position m, position by position.
Keeps(s, T, m, f) ==
  f = [n \in 0..m |-> IF n = 0 THEN <<>> ELSE IF s[n] \in T THEN Append(f[n - 1], s[n]) ELSE f[n - 1]]

LEMMA KeepsExist == ASSUME NEW s, NEW T PROVE \A m \in Nat : \E f : Keeps(s, T, m, f)
<1> DEFINE Grown(f, n) == IF s[n] \in T THEN Append(f[n - 1], s[n]) ELSE f[n - 1]
           Good == {m \in Nat : \E f : Keeps(s, T, m, f)}
<1>1. 0 \in Good
  <2>1. Keeps(s, T, 0, [n \in 0..0 |-> <<>>])
    BY DEF Keeps
  <2> QED BY <2>1
<1>2. ASSUME NEW k \in Nat, k \in Good PROVE k + 1 \in Good
  <2>1. PICK f : Keeps(s, T, k, f)
    BY <1>2
  <2> DEFINE g == [n \in 0..(k + 1) |-> IF n = k + 1 THEN Grown(f, k + 1) ELSE f[n]]
  <2>2. ASSUME NEW n \in 0..k PROVE g[n] = f[n]
    BY n # k + 1
  <2>3. ASSUME NEW n \in 0..(k + 1) PROVE g[n] = IF n = 0 THEN <<>> ELSE Grown(g, n)
    <3>1. CASE n = k + 1
      <4>1. g[n] = Grown(f, n) /\ n # 0 /\ n - 1 \in 0..k
        BY <3>1
      <4>2. g[n - 1] = f[n - 1]
        BY <2>2, <4>1
      <4> HIDE DEF g
      <4> QED BY <4>1, <4>2
    <3>2. CASE n # k + 1
      <4>1. n \in 0..k /\ (n # 0 => n - 1 \in 0..k)
        BY <3>2
      <4>2. f[n] = IF n = 0 THEN <<>> ELSE Grown(f, n)
        BY <2>1, <4>1 DEF Keeps
      <4>3. g[n] = f[n] /\ (n # 0 => g[n - 1] = f[n - 1])
        BY <2>2, <4>1
      <4> HIDE DEF g
      <4> QED BY <4>2, <4>3
    <3> QED BY <3>1, <3>2
  <2>4. g = [n \in 0..(k + 1) |-> IF n = 0 THEN <<>> ELSE Grown(g, n)]
    <3>1. g = [n \in 0..(k + 1) |-> g[n]]
      OBVIOUS
    <3> HIDE DEF g, Grown
    <3> QED BY <2>3, <3>1
  <2>5. Keeps(s, T, k + 1, g)
    <3> HIDE DEF g
    <3> QED BY <2>4 DEF Keeps
  <2> HIDE DEF g
  <2> QED BY <2>5
<1>3. \A m \in Nat : m \in Good
  <2> HIDE DEF Good
  <2> QED BY <1>1, <1>2, AllNaturals
<1> QED BY <1>3

\* Kept is what its own recursion comes to.
LEMMA KeptIs ==
  ASSUME NEW S, NEW s \in Seq(S), NEW T
  PROVE  \E f : /\ f[0] = <<>>
                /\ \A n \in 1..Len(s) : f[n] = IF s[n] \in T THEN Append(f[n - 1], s[n]) ELSE f[n - 1]
                /\ Kept(s, T) = f[Len(s)]
<1> DEFINE h == CHOOSE f : Keeps(s, T, Len(s), f)
<1>1. Len(s) \in Nat
  BY LenProperties
<1>2. Keeps(s, T, Len(s), h)
  BY <1>1, KeepsExist
<1>3. Kept(s, T) = h[Len(s)]
  BY DEF Keeps, Kept
<1> HIDE DEF h
<1>4. h[0] = <<>>
  BY <1>1, <1>2 DEF Keeps
<1>5. ASSUME NEW n \in 1..Len(s)
      PROVE  h[n] = IF s[n] \in T THEN Append(h[n - 1], s[n]) ELSE h[n - 1]
  <2>1. n \in 0..Len(s) /\ n # 0
    BY <1>1
  <2> QED BY <1>2, <2>1 DEF Keeps
<1> QED BY <1>3, <1>4, <1>5

LEMMA KeptEmpty == ASSUME NEW T PROVE Kept(<<>>, T) = <<>>
<1> SUFFICES ASSUME NEW s \in Seq({}), s = <<>> PROVE Kept(s, T) = <<>>
  BY EmptySeq
<1>1. Len(s) = 0
  BY EmptySeq
<1>2. PICK f : f[0] = <<>> /\ Kept(s, T) = f[Len(s)]
  BY KeptIs
<1> QED BY <1>1, <1>2

\* Kept of one more element has it, or is what it was.
LEMMA KeptAppend ==
  ASSUME NEW S, NEW s \in Seq(S), NEW e \in S, NEW T
  PROVE  Kept(Append(s, e), T) = IF e \in T THEN Append(Kept(s, T), e) ELSE Kept(s, T)
<1> DEFINE t == Append(s, e)
<1>1. /\ t \in Seq(S) /\ Len(t) = Len(s) + 1 /\ Len(s) \in Nat
      /\ \A i \in 1..Len(s) : t[i] = s[i]
      /\ t[Len(s) + 1] = e
  BY AppendProperties, LenProperties
<1> HIDE DEF t
<1>2. PICK f : /\ f[0] = <<>>
               /\ \A n \in 1..Len(t) : f[n] = IF t[n] \in T THEN Append(f[n - 1], t[n]) ELSE f[n - 1]
               /\ Kept(t, T) = f[Len(t)]
  BY <1>1, KeptIs
<1>3. PICK g : /\ g[0] = <<>>
               /\ \A n \in 1..Len(s) : g[n] = IF s[n] \in T THEN Append(g[n - 1], s[n]) ELSE g[n - 1]
               /\ Kept(s, T) = g[Len(s)]
  BY KeptIs
<1> DEFINE Good == {m \in Nat : m <= Len(s) => f[m] = g[m]}
<1>4. 0 \in Good
  BY <1>2, <1>3
<1>5. ASSUME NEW m \in Nat, m \in Good PROVE m + 1 \in Good
  <2> SUFFICES ASSUME m + 1 <= Len(s) PROVE f[m + 1] = g[m + 1]
    OBVIOUS
  <2>1. m + 1 \in 1..Len(s) /\ m + 1 \in 1..Len(t) /\ (m + 1) - 1 = m
    BY <1>1
  <2>2. t[m + 1] = s[m + 1] /\ f[m] = g[m]
    BY <1>1, <1>5, <2>1
  <2>3. f[m + 1] = IF t[m + 1] \in T THEN Append(f[m], t[m + 1]) ELSE f[m]
    BY <1>2, <2>1
  <2>4. g[m + 1] = IF s[m + 1] \in T THEN Append(g[m], s[m + 1]) ELSE g[m]
    BY <1>3, <2>1
  <2> QED BY <2>2, <2>3, <2>4
<1>6. \A m \in Nat : m \in Good
  <2> HIDE DEF Good
  <2> QED BY <1>4, <1>5, AllNaturals
<1>7. f[Len(s)] = g[Len(s)]
  BY <1>1, <1>6
<1>8. Len(t) \in 1..Len(t) /\ Len(t) - 1 = Len(s)
  BY <1>1
<1>9. f[Len(t)] = IF t[Len(t)] \in T THEN Append(f[Len(s)], t[Len(t)]) ELSE f[Len(s)]
  BY <1>2, <1>8
<1>10. t[Len(t)] = e
  BY <1>1
<1>11. Kept(t, T) = IF e \in T THEN Append(Kept(s, T), e) ELSE Kept(s, T)
  BY <1>2, <1>3, <1>7, <1>9, <1>10
<1> QED BY <1>11 DEF t

\* A filtered list has elements of the list only, no more of them, and is the
\* list itself when it has as many.
LEMMA KeptFits ==
  ASSUME NEW S, NEW s \in Seq(S), NEW T
  PROVE  /\ Kept(s, T) \in Seq(S)
         /\ Len(Kept(s, T)) <= Len(s)
         /\ Len(Kept(s, T)) = Len(s) => Kept(s, T) = s
<1> DEFINE Good == {x \in Seq(S) : /\ Kept(x, T) \in Seq(S)
                                   /\ Len(Kept(x, T)) <= Len(x)
                                   /\ Len(Kept(x, T)) = Len(x) => Kept(x, T) = x}
<1>1. <<>> \in Good
  <2>1. Kept(<<>>, T) = <<>> /\ <<>> \in Seq(S) /\ Len(<<>>) <= Len(<<>>)
    BY KeptEmpty, EmptySeq
  <2> QED BY <2>1
<1>2. ASSUME NEW x \in Seq(S), NEW e \in S, x \in Good PROVE Append(x, e) \in Good
  <2>1. /\ Append(x, e) \in Seq(S) /\ Len(Append(x, e)) = Len(x) + 1 /\ Len(x) \in Nat
    BY AppendProperties, LenProperties
  <2>2. CASE e \in T
    <3>1. Kept(Append(x, e), T) = Append(Kept(x, T), e) /\ Kept(x, T) \in Seq(S)
      BY <1>2, <2>2, KeptAppend
    <3>2. /\ Append(Kept(x, T), e) \in Seq(S)
          /\ Len(Append(Kept(x, T), e)) = Len(Kept(x, T)) + 1
          /\ Len(Kept(x, T)) \in Nat
      BY <3>1, AppendProperties, LenProperties
    <3>3. Len(Append(Kept(x, T), e)) <= Len(Append(x, e))
      BY <1>2, <2>1, <3>2
    <3>4. Len(Append(Kept(x, T), e)) = Len(Append(x, e)) => Kept(x, T) = x
      BY <1>2, <2>1, <3>2
    <3> HIDE DEF Good
    <3>5. Kept(Append(x, e), T) \in Seq(S)
      BY <3>1, <3>2
    <3> USE DEF Good
    <3> QED BY <2>1, <3>1, <3>3, <3>4, <3>5
  <2>3. CASE e \notin T
    <3>1. Kept(Append(x, e), T) = Kept(x, T)
      BY <2>3, KeptAppend
    <3>2. Kept(x, T) \in Seq(S) /\ Len(Kept(x, T)) \in Nat
      BY <1>2, LenProperties
    <3> QED BY <1>2, <2>1, <3>1, <3>2
  <2> QED BY <2>2, <2>3
<1>3. \A x \in Seq(S) : x \in Good
  <2> HIDE DEF Good
  <2> QED BY <1>1, <1>2, AllSequences
<1> QED BY <1>3

-----------------------------------------------------------------------------
(* The chapters of a source.                                                *)

Stops == {"new", "lane", "token", "read", "list", "call", "eval", "batch", "page",
          "done", "failed", "unreadable"}

\* What each job is at, before and after it has its manifest.
JobTypeOK(j) ==
  /\ where[j] \in Stops
  /\ pages[j] \in Seq(Positions)
  /\ calls[j] \in Nat
  /\ IsFiniteSet(got[j])
  /\ tried[j] \subseteq Zones
  /\ preferred[j] \in Zones \cup {None}
  /\ reresolves[j] \in Nat

\* The way of a job is that of its source.
WayOK(j) ==
  /\ where[j] \in {"lane", "eval"} => src = "comix"
  /\ where[j] \in {"read", "call"} => src = "projectsuki"
  /\ where[j] \in {"token", "list"} => src \notin {"comix", "projectsuki"}
  /\ src = "projectsuki" /\ where[j] \in {"new", "read"} => calls[j] = 0

\* The handle of a job is of a chapter that the source serves; what is found is
\* what the handle is taken for.
ReleaseOK(j) ==
  /\ where[j] # "new" => chapter[j] \in Served /\ handle[j] \in ReleaseIds(chapter[j])
  /\ where[j] \in {"call", "batch", "page", "done"} => found[j] = Resolved(j)

Rising(s) == \A m, n \in DOMAIN s : m < n => s[m] < s[n]
Strict == src \in {"mangadex", "atsumaru", "mangafire", "comix"} \/ (declared /\ src # "mangadot")

\* The manifest grows call by call, in order.
ManifestOK(j) ==
  /\ where[j] = "call" => calls[j] + 1 <= NumPages /\ pages[j] = Readable(calls[j] + 1)
  /\ where[j] \in {"batch", "page", "done"} =>
       pages[j] # <<>> /\ Rising(pages[j]) /\ (Strict => pages[j] = Listing)

\* The pages come in the order of the manifest.
Fetched(j) ==
  /\ Cardinality(got[j]) <= Len(pages[j])
  /\ got[j] = {pages[j][i] : i \in 1..Cardinality(got[j])}
FetchesOK(j) ==
  /\ where[j] \notin {"page", "done", "failed"} => got[j] = {}
  /\ where[j] = "page" => Fetched(j) /\ Cardinality(got[j]) < Len(pages[j])
  /\ where[j] = "done" => Fetched(j) /\ Cardinality(got[j]) = Len(pages[j])

\* What was refused: a zone is passed over for this very page only, and each manifest
\* that was given up met a 403.
RefusedUpTo(j, n) == \A m \in 0..n : \E r \in denials[j] : r.manifest = m
RefusalsOK(j) ==
  /\ tried[j] # {} => src = "mangafire" /\ where[j] \in {"page", "failed"} /\ tried[j] \subseteq RefusedBy(j)
  /\ reresolves[j] <= MaxReresolves /\ RefusedUpTo(j, reresolves[j] - 1)
  /\ where[j] = "failed" =>
       \/ broken[j]
       \/ IF src = "mangafire" THEN Zones \subseteq RefusedBy(j) ELSE RefusedUpTo(j, MaxReresolves)

JobOK(j) ==
  JobTypeOK(j) /\ WayOK(j) /\ ReleaseOK(j) /\ ManifestOK(j) /\ FetchesOK(j) /\ RefusalsOK(j)

PagesDomainsOK ==
  /\ src \in Sources
  /\ DOMAIN where = Jobs /\ DOMAIN chapter = Jobs /\ DOMAIN handle = Jobs /\ DOMAIN found = Jobs
  /\ DOMAIN pages = Jobs /\ DOMAIN calls = Jobs /\ DOMAIN got = Jobs /\ DOMAIN tried = Jobs
  /\ DOMAIN preferred = Jobs /\ DOMAIN reresolves = Jobs
  /\ DOMAIN denials = Jobs /\ DOMAIN broken = Jobs
PagesInv == PagesDomainsOK /\ \A j \in Jobs : JobOK(j)

-----------------------------------------------------------------------------
\* A set of naturals has a least element.
LEMMA LeastIs ==
  ASSUME NEW S \in SUBSET Nat, S # {} PROVE \E m \in S : \A k \in S : m <= k
<1>1. PICK m \in S : \A y \in S : ~(<<y, m>> \in OpToRel(<, Nat))
  BY NatLessThanWellFounded, WFMin
<1>2. \A y \in S : ~(y < m)
  BY <1>1 DEF OpToRel
<1> QED BY <1>2

\* Among duplicates there is a newest, and of those a first.
LEMMA PickIs ==
  ASSUME NEW S \in SUBSET Chapters, S # {} PROVE PickAmongDuplicates(S) \in S
<1> USE PagesAssumption DEF PagesAssumption
<1> DEFINE Ages == {c.age : c \in S}
<1>1. Ages \in SUBSET Nat /\ Ages # {}
  OBVIOUS
<1>2. PICK m \in Ages : \A k \in Ages : m <= k
  <2> HIDE DEF Ages
  <2> QED BY <1>1, LeastIs
<1> DEFINE Ids == {c.id : c \in {d \in S : d.age = m}}
<1>3. Ids \in SUBSET Nat /\ Ids # {}
  OBVIOUS
<1>4. PICK i \in Ids : \A k \in Ids : i <= k
  <2> HIDE DEF Ids
  <2> QED BY <1>3, LeastIs
<1>5. PICK c \in S : c.age = m /\ c.id = i
  OBVIOUS
<1>6. ASSUME NEW d \in S PROVE c.age < d.age \/ (c.age = d.age /\ c.id <= d.id)
  <2>1. d.age \in Ages /\ d.age \in Nat /\ d.id \in Nat /\ c.age \in Nat /\ c.id \in Nat
    OBVIOUS
  <2>2. c.age <= d.age
    BY <1>2, <1>5, <2>1
  <2>3. d.age = c.age => c.id <= d.id
    <3>1. d.age = m => d.id \in Ids
      OBVIOUS
    <3> QED BY <1>4, <1>5, <3>1
  <2> QED BY <2>1, <2>2, <2>3
<1> QED BY <1>6 DEF PickAmongDuplicates

\* What the handle of a release is taken for has the number of the release, and is
\* the release itself unless its id was deferred.
LEMMA RightChapter ==
  ASSUME NEW j \in Jobs, chapter[j] \in Served, handle[j] \in ReleaseIds(chapter[j])
  PROVE  IF Deferred(j) THEN Resolved(j).num = chapter[j].num ELSE Resolved(j) = chapter[j]
<1> DEFINE c == chapter[j]
<1>1. Served \subseteq Chapters /\ c \in Chapters /\ c.user \in BOOLEAN
  BY PagesAssumption DEF Served, PagesAssumption
<1>2. CASE Deferred(j)
  <2> DEFINE S == {d \in Served : d.num = handle[j].num}
  <2>1. src = "comix" /\ handle[j].tag = "DEFERRED"
    BY <1>2 DEF Deferred
  <2>2. handle[j] \in {ComixId(c), ComixDeferred(c)}
    BY <2>1 DEF ReleaseIds
  <2>3. handle[j].num = c.num
    BY <2>2 DEF ComixId, ComixDeferred
  <2>4. c \in S /\ S \in SUBSET Chapters
    BY <1>1, <2>3
  <2>5. PickAmongDuplicates(S) \in S
    <3> HIDE DEF S
    <3> QED BY <2>4, PickIs
  <2>6. Resolved(j) = PickAmongDuplicates(S)
    BY <2>1 DEF Resolved, Deferred
  <2> QED BY <1>2, <2>3, <2>5, <2>6
<1>3. CASE ~Deferred(j) /\ src = "mangadot"
  <2> DEFINE tag == IF c.user THEN "user" ELSE ""
  <2>1. handle[j] = [tag |-> tag, id |-> c.id, num |-> 0]
    BY <1>3 DEF ReleaseIds, MangaDotId, BareId
  <2>2. handle[j].id = c.id /\ (c.user <=> handle[j].tag = "user")
    <3>1. handle[j].id = c.id
      <4> HIDE DEF tag, c
      <4> QED BY <2>1
    <3>2. handle[j].tag = tag
      <4> HIDE DEF tag, c
      <4> QED BY <2>1
    <3>3. "user" # ""
      OBVIOUS
    <3> HIDE DEF c
    <3> QED BY <1>1, <3>1, <3>2, <3>3
  <2>3. \A d \in Served : d.id = c.id /\ (d.user <=> handle[j].tag = "user") => d = c
    BY <1>1, <2>2, PagesAssumption DEF PagesAssumption
  <2>4. Resolved(j) = CHOOSE d \in Served : d.id = handle[j].id /\ (d.user <=> handle[j].tag = "user")
    BY <1>3 DEF Resolved
  <2> QED BY <1>3, <2>2, <2>3, <2>4
<1>4. CASE ~Deferred(j) /\ src # "mangadot"
  <2>1. handle[j].id = c.id
    <3>1. src = "comix" => handle[j] = ComixId(c)
      BY <1>4 DEF ReleaseIds, Deferred, ComixDeferred
    <3>2. src # "comix" => handle[j] \in {AtsumaruId(c), ProjectSukiId(c), BareId(c)}
      BY <1>4 DEF ReleaseIds
    <3>3. /\ ComixId(c).id = c.id /\ BareId(c).id = c.id
          /\ AtsumaruId(c).id = c.id /\ ProjectSukiId(c).id = c.id
      BY DEF ComixId, AtsumaruId, ProjectSukiId, BareId
    <3> HIDE DEF c
    <3> QED BY <3>1, <3>2, <3>3
  <2>2. \A d \in Served : d.id = c.id => d = c
    BY <1>1, <1>4, PagesAssumption DEF PagesAssumption, Served
  <2>3. Resolved(j) = CHOOSE d \in Served : d.id = handle[j].id
    BY <1>4 DEF Resolved
  <2> QED BY <1>4, <2>1, <2>2, <2>3
<1> QED BY <1>2, <1>3, <1>4

-----------------------------------------------------------------------------
(* The listing of a chapter.                                                *)

\* The whole listing is a rising list of all positions.
LEMMA ListingIs ==
  /\ Listing \in Seq(Positions) /\ Len(Listing) = NumPages /\ Listing # <<>> /\ Rising(Listing)
  /\ Unreadable \in Seq(Positions)
<1> USE PagesAssumption DEF PagesAssumption
<1>1. Listing \in [1..NumPages -> Positions] /\ NumPages \in Nat
  BY DEF Listing, Positions
<1>2. Listing \in Seq(Positions) /\ Len(Listing) = NumPages
  BY <1>1
<1>3. Listing # <<>>
  BY <1>2
<1>4. Rising(Listing)
  BY <1>1 DEF Listing, Positions, Rising
<1>5. Unreadable \in Seq(Positions)
  BY DEF Unreadable
<1> QED BY <1>2, <1>3, <1>4, <1>5

\* One more entry is passed over or appended.
LEMMA ReadableGrows ==
  /\ Readable(0) = <<>>
  /\ \A n \in Nat : Readable(n + 1) = IF n + 1 \in Legible THEN Append(Readable(n), n + 1) ELSE Readable(n)
<1>1. Readable(0) = <<>>
  <2>1. [i \in 1..0 |-> i] = <<>>
    OBVIOUS
  <2> QED BY <2>1, KeptEmpty DEF Readable
<1>2. ASSUME NEW n \in Nat
      PROVE  Readable(n + 1) = IF n + 1 \in Legible THEN Append(Readable(n), n + 1) ELSE Readable(n)
  <2> DEFINE s == [i \in 1..n |-> i]
             t == [i \in 1..(n + 1) |-> i]
  <2>1. s \in Seq(Nat) /\ Len(s) = n /\ n + 1 \in Nat
    OBVIOUS
  <2>2. Append(s, n + 1) = t
    <3>1. /\ Append(s, n + 1) \in Seq(Nat) /\ Len(Append(s, n + 1)) = n + 1
          /\ \A i \in 1..n : Append(s, n + 1)[i] = s[i]
          /\ Append(s, n + 1)[n + 1] = n + 1
      <4> HIDE DEF s
      <4> QED BY <2>1, AppendProperties
    <3>2. t \in Seq(Nat) /\ Len(t) = n + 1
      OBVIOUS
    <3>3. \A i \in 1..(n + 1) : Append(s, n + 1)[i] = t[i]
      <4> SUFFICES ASSUME NEW i \in 1..(n + 1) PROVE Append(s, n + 1)[i] = i
        OBVIOUS
      <4>1. CASE i = n + 1
        BY <3>1, <4>1
      <4>2. CASE i # n + 1
        <5>1. i \in 1..n /\ s[i] = i
          BY <4>2
        <5> HIDE DEF s
        <5> QED BY <3>1, <5>1
      <4> QED BY <4>1, <4>2
    <3> HIDE DEF s, t
    <3> QED BY <3>1, <3>2, <3>3, SeqEqual
  <2>3. Kept(Append(s, n + 1), Legible)
          = IF n + 1 \in Legible THEN Append(Kept(s, Legible), n + 1) ELSE Kept(s, Legible)
    <3> DEFINE e == n + 1
    <3>1. s \in Seq(Nat) /\ e \in Nat
      BY <2>1
    <3> HIDE DEF s, t, e
    <3>2. Kept(Append(s, e), Legible) = IF e \in Legible THEN Append(Kept(s, Legible), e) ELSE Kept(s, Legible)
      BY <3>1, KeptAppend
    <3> QED BY <3>2 DEF e
  <2>4. Readable(n) = Kept(s, Legible) /\ Readable(n + 1) = Kept(t, Legible)
    BY DEF Readable
  <2> HIDE DEF s, t
  <2> QED BY <2>2, <2>3, <2>4
<1> QED BY <1>1, <1>2

\* What can be read of the first n entries is in order.
LEMMA ReadableIs ==
  ASSUME NEW n \in Nat PROVE Readable(n) \in Seq(Positions \cap 1..n) /\ Rising(Readable(n))
<1> DEFINE Good == {m \in Nat : Readable(m) \in Seq(Positions \cap 1..m) /\ Rising(Readable(m))}
<1>1. 0 \in Good
  <2>1. <<>> \in Seq(Positions \cap 1..0) /\ Rising(<<>>)
    BY EmptySeq DEF Rising
  <2> QED BY <2>1, ReadableGrows
<1>2. ASSUME NEW m \in Nat, m \in Good PROVE m + 1 \in Good
  <2> DEFINE s == Readable(m)
             t == Readable(m + 1)
  <2>1. s \in Seq(Positions \cap 1..m) /\ Rising(s)
    BY <1>2
  <2>2. t = IF m + 1 \in Legible THEN Append(s, m + 1) ELSE s
    BY ReadableGrows
  <2> HIDE DEF s, t
  <2>3. s \in Seq(Positions \cap 1..(m + 1))
    <3>1. Positions \cap 1..m \subseteq Positions \cap 1..(m + 1)
      OBVIOUS
    <3> QED BY <2>1, <3>1, SeqMonotonic
  <2>4. CASE m + 1 \in Legible
    <3>1. m + 1 \in Positions \cap 1..(m + 1)
      BY <2>4 DEF Legible
    <3>2. t = Append(s, m + 1)
      BY <2>2, <2>4
    <3>3. /\ t \in Seq(Positions \cap 1..(m + 1)) /\ Len(t) = Len(s) + 1
          /\ \A i \in 1..Len(s) : t[i] = s[i]
          /\ t[Len(s) + 1] = m + 1
      BY <2>3, <3>1, <3>2, AppendProperties
    <3>4. /\ Len(s) \in Nat /\ DOMAIN s = 1..Len(s) /\ DOMAIN t = 1..(Len(s) + 1)
          /\ \A i \in 1..Len(s) : s[i] \in 1..m
      BY <2>1, <3>3, LenProperties, ElementOfSeq
    <3>5. ASSUME NEW i \in DOMAIN t, NEW k \in DOMAIN t, i < k PROVE t[i] < t[k]
      <4>1. i \in 1..Len(s) /\ t[i] = s[i] /\ s[i] \in 1..m
        BY <3>3, <3>4, <3>5
      <4>2. CASE k = Len(s) + 1
        BY <3>3, <4>1, <4>2
      <4>3. CASE k # Len(s) + 1
        <5>1. k \in 1..Len(s) /\ t[k] = s[k]
          BY <3>3, <3>4, <4>3
        <5> QED BY <2>1, <3>4, <3>5, <4>1, <5>1 DEF Rising
      <4> QED BY <4>2, <4>3
    <3> QED BY <3>3, <3>5 DEF Rising, t
  <2>5. CASE m + 1 \notin Legible
    BY <2>1, <2>2, <2>3, <2>5 DEF t
  <2> QED BY <2>4, <2>5
<1>3. \A m \in Nat : m \in Good
  <2> HIDE DEF Good
  <2> QED BY <1>1, <1>2, AllNaturals
<1> QED BY <1>3

\* All the entries that can be read, if as many as there are, are the chapter.
LEMMA ReadableAll ==
  /\ Readable(NumPages) \in Seq(Positions) /\ Rising(Readable(NumPages))
  /\ Len(Readable(NumPages)) = NumPages => Readable(NumPages) = Listing
<1>1. NumPages \in Nat /\ Positions \cap 1..NumPages = Positions
  BY PagesAssumption DEF PagesAssumption, Positions
<1>2. Readable(NumPages) = Kept(Listing, Legible)
  BY DEF Readable, Listing, Positions
<1> QED BY <1>1, <1>2, ListingIs, ReadableIs, KeptFits

\* What the extraction of a manifest may give: nothing, or pages in order, all of
\* them where the source or the release is strict.
ManifestIs(s) ==
  s \in Seq(Positions) /\ Rising(s) /\ (s # <<>> /\ Strict => s = Listing)

\* A count that agrees with the declared one is of a whole listing.
LEMMA CountedIs ==
  ASSUME NEW s, ManifestIs(s) \/ s = Readable(NumPages), src # "mangadot"
  PROVE  Counted(s) \in Seq(Positions) /\ Rising(Counted(s))
         /\ (Counted(s) # <<>> /\ declared => Counted(s) = Listing)
<1>1. CASE s = Readable(NumPages)
  <2>1. Rising(Unreadable)
    BY DEF Rising, Unreadable
  <2> QED BY <1>1, <2>1, ReadableAll, ListingIs DEF Counted, Unreadable
<1>2. CASE ManifestIs(s)
  <2>1. Rising(Unreadable)
    BY DEF Rising, Unreadable
  <2>2. declared => Strict
    BY DEF Strict
  <2> QED BY <1>2, <2>1, <2>2, ListingIs DEF Counted, ManifestIs, Unreadable
<1> QED BY <1>1, <1>2

LEMMA WholeIs == ManifestIs(Whole) /\ ManifestIs(Unreadable)
<1>1. Rising(Unreadable)
  BY DEF Rising, Unreadable
<1> QED BY <1>1, ListingIs DEF Whole, ManifestIs, Unreadable

\* Each source lists what it can read, in order, or refuses.
LEMMA ListedPagesAre ==
  ASSUME src \in Sources \ {"projectsuki"} PROVE ManifestIs(IF src = "comix" THEN ComixPages ELSE ListedPages)
<1>1. CASE src = "comix"
  BY <1>1, WholeIs DEF ComixPages
<1>2. CASE src = "mangadex"
  BY <1>2, WholeIs DEF ListedPages, MangaDexPages
<1>3. CASE src = "mangadot"
  <2>1. ListedPages = Readable(NumPages) /\ ~Strict
    BY <1>3 DEF ListedPages, MangaDotPages, Strict
  <2> QED BY <1>3, <2>1, ReadableAll DEF ManifestIs
<1>4. CASE src \in {"mangafire", "atsumaru"}
  <2>1. ListedPages = Counted(Whole)
    BY <1>4 DEF ListedPages, MangaFirePages, AtsumaruPages
  <2>2. Whole = Listing \/ Whole = <<>>
    BY DEF Whole, Unreadable
  <2>3. Counted(Whole) = <<>> \/ Counted(Whole) = Listing
    BY <2>2 DEF Counted, Unreadable
  <2> QED BY <1>4, <2>1, <2>3, WholeIs, ListingIs DEF ManifestIs, Unreadable
<1>5. CASE src \in {"mangaball", "weebcentral", "kagane"}
  <2>1. ListedPages \in {Counted(Readable(NumPages)), Unreadable}
    <3>1. CASE src \in {"mangaball", "weebcentral"}
      BY <3>1 DEF ListedPages, MangaBallPages, WeebCentralPages
    <3>2. CASE src = "kagane"
      <4>1. ListedPages = KaganePages
        BY <3>2 DEF ListedPages
      <4> QED BY <4>1 DEF KaganePages
    <3> QED BY <1>5, <3>1, <3>2
  <2>2. Strict <=> declared
    BY <1>5 DEF Strict
  <2>3. ManifestIs(Counted(Readable(NumPages)))
    BY <1>5, <2>2, CountedIs DEF ManifestIs
  <2> QED BY <1>5, <2>1, <2>3, WholeIs
<1> QED BY <1>1, <1>2, <1>3, <1>4, <1>5, SourcesAssumption DEF SourcesAssumption

-----------------------------------------------------------------------------
(* The steps.                                                               *)

LEMMA PagesInvInit == PagesInit => PagesInv
<1> SUFFICES ASSUME PagesInit PROVE PagesInv
  OBVIOUS
<1>1. PagesDomainsOK
  BY DEF PagesInit, PagesDomainsOK
<1>2. ASSUME NEW j \in Jobs PROVE JobOK(j)
  <2>1. /\ where[j] = "new" /\ pages[j] = <<>> /\ calls[j] = 0 /\ got[j] = {}
        /\ tried[j] = {} /\ preferred[j] = None /\ reresolves[j] = 0
    BY DEF PagesInit
  <2>2. IsFiniteSet({})
    BY FS_EmptySet
  <2>3. <<>> \in Seq(Positions)
    BY EmptySeq
  <2>4. JobTypeOK(j)
    <3>1. where[j] \in Stops /\ calls[j] \in Nat
      BY <2>1 DEF Stops
    <3>2. pages[j] \in Seq(Positions) /\ IsFiniteSet(got[j]) /\ tried[j] \subseteq Zones
      BY <2>1, <2>2, <2>3
    <3>3. preferred[j] \in Zones \cup {None} /\ reresolves[j] \in Nat
      BY <2>1
    <3> QED BY <3>1, <3>2, <3>3 DEF JobTypeOK
  <2>5. RefusalsOK(j)
    BY <2>1, PagesAssumption DEF RefusalsOK, RefusedUpTo, PagesAssumption
  <2> QED BY <2>1, <2>4, <2>5 DEF JobOK, WayOK, ReleaseOK, ManifestOK, FetchesOK
<1> QED BY <1>1, <1>2 DEF PagesInv

\* A job that a step does not touch stays as it is.
Untouched(j) ==
  /\ where'[j] = where[j] /\ chapter'[j] = chapter[j] /\ handle'[j] = handle[j]
  /\ found'[j] = found[j] /\ pages'[j] = pages[j] /\ calls'[j] = calls[j] /\ got'[j] = got[j]
  /\ tried'[j] = tried[j] /\ preferred'[j] = preferred[j] /\ reresolves'[j] = reresolves[j]
  /\ denials'[j] = denials[j] /\ broken'[j] = broken[j]

\* What was refused to it stands while it is asked for no page.
SameRefusals(j) ==
  /\ tried'[j] = tried[j] /\ reresolves'[j] = reresolves[j] /\ denials'[j] = denials[j]
  /\ broken'[j] = broken[j] /\ got'[j] = got[j]

\* What is said of a release and a manifest is said of the site and its constants.
LEMMA SameSite ==
  ASSUME UNCHANGED siteVars
  PROVE  /\ Served' = Served /\ (Strict' <=> Strict)
         /\ \A n : Readable(n)' = Readable(n)
         /\ \A c : ReleaseIds(c)' = ReleaseIds(c)
<1>1. src' = src /\ entry' = entry /\ declared' = declared
  BY DEF siteVars
<1>2. Served' = Served /\ (Strict' <=> Strict)
  BY <1>1 DEF Served, Strict
<1>3. Legible' = Legible
  BY <1>1 DEF Legible
<1>4. \A n : Readable(n)' = Readable(n)
  BY <1>3 DEF Readable
<1>5. \A c : ReleaseIds(c)' = ReleaseIds(c)
  BY <1>1 DEF ReleaseIds
<1> QED BY <1>2, <1>4, <1>5

\* What a handle is taken for depends on the source and on the handle.
LEMMA SameHandle ==
  ASSUME UNCHANGED siteVars, NEW j \in Jobs, handle'[j] = handle[j]
  PROVE  Resolved(j)' = Resolved(j) /\ (Deferred(j)' <=> Deferred(j))
<1>1. src' = src /\ Served' = Served
  BY SameSite DEF siteVars
<1> QED BY <1>1 DEF Resolved, Deferred

\* A job that no step touches stays as it was.
LEMMA UntouchedKeeps ==
  ASSUME UNCHANGED siteVars, NEW j \in Jobs, JobOK(j), Untouched(j) PROVE JobOK(j)'
<1> USE DEF Untouched
<1>1. src' = src
  BY DEF siteVars
<1>2. JobTypeOK(j)' /\ WayOK(j)' /\ FetchesOK(j)'
  BY <1>1 DEF JobOK, JobTypeOK, WayOK, FetchesOK, Fetched
<1>3. ReleaseOK(j)'
  BY SameSite, SameHandle DEF JobOK, ReleaseOK
<1>4. ManifestOK(j)'
  BY SameSite DEF JobOK, ManifestOK, Rising
<1>5. RefusalsOK(j)'
  BY <1>1 DEF JobOK, RefusalsOK, RefusedUpTo, RefusedBy, NextPage
<1> QED BY <1>2, <1>3, <1>4, <1>5 DEF JobOK

\* So a step of one job keeps the invariant if it keeps what holds of that job.
Touches(j) ==
  /\ UNCHANGED siteVars
  /\ DOMAIN where' = Jobs /\ DOMAIN chapter' = Jobs /\ DOMAIN handle' = Jobs /\ DOMAIN found' = Jobs
  /\ DOMAIN pages' = Jobs /\ DOMAIN calls' = Jobs /\ DOMAIN got' = Jobs /\ DOMAIN tried' = Jobs
  /\ DOMAIN preferred' = Jobs /\ DOMAIN reresolves' = Jobs
  /\ DOMAIN denials' = Jobs /\ DOMAIN broken' = Jobs
  /\ \A i \in Jobs \ {j} : Untouched(i)

\* A step of one job leaves the others alone.
LEMMA TouchKeeps ==
  ASSUME PagesInv, NEW j \in Jobs, Touches(j), JobOK(j)' PROVE PagesInv'
<1>1. PagesDomainsOK'
  BY DEF PagesInv, PagesDomainsOK, Touches, siteVars
<1>2. ASSUME NEW i \in Jobs PROVE JobOK(i)'
  BY UntouchedKeeps DEF PagesInv, Touches
<1> QED BY <1>1, <1>2 DEF PagesInv

\* A job that is not at a page, nor failed, and stays so has nothing new refused.
LEMMA RefusalsKept ==
  ASSUME PagesInv, NEW j \in Jobs, SameRefusals(j), UNCHANGED siteVars,
         where[j] \notin {"page", "failed"}, where'[j] # "failed"
  PROVE  RefusalsOK(j)'
<1>1. RefusalsOK(j) /\ src' = src
  BY DEF PagesInv, JobOK, siteVars
<1>2. tried[j] = {}
  BY <1>1 DEF RefusalsOK
<1> QED BY <1>1, <1>2 DEF SameRefusals, RefusalsOK, RefusedUpTo

\* Steps before the manifest, that only lead a job on its way.
LEMMA LeadKeeps ==
  ASSUME PagesInv, NEW j \in Jobs, NEW p \in Stops \ {"new", "call", "batch", "page", "done", "failed"},
         where[j] \notin {"new", "page", "done", "failed"},
         Proceed(j, p) \/ (where' = where /\ where[j] = p),
         UNCHANGED <<siteVars, chapter, handle, found, pages, imageVars>>,
         calls' = calls \/ (src # "projectsuki" /\ calls' = [calls EXCEPT ![j] = @ + 1]),
         p \in {"lane", "eval"} => src = "comix",
         p = "read" => src = "projectsuki" /\ calls' = calls /\ calls[j] = 0,
         p \in {"token", "list"} => src \notin {"comix", "projectsuki"}
  PROVE  PagesInv'
<1> USE DEF Proceed, imageVars
<1>1. JobOK(j) /\ where'[j] = p
  BY DEF PagesInv, PagesDomainsOK
<1>2. Touches(j)
  BY DEF PagesInv, PagesDomainsOK, Touches, Untouched
<1>3. src' = src
  BY DEF siteVars
<1>4. JobTypeOK(j)' /\ WayOK(j)' /\ FetchesOK(j)'
  BY <1>1, <1>3 DEF JobOK, JobTypeOK, WayOK, FetchesOK, Fetched, Stops, PagesInv, PagesDomainsOK
<1>5. ReleaseOK(j)'
  BY <1>1, SameSite, SameHandle DEF JobOK, ReleaseOK
<1>6. ManifestOK(j)'
  BY <1>1 DEF ManifestOK
<1>7. RefusalsOK(j)'
  BY <1>1, RefusalsKept DEF SameRefusals
<1> QED BY <1>1, <1>2, <1>4, <1>5, <1>6, <1>7, TouchKeeps DEF JobOK

LEMMA SubmitKeeps == ASSUME PagesInv, NEW j \in Jobs, Submit(j) PROVE PagesInv'
<1> USE DEF Submit, Proceed, FetchManifest, imageVars
<1>1. JobOK(j) /\ where[j] = "new"
  BY DEF PagesInv
<1>2. PICK c \in Served : \E e \in ReleaseIds(c) :
        chapter' = [chapter EXCEPT ![j] = c] /\ handle' = [handle EXCEPT ![j] = e]
  OBVIOUS
<1>3. Touches(j)
  BY <1>2 DEF PagesInv, PagesDomainsOK, Touches, Untouched
<1>4. chapter'[j] = c /\ handle'[j] \in ReleaseIds(c) /\ c \in Served /\ src' = src
  BY <1>2 DEF PagesInv, PagesDomainsOK, siteVars
<1>5. /\ where'[j] \in {"lane", "token", "read", "list"}
      /\ where'[j] = "lane" => src = "comix"
      /\ where'[j] = "read" => src = "projectsuki"
      /\ where'[j] \in {"token", "list"} => src \notin {"comix", "projectsuki"}
  <2>1. where'[j] = CASE src = "comix" -> "lane" [] src = "kagane" -> "token"
                      [] src = "projectsuki" -> "read" [] OTHER -> "list"
    BY DEF PagesInv, PagesDomainsOK
  <2> HIDE DEF Submit, Proceed, FetchManifest
  <2> QED BY <2>1
<1>6. /\ pages'[j] = pages[j] /\ calls'[j] = calls[j] /\ preferred'[j] = preferred[j]
      /\ SameRefusals(j) /\ UNCHANGED siteVars
  BY DEF SameRefusals
<1> HIDE DEF Submit, Proceed, FetchManifest, imageVars
<1>7. JobTypeOK(j)' /\ WayOK(j)' /\ FetchesOK(j)'
  BY <1>1, <1>4, <1>5, <1>6 DEF JobOK, JobTypeOK, WayOK, FetchesOK, Stops, SameRefusals
<1>8. ReleaseOK(j)'
  BY <1>3, <1>4, <1>5, SameSite DEF ReleaseOK, Touches
<1>9. ManifestOK(j)'
  BY <1>5 DEF ManifestOK
<1>10. RefusalsOK(j)'
  BY <1>1, <1>5, <1>6, RefusalsKept
<1> QED BY <1>3, <1>7, <1>8, <1>9, <1>10, TouchKeeps DEF JobOK

\* A step that extracts the manifest.
LEMMA ExtractedKeeps ==
  ASSUME PagesInv, NEW j \in Jobs, NEW s, ManifestIs(s), Extracted(j, s),
         where[j] \in {"list", "eval", "call"},
         (found' = found /\ where[j] = "call") \/ Finds(j),
         calls' = calls \/ calls' = [calls EXCEPT ![j] = @ + 1],
         UNCHANGED <<siteVars, chapter, handle, imageVars>>
  PROVE  PagesInv'
<1> USE DEF Extracted, Finds, Proceed, imageVars
<1>1. JobOK(j) /\ pages'[j] = s
  BY DEF PagesInv, PagesDomainsOK
<1>2. Touches(j)
  BY DEF PagesInv, PagesDomainsOK, Touches, Untouched
<1>3. /\ where'[j] \in {"unreadable", "batch", "page"}
      /\ where'[j] # "unreadable" => s # <<>>
      /\ src' = src
  BY DEF PagesInv, PagesDomainsOK, siteVars, Unreadable
<1>4. found'[j] = Resolved(j)
  BY <1>1 DEF JobOK, ReleaseOK, PagesInv, PagesDomainsOK
<1>5. /\ chapter'[j] = chapter[j] /\ handle'[j] = handle[j] /\ preferred'[j] = preferred[j]
      /\ SameRefusals(j) /\ UNCHANGED siteVars
  BY DEF SameRefusals
<1>6. calls'[j] \in Nat
  BY <1>1 DEF JobOK, JobTypeOK, PagesInv, PagesDomainsOK
<1> HIDE DEF Extracted, Finds, Proceed, imageVars
<1>7. JobTypeOK(j)'
  BY <1>1, <1>3, <1>5, <1>6 DEF JobOK, JobTypeOK, ManifestIs, Stops, SameRefusals
<1>8. WayOK(j)'
  BY <1>3 DEF WayOK
<1>9. ReleaseOK(j)'
  BY <1>1, <1>3, <1>4, <1>5, SameSite, SameHandle DEF JobOK, ReleaseOK
<1>10. ManifestOK(j)'
  <2>1. Strict' <=> Strict
    BY SameSite
  <2>2. Rising(pages[j])'
    BY <1>1 DEF ManifestIs, Rising
  <2> QED BY <1>1, <1>3, <2>1, <2>2 DEF ManifestOK, ManifestIs
<1>11. FetchesOK(j)'
  <2>1. got[j] = {} /\ Cardinality({}) = 0
    BY <1>1, FS_EmptySet DEF JobOK, FetchesOK
  <2>2. where'[j] = "page" => Len(s) \in Nat /\ Len(s) # 0
    BY <1>3, EmptySeq DEF ManifestIs
  <2>3. {s[i] : i \in 1..0} = {}
    OBVIOUS
  <2> QED BY <1>1, <1>3, <1>5, <2>1, <2>2, <2>3 DEF FetchesOK, Fetched, SameRefusals
<1>12. RefusalsOK(j)'
  BY <1>3, <1>5, RefusalsKept
<1> QED BY <1>2, <1>7, <1>8, <1>9, <1>10, <1>11, <1>12, TouchKeeps DEF JobOK

LEMMA ManifestKeeps ==
  ASSUME PagesInv, NEW j \in Jobs, Manifest(j) \/ EvalManifest(j) PROVE PagesInv'
<1>1. JobOK(j) /\ src \in Sources
  BY DEF PagesInv, PagesDomainsOK
<1>2. CASE Manifest(j)
  <2>1. ManifestIs(ListedPages)
    BY <1>1, <1>2, ListedPagesAre DEF JobOK, WayOK, Manifest
  <2> QED BY <1>2, <2>1, ExtractedKeeps DEF Manifest
<1>3. CASE EvalManifest(j)
  <2>1. ManifestIs(ComixPages)
    BY <1>1, <1>3, ListedPagesAre DEF JobOK, WayOK, EvalManifest
  <2> QED BY <1>3, <2>1, ExtractedKeeps DEF EvalManifest
<1> QED BY <1>2, <1>3

LEMMA ReadPage1Keeps == ASSUME PagesInv, NEW j \in Jobs, ReadPage1(j) PROVE PagesInv'
<1> USE DEF ReadPage1, Finds, Proceed, imageVars
<1>1. JobOK(j) /\ where'[j] = "call" /\ pages'[j] = Readable(1) /\ found'[j] = Resolved(j)
  BY DEF PagesInv, PagesDomainsOK
<1>2. Touches(j)
  BY DEF PagesInv, PagesDomainsOK, Touches, Untouched
<1>3. /\ chapter'[j] = chapter[j] /\ handle'[j] = handle[j] /\ preferred'[j] = preferred[j]
      /\ SameRefusals(j) /\ calls'[j] = calls[j] /\ src' = src /\ UNCHANGED siteVars /\ where[j] = "read"
  BY DEF siteVars, SameRefusals
<1>4. src = "projectsuki" /\ calls[j] = 0
  BY <1>1, <1>3 DEF JobOK, WayOK
<1> HIDE DEF ReadPage1, Finds, Proceed, imageVars
<1>5. JobTypeOK(j)'
  <2>1. Readable(1) \in Seq(Positions)
    <3>1. Readable(1) \in Seq(Positions \cap 1..1) /\ Positions \cap 1..1 \subseteq Positions
      BY ReadableIs
    <3> QED BY <3>1, SeqMonotonic
  <2> QED BY <1>1, <1>3, <2>1 DEF JobOK, JobTypeOK, Stops, SameRefusals
<1>6. WayOK(j)' /\ FetchesOK(j)'
  BY <1>1, <1>3, <1>4 DEF JobOK, WayOK, FetchesOK, SameRefusals
<1>7. ReleaseOK(j)'
  BY <1>1, <1>2, <1>3, SameSite, SameHandle DEF JobOK, ReleaseOK, Touches
<1>8. ManifestOK(j)'
  <2>1. calls'[j] + 1 <= NumPages
    BY <1>3, <1>4, PagesAssumption DEF PagesAssumption
  <2>2. Readable(1)' = Readable(1)
    BY <1>2, SameSite DEF Touches
  <2> QED BY <1>1, <1>3, <1>4, <2>1, <2>2 DEF ManifestOK
<1>9. RefusalsOK(j)'
  BY <1>1, <1>3, RefusalsKept
<1> QED BY <1>1, <1>2, <1>5, <1>6, <1>7, <1>8, <1>9, TouchKeeps DEF JobOK

\* A call brings one page more, or ends the manifest.
LEMMA CallPageKeeps == ASSUME PagesInv, NEW j \in Jobs, CallPage(j) PROVE PagesInv'
<1> DEFINE n == calls[j] + 2
           s == IF n \in Legible THEN Append(pages[j], n) ELSE pages[j]
<1>1. /\ JobOK(j) /\ where[j] = "call" /\ src = "projectsuki"
      /\ calls[j] \in Nat /\ calls[j] + 1 <= NumPages /\ pages[j] = Readable(calls[j] + 1)
      /\ calls' = [calls EXCEPT ![j] = @ + 1] /\ calls'[j] = calls[j] + 1 /\ calls'[j] + 1 = n
  BY DEF CallPage, PagesInv, PagesDomainsOK, JobOK, JobTypeOK, WayOK, ManifestOK
<1>2. s = Readable(n)
  <2>1. calls[j] + 1 \in Nat /\ (calls[j] + 1) + 1 = n
    BY <1>1
  <2>2. Readable(n) = IF n \in Legible THEN Append(Readable(calls[j] + 1), n) ELSE Readable(calls[j] + 1)
    BY <2>1, ReadableGrows
  <2> HIDE DEF n
  <2> QED BY <1>1, <2>2
<1>3. \/ n >= NumPages /\ Extracted(j, Counted(s))
      \/ n < NumPages /\ pages' = [pages EXCEPT ![j] = s] /\ UNCHANGED where
  <2>1. LET m == calls'[j] + 1
            t == IF m \in Legible THEN Append(pages[j], m) ELSE pages[j]
        IN  \/ m >= NumPages /\ Extracted(j, Counted(t))
            \/ m < NumPages /\ pages' = [pages EXCEPT ![j] = t] /\ UNCHANGED where
    BY DEF CallPage
  <2> HIDE DEF n
  <2> QED BY <1>1, <2>1
<1>4. UNCHANGED <<siteVars, chapter, handle, found, imageVars>>
  BY DEF CallPage
<1>5. n \in Nat
  BY <1>1
<1> HIDE DEF n, s
<1>6. CASE n >= NumPages /\ Extracted(j, Counted(s))
  <2>1. s = Readable(NumPages)
    <3>1. CASE n = NumPages
      BY <1>2, <3>1
    <3>2. CASE n # NumPages
      <4>1. n = NumPages + 1 /\ calls[j] + 1 = NumPages
        BY <1>1, <1>6, <3>2, PagesAssumption DEF n, PagesAssumption
      <4>2. n \notin Legible
        BY <4>1, PagesAssumption DEF Legible, Positions, PagesAssumption
      <4> QED BY <1>1, <4>1, <4>2 DEF s
    <3> QED BY <3>1, <3>2
  <2>2. ManifestIs(Counted(s))
    <3>1. Strict <=> declared
      BY <1>1 DEF Strict
    <3> QED BY <1>1, <2>1, <3>1, CountedIs DEF ManifestIs
  <2> QED BY <1>1, <1>4, <1>6, <2>2, ExtractedKeeps
<1>7. CASE n < NumPages /\ pages' = [pages EXCEPT ![j] = s] /\ UNCHANGED where
  <2>1. pages'[j] = Readable(n) /\ where'[j] = where[j]
    BY <1>2, <1>7 DEF PagesInv, PagesDomainsOK
  <2>2. Touches(j)
    BY <1>1, <1>4, <1>7 DEF PagesInv, PagesDomainsOK, Touches, Untouched, imageVars
  <2>3. /\ chapter'[j] = chapter[j] /\ handle'[j] = handle[j] /\ preferred'[j] = preferred[j]
        /\ SameRefusals(j) /\ found'[j] = found[j] /\ src' = src
    BY <1>4 DEF siteVars, imageVars, SameRefusals
  <2>4. JobTypeOK(j)'
    <3>1. Readable(n) \in Seq(Positions)
      <4>1. Readable(n) \in Seq(Positions \cap 1..n) /\ Positions \cap 1..n \subseteq Positions
        BY <1>5, ReadableIs
      <4> QED BY <4>1, SeqMonotonic
    <3>2. calls'[j] \in Nat
      BY <1>1
    <3> QED BY <1>1, <2>1, <2>3, <3>1, <3>2 DEF JobOK, JobTypeOK, SameRefusals
  <2>5. WayOK(j)' /\ FetchesOK(j)'
    BY <1>1, <2>1, <2>3 DEF JobOK, WayOK, FetchesOK, SameRefusals
  <2>6. ReleaseOK(j)'
    BY <1>1, <2>1, <2>2, <2>3, SameSite, SameHandle DEF JobOK, ReleaseOK, Touches
  <2>7. ManifestOK(j)'
    <3>1. calls'[j] + 1 <= NumPages
      BY <1>1, <1>5, <1>7, PagesAssumption DEF PagesAssumption
    <3>2. Readable(calls[j] + 1)' = Readable(n)
      <4>1. PICK m : m = n
        OBVIOUS
      <4>2. Readable(m)' = Readable(m)
        BY <2>2, SameSite DEF Touches
      <4>3. Readable(calls[j] + 1)' = Readable(m)'
        BY <1>1, <4>1 DEF Readable
      <4> QED BY <4>1, <4>2, <4>3
    <3> QED BY <1>1, <2>1, <3>1, <3>2 DEF ManifestOK
  <2>8. RefusalsOK(j)'
    BY <1>1, <1>4, <2>1, <2>3, RefusalsKept
  <2> QED BY <2>2, <2>4, <2>5, <2>6, <2>7, <2>8, TouchKeeps DEF JobOK
<1> QED BY <1>3, <1>6, <1>7

-----------------------------------------------------------------------------
(* The pages.                                                               *)

\* The next page is one that the job does not have.
LEMMA OneMore ==
  ASSUME NEW j \in Jobs, JobOK(j), where[j] = "page"
  PROVE  LET more == got[j] \cup {NextPage(j)} IN
           /\ IsFiniteSet(more) /\ Cardinality(more) = Cardinality(got[j]) + 1
           /\ Cardinality(more) <= Len(pages[j]) /\ Cardinality(more) \in Nat
           /\ more = {pages[j][i] : i \in 1..Cardinality(more)}
<1> DEFINE m == Cardinality(got[j])
           s == pages[j]
           more == got[j] \cup {s[m + 1]}
<1>1. /\ IsFiniteSet(got[j]) /\ got[j] = {s[i] : i \in 1..m} /\ m < Len(s)
      /\ s \in Seq(Positions) /\ Rising(s)
  BY DEF JobOK, JobTypeOK, ManifestOK, FetchesOK, Fetched
<1>2. m \in Nat /\ Len(s) \in Nat /\ DOMAIN s = 1..Len(s)
  BY <1>1, FS_CardinalityType, LenProperties
<1>3. s[m + 1] \notin got[j]
  <2> SUFFICES ASSUME NEW i \in 1..m, s[i] = s[m + 1] PROVE FALSE
    BY <1>1
  <2> HIDE DEF m, s
  <2>1. i \in DOMAIN s /\ m + 1 \in DOMAIN s /\ i < m + 1
    BY <1>1, <1>2
  <2>2. s[i] < s[m + 1]
    BY <1>1, <2>1 DEF Rising
  <2>3. s[i] \in Positions
    BY <1>1, <1>2, <2>1, ElementOfSeq
  <2> QED BY <2>2, <2>3 DEF Positions
<1>4. IsFiniteSet(more) /\ Cardinality(more) = m + 1
  <2> HIDE DEF s
  <2> QED BY <1>1, <1>3, FS_AddElement
<1>5. more = {s[i] : i \in 1..(m + 1)}
  <2> HIDE DEF m, s
  <2> QED BY <1>1, <1>2
<1>6. NextPage(j) = s[m + 1]
  BY DEF NextPage
<1> HIDE DEF m, s
<1>7. m + 1 <= Len(s) /\ m + 1 \in Nat
  BY <1>1, <1>2
<1> QED BY <1>4, <1>5, <1>6, <1>7 DEF m, s

\* What a fetch leaves alone.
Fetching(j) ==
  /\ where[j] = "page"
  /\ UNCHANGED <<siteVars, chapter, handle, found, pages>>

\* A zone is remembered, or none.
PreferredOK(j) == preferred' = preferred \/ \E z \in Zones : preferred' = [preferred EXCEPT ![j] = z]

\* A fetch that gets its page, as each source does it.
LEMMA HasKeeps ==
  ASSUME PagesInv, NEW j \in Jobs, Fetching(j), Has(j), PreferredOK(j) PROVE PagesInv'
<1> USE DEF Fetching, Has, Proceed, PreferredOK
<1> DEFINE more == got[j] \cup {NextPage(j)}
<1>1. /\ JobOK(j) /\ got'[j] = more /\ tried'[j] = {}
      /\ where'[j] = IF Cardinality(more) = Len(pages[j]) THEN "done" ELSE "page"
  BY DEF PagesInv, PagesDomainsOK
<1>2. Touches(j)
  BY DEF PagesInv, PagesDomainsOK, Touches, Untouched
<1>3. /\ chapter'[j] = chapter[j] /\ handle'[j] = handle[j] /\ found'[j] = found[j]
      /\ pages'[j] = pages[j] /\ calls'[j] = calls[j] /\ src' = src /\ where[j] = "page"
      /\ reresolves'[j] = reresolves[j] /\ denials'[j] = denials[j]
  BY DEF siteVars
<1>4. preferred'[j] \in Zones \cup {None}
  BY <1>1 DEF JobOK, JobTypeOK, PagesInv, PagesDomainsOK
<1> HIDE DEF Fetching, Has, Proceed, PreferredOK
<1>5. /\ IsFiniteSet(more) /\ Cardinality(more) <= Len(pages[j]) /\ Cardinality(more) \in Nat
      /\ more = {pages[j][i] : i \in 1..Cardinality(more)}
  BY <1>1, <1>3, OneMore
<1> HIDE DEF more
<1>6. where'[j] \in {"done", "page"}
  BY <1>1
<1>7. JobTypeOK(j)'
  BY <1>1, <1>3, <1>4, <1>5, <1>6 DEF JobOK, JobTypeOK, Stops
<1>8. WayOK(j)'
  BY <1>6 DEF WayOK
<1>9. ReleaseOK(j)'
  BY <1>1, <1>2, <1>3, <1>6, SameSite, SameHandle DEF JobOK, ReleaseOK, Touches
<1>10. ManifestOK(j)'
  BY <1>1, <1>2, <1>3, <1>6, SameSite DEF JobOK, ManifestOK, Touches, Rising
<1>11. FetchesOK(j)'
  <2>1. Fetched(j)'
    BY <1>1, <1>3, <1>5 DEF Fetched
  <2>2. Len(pages[j]) \in Nat
    BY <1>1, LenProperties DEF JobOK, JobTypeOK
  <2>3. where'[j] = "page" => Cardinality(more) < Len(pages[j])
    BY <1>1, <1>5, <2>2
  <2>4. where'[j] = "done" => Cardinality(more) = Len(pages[j])
    BY <1>1
  <2> QED BY <1>1, <1>3, <1>6, <2>1, <2>3, <2>4 DEF FetchesOK
<1>12. RefusalsOK(j)'
  BY <1>1, <1>3, <1>6 DEF JobOK, RefusalsOK, RefusedUpTo
<1> QED BY <1>2, <1>7, <1>8, <1>9, <1>10, <1>11, <1>12, TouchKeeps DEF JobOK

\* A fetch that does not, and leaves the job at its page or failed.
LEMMA MissKeeps ==
  ASSUME PagesInv, NEW j \in Jobs, Fetching(j), Touches(j), UNCHANGED <<calls, got, reresolves>>,
         PreferredOK(j), tried'[j] \subseteq Zones, where'[j] \in {"page", "failed"}, RefusalsOK(j)'
  PROVE  PagesInv'
<1> USE DEF Fetching, PreferredOK
<1>1. JobOK(j)
  BY DEF PagesInv
<1>2. /\ chapter'[j] = chapter[j] /\ handle'[j] = handle[j] /\ found'[j] = found[j]
      /\ pages'[j] = pages[j] /\ calls'[j] = calls[j] /\ src' = src /\ where[j] = "page"
      /\ got'[j] = got[j] /\ reresolves'[j] = reresolves[j]
  BY DEF siteVars
<1>3. preferred'[j] \in Zones \cup {None}
  BY <1>1 DEF JobOK, JobTypeOK, PagesInv, PagesDomainsOK
<1> HIDE DEF Fetching, PreferredOK
<1>4. JobTypeOK(j)'
  BY <1>1, <1>2, <1>3 DEF JobOK, JobTypeOK, Stops
<1>5. WayOK(j)'
  BY DEF WayOK
<1>6. ReleaseOK(j)'
  BY <1>1, <1>2, SameSite, SameHandle DEF JobOK, ReleaseOK, Touches
<1>7. ManifestOK(j)'
  BY <1>1, <1>2, SameSite DEF JobOK, ManifestOK, Touches, Rising
<1>8. FetchesOK(j)'
  BY <1>1, <1>2 DEF JobOK, FetchesOK, Fetched
<1> QED BY <1>4, <1>5, <1>6, <1>7, <1>8, TouchKeeps DEF JobOK

\* The page is asked for anew, or lost.
LEMMA AgainKeeps ==
  ASSUME PagesInv, NEW j \in Jobs, Fetching(j), Again(j), PreferredOK(j) PROVE PagesInv'
<1> USE DEF Fetching, Again, PreferredOK
<1>1. JobOK(j) /\ tried'[j] = {} /\ where'[j] = "page" /\ Touches(j)
  BY DEF PagesInv, PagesDomainsOK, Touches, Untouched
<1>2. RefusalsOK(j)'
  BY <1>1 DEF JobOK, RefusalsOK, RefusedUpTo
<1> QED BY <1>1, <1>2, MissKeeps

LEMMA LoseKeeps ==
  ASSUME PagesInv, NEW j \in Jobs, Fetching(j), Lose(j), PreferredOK(j) PROVE PagesInv'
<1> USE DEF Fetching, Lose, Proceed, PreferredOK
<1>1. JobOK(j) /\ tried'[j] = tried[j] /\ where'[j] = "failed" /\ broken'[j] = TRUE /\ Touches(j)
  BY DEF PagesInv, PagesDomainsOK, Touches, Untouched
<1>2. src' = src /\ RefusedBy(j)' = RefusedBy(j)
  BY DEF siteVars, RefusedBy, NextPage
<1> HIDE DEF Fetching, Lose, Proceed
<1>3. UNCHANGED <<calls, got, reresolves, denials>>
  BY DEF Lose
<1>4. RefusalsOK(j)'
  BY <1>1, <1>2, <1>3 DEF JobOK, RefusalsOK, RefusedUpTo
<1>5. tried[j] \subseteq Zones
  BY <1>1 DEF JobOK, JobTypeOK
<1> QED BY <1>1, <1>3, <1>4, <1>5, MissKeeps

LEMMA RespondsKeeps ==
  ASSUME PagesInv, NEW j \in Jobs, Fetching(j), Responds(j), PreferredOK(j) PROVE PagesInv'
BY HasKeeps, AgainKeeps, LoseKeeps DEF Responds

\* A 403 is remembered, and none is forgotten.
Denial(j, z) == [manifest |-> reresolves[j], page |-> NextPage(j), zone |-> z]
LEMMA DeniedAdds ==
  ASSUME PagesInv, NEW j \in Jobs, NEW z, Denied(j, z)
  PROVE  /\ denials'[j] = denials[j] \cup {Denial(j, z)}
         /\ Denial(j, z).manifest = reresolves[j] /\ Denial(j, z).page = NextPage(j) /\ Denial(j, z).zone = z
         /\ DOMAIN denials' = Jobs /\ \A i \in Jobs \ {j} : denials'[i] = denials[i]
BY DEF Denied, Denial, PagesInv, PagesDomainsOK

\* A zone of MangaFire that serves, refuses or fails.
LEMMA FetchZoneKeeps == ASSUME PagesInv, NEW j \in Jobs, FetchZone(j) PROVE PagesInv'
<1> DEFINE z == NextZone(j)
<1>1. Fetching(j) /\ Untried(j) # {} /\ src = "mangafire" /\ JobOK(j)
  BY DEF FetchZone, Fetching, PagesInv
<1>2. z \in Zones
  <2>1. Untried(j) \in SUBSET Nat /\ Untried(j) \subseteq Zones
    BY PagesAssumption DEF Untried, PagesAssumption
  <2>2. \E y \in Untried(j) : \A x \in Untried(j) : y <= x
    BY <1>1, <2>1, LeastIs
  <2>3. z \in Untried(j)
    BY <2>2 DEF NextZone
  <2> QED BY <2>1, <2>3
<1> HIDE DEF z
<1>3. CASE Denied(j, z) /\ tried' = [tried EXCEPT ![j] = @ \cup {z}]
           /\ UNCHANGED <<where, calls, got, preferred, reresolves, broken>>
  <2>1. /\ denials'[j] = denials[j] \cup {Denial(j, z)}
        /\ Denial(j, z).page = NextPage(j) /\ Denial(j, z).zone = z
    BY <1>3, DeniedAdds
  <2>2. Touches(j)
    BY <1>1, <1>3, DeniedAdds DEF Fetching, PagesInv, PagesDomainsOK, Touches, Untouched
  <2>3. /\ tried'[j] = tried[j] \cup {z} /\ where'[j] = "page" /\ src' = src
        /\ reresolves'[j] = reresolves[j] /\ got'[j] = got[j] /\ pages'[j] = pages[j]
    BY <1>1, <1>3 DEF Fetching, PagesInv, PagesDomainsOK, siteVars
  <2>4. RefusedBy(j)' = RefusedBy(j) \cup {z}
    <3>1. NextPage(j)' = NextPage(j)
      BY <2>3 DEF NextPage
    <3>2. RefusedBy(j)' = {r.zone : r \in {q \in denials'[j] : q.page = NextPage(j)}}
      BY <3>1 DEF RefusedBy
    <3>3. {q \in denials'[j] : q.page = NextPage(j)} = {q \in denials[j] : q.page = NextPage(j)} \cup {Denial(j, z)}
      BY <2>1
    <3> QED BY <2>1, <3>2, <3>3 DEF RefusedBy
  <2>5. RefusalsOK(j)'
    <3>1. tried'[j] \subseteq RefusedBy(j)'
      BY <1>1, <2>3, <2>4 DEF JobOK, RefusalsOK
    <3>2. RefusedUpTo(j, reresolves[j] - 1)'
      BY <1>1, <2>1, <2>3 DEF JobOK, RefusalsOK, RefusedUpTo
    <3> QED BY <1>1, <2>3, <3>1, <3>2 DEF JobOK, RefusalsOK
  <2>6. tried'[j] \subseteq Zones
    BY <1>1, <1>2, <2>3 DEF JobOK, JobTypeOK
  <2>7. PreferredOK(j) /\ UNCHANGED <<calls, got, reresolves>>
    BY <1>3 DEF PreferredOK
  <2> QED BY <1>1, <2>2, <2>3, <2>5, <2>6, <2>7, MissKeeps
<1>4. CASE Responds(j) /\ preferred' = [preferred EXCEPT ![j] = z]
  BY <1>1, <1>2, <1>4, RespondsKeeps DEF PreferredOK
<1>5. CASE (Again(j) \/ Lose(j)) /\ UNCHANGED preferred
  BY <1>1, <1>5, RespondsKeeps DEF PreferredOK, Responds
<1> QED BY <1>3, <1>4, <1>5 DEF FetchZone, z

\* No zone is left.
LEMMA AllBlockedKeeps == ASSUME PagesInv, NEW j \in Jobs, AllBlocked(j) PROVE PagesInv'
<1>1. Fetching(j) /\ Untried(j) = {} /\ src = "mangafire" /\ JobOK(j)
  BY DEF AllBlocked, Fetching, PagesInv
<1>2. CASE Proceed(j, "failed") /\ UNCHANGED <<calls, imageVars>>
  <2>1. /\ UNCHANGED <<calls, got, tried, preferred, reresolves, denials, broken>>
        /\ where'[j] = "failed" /\ Touches(j)
    BY <1>1, <1>2 DEF Proceed, Fetching, imageVars, PagesInv, PagesDomainsOK, Touches, Untouched
  <2>2. RefusedBy(j)' = RefusedBy(j) /\ src' = src
    BY <1>1, <2>1 DEF Fetching, RefusedBy, NextPage, siteVars
  <2>3. tried[j] = Zones
    BY <1>1 DEF Untried, JobOK, JobTypeOK
  <2>4. Zones \subseteq RefusedBy(j)
    BY <1>1, <2>3 DEF JobOK, RefusalsOK
  <2>5. RefusalsOK(j)'
    BY <1>1, <2>1, <2>2, <2>4 DEF JobOK, RefusalsOK, RefusedUpTo
  <2>6. PreferredOK(j) /\ tried'[j] \subseteq Zones
    BY <2>1, <2>3 DEF PreferredOK
  <2> QED BY <1>1, <2>1, <2>5, <2>6, MissKeeps
<1>3. CASE Again(j) /\ UNCHANGED preferred
  BY <1>1, <1>3, AgainKeeps DEF PreferredOK
<1> QED BY <1>2, <1>3 DEF AllBlocked

\* A stale manifest: the job starts over, or has done so too often.
LEMMA ForbiddenKeeps == ASSUME PagesInv, NEW j \in Jobs, Forbidden(j) PROVE PagesInv'
<1>1. /\ Fetching(j) /\ JobOK(j) /\ src # "mangafire" /\ UNCHANGED <<tried, preferred, broken>>
      /\ reresolves[j] \in Nat /\ MaxReresolves \in Nat /\ src' = src
  BY PagesAssumption DEF Forbidden, Plain, Fetching, PagesInv, JobOK, JobTypeOK, PagesAssumption, siteVars
<1>2. /\ denials'[j] = denials[j] \cup {Denial(j, None)} /\ Denial(j, None).manifest = reresolves[j]
      /\ DOMAIN denials' = Jobs /\ \A i \in Jobs \ {j} : denials'[i] = denials[i]
  BY DeniedAdds DEF Forbidden
<1>3. \A m \in 0..reresolves[j] : \E r \in denials'[j] : r.manifest = m
  <2> SUFFICES ASSUME NEW m \in 0..reresolves[j] PROVE \E r \in denials'[j] : r.manifest = m
    OBVIOUS
  <2>1. CASE m = reresolves[j]
    BY <1>2, <2>1
  <2>2. CASE m # reresolves[j]
    <3>1. m \in 0..(reresolves[j] - 1)
      BY <1>1, <2>2
    <3> QED BY <1>1, <1>2, <3>1 DEF JobOK, RefusalsOK, RefusedUpTo
  <2> QED BY <2>1, <2>2
<1>4. tried[j] = {}
  BY <1>1 DEF JobOK, RefusalsOK
<1>5. CASE reresolves[j] < MaxReresolves
  <2>1. /\ reresolves' = [reresolves EXCEPT ![j] = @ + 1] /\ FetchManifest(j)
        /\ got' = [got EXCEPT ![j] = {}] /\ calls' = [calls EXCEPT ![j] = 0]
    BY <1>5 DEF Forbidden
  <2>2. Touches(j)
    BY <1>1, <1>2, <2>1 DEF FetchManifest, Proceed, Fetching, PagesInv, PagesDomainsOK, Touches, Untouched
  <2>3. /\ reresolves'[j] = reresolves[j] + 1 /\ got'[j] = {} /\ calls'[j] = 0 /\ tried'[j] = {}
        /\ chapter'[j] = chapter[j] /\ handle'[j] = handle[j] /\ found'[j] = found[j]
        /\ pages'[j] = pages[j] /\ preferred'[j] = preferred[j] /\ where[j] = "page"
    BY <1>1, <1>4, <2>1 DEF Fetching, PagesInv, PagesDomainsOK
  <2>4. /\ where'[j] \in {"lane", "token", "read", "list"}
        /\ where'[j] = "lane" => src = "comix"
        /\ where'[j] = "read" => src = "projectsuki"
        /\ where'[j] \in {"token", "list"} => src \notin {"comix", "projectsuki"}
    <3>1. where'[j] = CASE src = "comix" -> "lane" [] src = "kagane" -> "token"
                        [] src = "projectsuki" -> "read" [] OTHER -> "list"
      BY <2>1 DEF FetchManifest, Proceed, PagesInv, PagesDomainsOK
    <3> QED BY <3>1
  <2>5. JobTypeOK(j)'
    BY <1>1, <2>3, <2>4, FS_EmptySet DEF JobOK, JobTypeOK, Stops
  <2>6. WayOK(j)' /\ FetchesOK(j)'
    BY <1>1, <2>3, <2>4 DEF WayOK, FetchesOK
  <2>7. ReleaseOK(j)'
    BY <1>1, <2>2, <2>3, <2>4, SameSite DEF JobOK, ReleaseOK, Touches
  <2>8. ManifestOK(j)'
    BY <2>4 DEF ManifestOK
  <2>9. RefusalsOK(j)'
    <3>1. \A m \in 0..(reresolves'[j] - 1) : \E r \in denials'[j] : r.manifest = m
      <4>1. reresolves'[j] - 1 = reresolves[j]
        BY <1>1, <2>3
      <4> QED BY <1>3, <4>1
    <3> QED BY <1>1, <1>5, <2>3, <2>4, <3>1 DEF RefusalsOK, RefusedUpTo
  <2> QED BY <2>2, <2>5, <2>6, <2>7, <2>8, <2>9, TouchKeeps DEF JobOK
<1>6. CASE ~(reresolves[j] < MaxReresolves)
  <2>1. Proceed(j, "failed") /\ UNCHANGED <<calls, got, reresolves>>
    BY <1>6 DEF Forbidden
  <2>2. Touches(j) /\ where'[j] = "failed"
    BY <1>1, <1>2, <2>1 DEF Proceed, Fetching, PagesInv, PagesDomainsOK, Touches, Untouched
  <2>3. reresolves[j] = MaxReresolves
    BY <1>1, <1>6 DEF JobOK, RefusalsOK
  <2>4. \A m \in 0..MaxReresolves : \E r \in denials'[j] : r.manifest = m
    BY <1>3, <2>1, <2>3 DEF RefusedUpTo
  <2>5. RefusalsOK(j)'
    BY <1>1, <1>4, <2>1, <2>2, <2>3, <2>4 DEF RefusalsOK, RefusedUpTo
  <2>6. PreferredOK(j) /\ tried'[j] \subseteq Zones
    BY <1>1, <1>4 DEF PreferredOK
  <2> QED BY <1>1, <2>1, <2>2, <2>5, <2>6, MissKeeps
<1> QED BY <1>5, <1>6

\* Whatever comes of a page.
LEMMA FetchKeeps ==
  ASSUME PagesInv, NEW j \in Jobs,
         \/ FetchStashed(j) \/ Missed(j) \/ FetchPlain(j)
         \/ FetchZone(j) \/ AllBlocked(j) \/ Forbidden(j)
  PROVE  PagesInv'
<1>1. CASE FetchStashed(j) \/ Missed(j) \/ FetchPlain(j)
  <2>1. Fetching(j) /\ Responds(j) /\ PreferredOK(j)
    BY <1>1 DEF FetchStashed, Missed, FetchPlain, Fetching, PreferredOK
  <2> QED BY <2>1, RespondsKeeps
<1> QED BY <1>1, FetchZoneKeeps, AllBlockedKeeps, ForbiddenKeeps

LEMMA BatchKeeps == ASSUME PagesInv, NEW j \in Jobs, Batch(j) PROVE PagesInv'
<1> USE DEF Batch, Proceed, imageVars
<1>1. JobOK(j) /\ where'[j] = "page"
  BY DEF PagesInv, PagesDomainsOK
<1>2. Touches(j)
  BY DEF PagesInv, PagesDomainsOK, Touches, Untouched
<1>3. /\ chapter'[j] = chapter[j] /\ handle'[j] = handle[j] /\ found'[j] = found[j] /\ tried'[j] = tried[j]
      /\ pages'[j] = pages[j] /\ calls'[j] = calls[j] /\ src' = src /\ where[j] = "batch"
      /\ got'[j] = got[j] /\ preferred'[j] = preferred[j] /\ reresolves'[j] = reresolves[j]
      /\ SameRefusals(j) /\ UNCHANGED siteVars
  BY DEF siteVars, SameRefusals
<1> HIDE DEF Batch, Proceed, imageVars
<1>4. JobTypeOK(j)' /\ WayOK(j)'
  BY <1>1, <1>3 DEF JobOK, JobTypeOK, WayOK, Stops
<1>5. ReleaseOK(j)'
  BY <1>1, <1>2, <1>3, SameSite, SameHandle DEF JobOK, ReleaseOK, Touches
<1>6. ManifestOK(j)'
  BY <1>1, <1>2, <1>3, SameSite DEF JobOK, ManifestOK, Touches, Rising
<1>7. FetchesOK(j)'
  <2>1. got[j] = {} /\ Cardinality({}) = 0 /\ {pages[j][i] : i \in 1..0} = {}
    BY <1>1, <1>3, FS_EmptySet DEF JobOK, FetchesOK
  <2>2. Len(pages[j]) \in Nat /\ Len(pages[j]) # 0
    BY <1>1, <1>3, EmptySeq DEF JobOK, JobTypeOK, ManifestOK
  <2> QED BY <1>1, <1>3, <2>1, <2>2 DEF FetchesOK, Fetched
<1>8. RefusalsOK(j)'
  BY <1>1, <1>3, RefusalsKept
<1> QED BY <1>2, <1>4, <1>5, <1>6, <1>7, <1>8, TouchKeeps DEF JobOK

\* What moves no job: an eviction, a zone that changes its mind.
LEMMA OtherKeeps ==
  ASSUME PagesInv, UNCHANGED <<siteVars, jobVars>> PROVE PagesInv'
<1>1. ASSUME NEW j \in Jobs PROVE JobOK(j)'
  <2>1. Untouched(j) /\ UNCHANGED siteVars
    BY DEF jobVars, imageVars, Untouched
  <2> QED BY <2>1, UntouchedKeeps DEF PagesInv
<1> QED BY <1>1 DEF PagesInv, PagesDomainsOK, siteVars, jobVars, imageVars

\* The steps that only move a job on its way.
LEMMA WayKeeps ==
  ASSUME PagesInv, NEW j \in Jobs,
         IntegrityToken(j) \/ TakeDevice(j) \/ ColdRace(j) \/ ManifestFails(j)
  PROVE  PagesInv'
<1>1. WayOK(j)
  BY DEF PagesInv, JobOK
<1>2. CASE IntegrityToken(j)
  BY <1>1, <1>2, LeadKeeps DEF IntegrityToken, WayOK, Stops
<1>3. CASE ManifestFails(j)
  BY <1>1, <1>3, LeadKeeps DEF ManifestFails, Stops
<1>4. CASE TakeDevice(j)
  BY <1>1, <1>4, LeadKeeps DEF TakeDevice, WayOK, Stops
<1>5. CASE ColdRace(j)
  <2>1. src = "comix" /\ where[j] = "eval"
    BY <1>1, <1>5 DEF ColdRace, WayOK
  <2>2. calls' = [calls EXCEPT ![j] = @ + 1]
        /\ UNCHANGED <<siteVars, chapter, handle, found, pages, imageVars>>
    BY <1>5 DEF ColdRace
  <2>3. where' = where \/ Proceed(j, "unreadable")
    BY <1>5 DEF ColdRace
  <2> QED BY <2>1, <2>2, <2>3, LeadKeeps DEF Stops
<1> QED BY <1>2, <1>3, <1>4, <1>5

\* PagesInv holds of every reachable state (fetch_manifest and fetch_image of the
\* sources).
THEOREM PagesInductive == PagesSpec => []PagesInv
<1>1. PagesInv /\ [PagesNext]_pagesVars => PagesInv'
  <2> SUFFICES ASSUME PagesInv, [PagesNext]_pagesVars PROVE PagesInv'
    OBVIOUS
  <2>1. CASE UNCHANGED pagesVars
    BY <2>1, OtherKeeps DEF pagesVars
  <2>2. CASE Evict \/ \E z \in Zones : Flip(z)
    BY <2>2, OtherKeeps DEF Evict, Flip
  <2>3. CASE \E j \in Jobs :
               \/ Submit(j) \/ Manifest(j) \/ IntegrityToken(j) \/ ReadPage1(j) \/ CallPage(j)
               \/ TakeDevice(j) \/ EvalManifest(j) \/ ColdRace(j) \/ ManifestFails(j) \/ Batch(j)
               \/ FetchStashed(j) \/ Missed(j) \/ FetchZone(j) \/ AllBlocked(j) \/ FetchPlain(j) \/ Forbidden(j)
    BY <2>3, SubmitKeeps, ManifestKeeps, WayKeeps, ReadPage1Keeps, CallPageKeeps, BatchKeeps, FetchKeeps
  <2> QED BY <2>1, <2>2, <2>3 DEF PagesNext
<1> QED BY <1>1, PagesInvInit, PTL DEF PagesSpec

\* A job gets the chapter of its release, whole and in order where the source or the
\* release is strict, has all its pages when it is done, and fails at a page only for
\* an error other than a 403, or for as many 403s as the code allows for: of all zones
\* of MangaFire for this very page, elsewhere of each of 1 + MaxReresolves manifests.
THEOREM JobsGetTheirChapters == PagesSpec => []PagesAreTheChapters
<1>1. PagesInv => PagesAreTheChapters
  <2> SUFFICES ASSUME PagesInv, NEW j \in Jobs
               PROVE  /\ where[j] \in {"batch", "page", "done"} =>
                           /\ IF Deferred(j) THEN found[j].num = chapter[j].num ELSE found[j] = chapter[j]
                           /\ Strict => pages[j] = Listing
                           /\ where[j] = "done" => got[j] = Range(pages[j])
                      /\ where[j] = "failed" =>
                           \/ broken[j]
                           \/ IF src = "mangafire" THEN Zones \subseteq RefusedBy(j)
                              ELSE \A m \in 0..MaxReresolves : \E r \in denials[j] : r.manifest = m
    BY DEF PagesAreTheChapters, ManifestIsTheChapter, FailsOnlyIfRefused, Strict
  <2>1. JobOK(j)
    BY DEF PagesInv
  <2>2. ASSUME where[j] \in {"batch", "page", "done"}
        PROVE  IF Deferred(j) THEN found[j].num = chapter[j].num ELSE found[j] = chapter[j]
    <3>1. found[j] = Resolved(j) /\ chapter[j] \in Served /\ handle[j] \in ReleaseIds(chapter[j])
      BY <2>1, <2>2 DEF JobOK, ReleaseOK
    <3> QED BY <3>1, RightChapter
  <2>3. ASSUME where[j] = "done" PROVE got[j] = Range(pages[j])
    <3>1. got[j] = {pages[j][i] : i \in 1..Len(pages[j])} /\ pages[j] \in Seq(Positions)
      BY <2>1, <2>3 DEF JobOK, JobTypeOK, FetchesOK, Fetched
    <3> QED BY <3>1, RangeEquality
  <2> QED BY <2>1, <2>2, <2>3 DEF JobOK, ManifestOK, RefusalsOK, RefusedUpTo
<1> QED BY <1>1, PagesInductive, PTL

-----------------------------------------------------------------------------
(* Lists, filtered, reversed, cut and sorted.                               *)

\* Ranges of lists.
LEMMA RangeAppend ==
  ASSUME NEW S, NEW s \in Seq(S), NEW e \in S PROVE Range(Append(s, e)) = Range(s) \cup {e}
<1>1. /\ Append(s, e) \in Seq(S) /\ Len(Append(s, e)) = Len(s) + 1 /\ Len(s) \in Nat
      /\ \A i \in 1..Len(s) : Append(s, e)[i] = s[i]
      /\ Append(s, e)[Len(s) + 1] = e
  BY AppendProperties, LenProperties
<1>2. Range(s) = {s[i] : i \in 1..Len(s)} /\ Range(Append(s, e)) = {Append(s, e)[i] : i \in 1..(Len(s) + 1)}
  BY <1>1, RangeEquality
<1>3. ASSUME NEW x \in Range(Append(s, e)) PROVE x \in Range(s) \cup {e}
  <2>1. PICK i \in 1..(Len(s) + 1) : x = Append(s, e)[i]
    BY <1>2
  <2>2. i = Len(s) + 1 \/ i \in 1..Len(s)
    BY <1>1, <2>1
  <2> QED BY <1>1, <1>2, <2>1, <2>2
<1>4. ASSUME NEW x \in Range(s) PROVE x \in Range(Append(s, e))
  <2>1. PICK i \in 1..Len(s) : x = s[i]
    BY <1>2
  <2>2. i \in 1..(Len(s) + 1)
    BY <1>1, <2>1
  <2> QED BY <1>1, <1>2, <2>1, <2>2
<1>5. e \in Range(Append(s, e))
  <2>1. Len(s) + 1 \in 1..(Len(s) + 1)
    BY <1>1
  <2> QED BY <1>1, <1>2, <2>1
<1> QED BY <1>3, <1>4, <1>5

LEMMA RangeOfNone == ASSUME NEW S, NEW s \in Seq(S), Len(s) = 0 PROVE Range(s) = {}
<1>1. Range(s) = {s[i] : i \in 1..Len(s)}
  BY RangeEquality
<1> QED BY <1>1

LEMMA RangeEmpty == Range(<<>>) = {}
<1>1. <<>> \in Seq({}) /\ Len(<<>>) = 0
  BY EmptySeq
<1> QED BY <1>1, RangeOfNone

\* A filter keeps of the elements those that it admits.
LEMMA KeptRange ==
  ASSUME NEW S, NEW s \in Seq(S), NEW T PROVE Range(Kept(s, T)) = Range(s) \cap T
<1> DEFINE Good == {x \in Seq(S) : Range(Kept(x, T)) = Range(x) \cap T}
<1>1. <<>> \in Good
  <2>1. Kept(<<>>, T) = <<>> /\ Range(<<>>) = {} /\ <<>> \in Seq(S)
    BY KeptEmpty, RangeEmpty, EmptySeq
  <2> QED BY <2>1
<1>2. ASSUME NEW x \in Seq(S), NEW e \in S, x \in Good PROVE Append(x, e) \in Good
  <2>1. Append(x, e) \in Seq(S) /\ Range(Append(x, e)) = Range(x) \cup {e} /\ Range(Kept(x, T)) = Range(x) \cap T
    BY <1>2, AppendProperties, RangeAppend
  <2>2. CASE e \in T
    <3>1. Kept(Append(x, e), T) = Append(Kept(x, T), e) /\ Kept(x, T) \in Seq(S)
      BY <2>2, KeptAppend, KeptFits
    <3>2. Range(Append(Kept(x, T), e)) = Range(Kept(x, T)) \cup {e}
      BY <3>1, RangeAppend
    <3>3. Range(Kept(Append(x, e), T)) = Range(Append(x, e)) \cap T
      BY <2>1, <2>2, <3>1, <3>2
    <3> QED BY <2>1, <3>3
  <2>3. CASE e \notin T
    <3>1. Kept(Append(x, e), T) = Kept(x, T)
      BY <2>3, KeptAppend
    <3>2. Range(Kept(Append(x, e), T)) = Range(Append(x, e)) \cap T
      BY <2>1, <2>3, <3>1
    <3> QED BY <2>1, <3>2
  <2> QED BY <2>2, <2>3
<1>3. \A x \in Seq(S) : x \in Good
  <2> HIDE DEF Good
  <2> QED BY <1>1, <1>2, AllSequences
<1> QED BY <1>3

\* Two filters are one.
LEMMA KeptTwice ==
  ASSUME NEW S, NEW s \in Seq(S), NEW A, NEW B PROVE Kept(Kept(s, A), B) = Kept(s, A \cap B)
<1> DEFINE Good == {x \in Seq(S) : Kept(Kept(x, A), B) = Kept(x, A \cap B)}
<1>1. <<>> \in Good
  <2>1. Kept(<<>>, A) = <<>> /\ Kept(<<>>, B) = <<>> /\ Kept(<<>>, A \cap B) = <<>> /\ <<>> \in Seq(S)
    BY KeptEmpty, EmptySeq
  <2> QED BY <2>1
<1>2. ASSUME NEW x \in Seq(S), NEW e \in S, x \in Good PROVE Append(x, e) \in Good
  <2> DEFINE C == A \cap B
  <2>1. Append(x, e) \in Seq(S) /\ Kept(x, A) \in Seq(S) /\ Kept(Kept(x, A), B) = Kept(x, C)
    BY <1>2, AppendProperties, KeptFits
  <2>2. e \in C <=> e \in A /\ e \in B
    OBVIOUS
  <2> HIDE DEF C
  <2>3. Kept(Append(x, e), A) = IF e \in A THEN Append(Kept(x, A), e) ELSE Kept(x, A)
    BY KeptAppend
  <2>4. Kept(Append(x, e), C) = IF e \in C THEN Append(Kept(x, C), e) ELSE Kept(x, C)
    BY KeptAppend
  <2>5. Kept(Append(Kept(x, A), e), B) = IF e \in B THEN Append(Kept(x, C), e) ELSE Kept(x, C)
    BY <2>1, KeptAppend
  <2>6. Kept(Kept(Append(x, e), A), B) = Kept(Append(x, e), C)
    BY <2>1, <2>2, <2>3, <2>4, <2>5
  <2> QED BY <2>1, <2>6 DEF C
<1>3. \A x \in Seq(S) : x \in Good
  <2> HIDE DEF Good
  <2> QED BY <1>1, <1>2, AllSequences
<1> QED BY <1>3

\* A filter decides of the elements of the list only.
LEMMA KeptAgree ==
  ASSUME NEW S, NEW s \in Seq(S), NEW A, NEW B, Range(s) \cap A = Range(s) \cap B
  PROVE  Kept(s, A) = Kept(s, B)
<1> DEFINE Good == {x \in Seq(S) : Range(x) \cap A = Range(x) \cap B => Kept(x, A) = Kept(x, B)}
<1>1. <<>> \in Good
  <2>1. Kept(<<>>, A) = <<>> /\ Kept(<<>>, B) = <<>> /\ <<>> \in Seq(S)
    BY KeptEmpty, EmptySeq
  <2> QED BY <2>1
<1>2. ASSUME NEW x \in Seq(S), NEW e \in S, x \in Good PROVE Append(x, e) \in Good
  <2>1. Append(x, e) \in Seq(S) /\ Range(Append(x, e)) = Range(x) \cup {e}
    BY AppendProperties, RangeAppend
  <2>2. ASSUME Range(Append(x, e)) \cap A = Range(Append(x, e)) \cap B
        PROVE  Kept(Append(x, e), A) = Kept(Append(x, e), B)
    <3>1. (e \in A <=> e \in B) /\ Range(x) \cap A = Range(x) \cap B
      BY <2>1, <2>2
    <3>2. Kept(x, A) = Kept(x, B)
      BY <1>2, <3>1
    <3>3. Kept(Append(x, e), A) = IF e \in A THEN Append(Kept(x, A), e) ELSE Kept(x, A)
      BY KeptAppend
    <3>4. Kept(Append(x, e), B) = IF e \in B THEN Append(Kept(x, B), e) ELSE Kept(x, B)
      BY KeptAppend
    <3> QED BY <3>1, <3>2, <3>3, <3>4
  <2> QED BY <2>1, <2>2
<1>3. \A x \in Seq(S) : x \in Good
  <2> HIDE DEF Good
  <2> QED BY <1>1, <1>2, AllSequences
<1> QED BY <1>3

\* One more element at the end of the second part.
LEMMA ConcatAppend ==
  ASSUME NEW S, NEW s \in Seq(S), NEW t \in Seq(S), NEW e \in S
  PROVE  s \o Append(t, e) = Append(s \o t, e)
<1> DEFINE u == <<e>>
           v == s \o t
<1>1. u \in Seq(S) /\ v \in Seq(S)
  BY ConcatProperties
<1>2. Append(t, e) = t \o u
  BY AppendIsConcat
<1>3. Append(v, e) = v \o u
  <2> HIDE DEF v
  <2> QED BY <1>1, AppendIsConcat
<1>4. (s \o t) \o u = s \o (t \o u)
  <2> HIDE DEF u, v
  <2> QED BY <1>1, ConcatAssociative
<1> HIDE DEF u
<1> QED BY <1>2, <1>3, <1>4

\* What is filtered of two parts is what is filtered of the whole.
LEMMA KeptConcat ==
  ASSUME NEW S, NEW s \in Seq(S), NEW t \in Seq(S), NEW T
  PROVE  Kept(s \o t, T) = Kept(s, T) \o Kept(t, T)
<1> DEFINE Good == {x \in Seq(S) : Kept(s \o x, T) = Kept(s, T) \o Kept(x, T)}
<1>1. <<>> \in Good
  <2>1. Kept(<<>>, T) = <<>> /\ s \o <<>> = s /\ Kept(s, T) \o <<>> = Kept(s, T) /\ <<>> \in Seq(S)
    BY KeptEmpty, KeptFits, ConcatEmptySeq, EmptySeq
  <2> QED BY <2>1
<1>2. ASSUME NEW x \in Seq(S), NEW e \in S, x \in Good PROVE Append(x, e) \in Good
  <2>1. Append(x, e) \in Seq(S) /\ s \o x \in Seq(S)
    BY AppendProperties, ConcatProperties
  <2>2. s \o Append(x, e) = Append(s \o x, e)
    BY ConcatAppend
  <2>3. Kept(s \o x, T) = Kept(s, T) \o Kept(x, T) /\ Kept(s, T) \in Seq(S) /\ Kept(x, T) \in Seq(S)
    BY <1>2, KeptFits
  <2>4. Kept(Append(s \o x, e), T) = IF e \in T THEN Append(Kept(s \o x, T), e) ELSE Kept(s \o x, T)
    <3> DEFINE v == s \o x
    <3>1. v \in Seq(S)
      BY <2>1
    <3> HIDE DEF v
    <3>2. Kept(Append(v, e), T) = IF e \in T THEN Append(Kept(v, T), e) ELSE Kept(v, T)
      BY <3>1, KeptAppend
    <3> QED BY <3>2 DEF v
  <2>5. Kept(Append(x, e), T) = IF e \in T THEN Append(Kept(x, T), e) ELSE Kept(x, T)
    BY KeptAppend
  <2>6. Append(Kept(s \o x, T), e) = Kept(s, T) \o Append(Kept(x, T), e)
    <3> DEFINE a == Kept(s, T)
               b == Kept(x, T)
    <3>1. a \in Seq(S) /\ b \in Seq(S) /\ Kept(s \o x, T) = a \o b
      BY <2>3
    <3> HIDE DEF a, b
    <3>2. a \o Append(b, e) = Append(a \o b, e)
      BY <3>1, ConcatAppend
    <3>3. Append(Kept(s \o x, T), e) = a \o Append(b, e)
      BY <3>1, <3>2
    <3> QED BY <3>3 DEF a, b
  <2>7. Kept(s \o Append(x, e), T) = Kept(s, T) \o Kept(Append(x, e), T)
    BY <2>2, <2>3, <2>4, <2>5, <2>6
  <2> QED BY <2>1, <2>7
<1>3. \A x \in Seq(S) : x \in Good
  <2> HIDE DEF Good
  <2> QED BY <1>1, <1>2, AllSequences
<1> QED BY <1>3

\* A reversed list has the same elements, from the last.
LEMMA ReverseIs ==
  ASSUME NEW S, NEW s \in Seq(S)
  PROVE  /\ Reverse(s) \in Seq(S) /\ Len(Reverse(s)) = Len(s) /\ Range(Reverse(s)) = Range(s)
         /\ \A i \in 1..Len(s) : Reverse(s)[i] = s[Len(s) - i + 1]
<1>1. Len(s) \in Nat /\ \A i \in 1..Len(s) : s[i] \in S
  BY LenProperties, ElementOfSeq
<1>2. Reverse(s) = [i \in 1..Len(s) |-> s[(Len(s) - i) + 1]]
  BY DEF Reverse
<1>3. \A i \in 1..Len(s) : (Len(s) - i) + 1 \in 1..Len(s) /\ s[(Len(s) - i) + 1] \in S
  BY <1>1
<1>4. Reverse(s) \in [1..Len(s) -> S]
  BY <1>2, <1>3
<1>5. Reverse(s) \in Seq(S) /\ Len(Reverse(s)) = Len(s)
  BY <1>1, <1>4
<1>6. Range(s) = {s[i] : i \in 1..Len(s)} /\ Range(Reverse(s)) = {Reverse(s)[i] : i \in 1..Len(s)}
  BY <1>5, RangeEquality
<1>7. Range(Reverse(s)) \subseteq Range(s)
  BY <1>2, <1>3, <1>6
<1>8. ASSUME NEW x \in Range(s) PROVE x \in Range(Reverse(s))
  <2>1. PICK i \in 1..Len(s) : x = s[i]
    BY <1>6
  <2>2. (Len(s) - i) + 1 \in 1..Len(s) /\ Len(s) - ((Len(s) - i) + 1) + 1 = i
    BY <1>1, <2>1
  <2>3. Reverse(s)[(Len(s) - i) + 1] = s[i]
    BY <1>2, <2>2
  <2> QED BY <1>6, <2>1, <2>2, <2>3
<1> QED BY <1>2, <1>5, <1>7, <1>8

\* A list up to a position, and past it.
LEMMA CutIs ==
  ASSUME NEW S, NEW s \in Seq(S), NEW n \in Nat
  PROVE  /\ Cut(s, n) \in Seq(S) /\ Len(Cut(s, n)) = IF n < Len(s) THEN n ELSE Len(s)
         /\ \A i \in 1..Len(Cut(s, n)) : Cut(s, n)[i] = s[i]
         /\ Range(Cut(s, n)) \subseteq Range(s)
         /\ n >= Len(s) => Cut(s, n) = s
<1> DEFINE m == IF n < Len(s) THEN n ELSE Len(s)
<1>1. Len(s) \in Nat /\ m \in Nat /\ m <= Len(s) /\ \A i \in 1..Len(s) : s[i] \in S
  BY LenProperties, ElementOfSeq
<1>2. Cut(s, n) = SubSeq(s, 1, m)
  BY DEF Cut
<1>3. n >= Len(s) => m = Len(s)
  BY <1>1
<1> HIDE DEF m
<1>4. /\ SubSeq(s, 1, m) \in Seq(S) /\ Len(SubSeq(s, 1, m)) = m
      /\ \A i \in 1..m : SubSeq(s, 1, m)[i] = s[i]
  <2>1. /\ SubSeq(s, 1, m) \in Seq(S) /\ Len(SubSeq(s, 1, m)) = IF 1 <= m THEN m - 1 + 1 ELSE 0
        /\ \A i \in 1..(m - 1 + 1) : SubSeq(s, 1, m)[i] = s[1 + i - 1]
    BY <1>1, SubSeqProperties
  <2> QED BY <1>1, <2>1
<1>5. Range(Cut(s, n)) \subseteq Range(s)
  <2> DEFINE t == Cut(s, n)
  <2>1. t \in Seq(S) /\ Len(t) = m /\ \A i \in 1..m : t[i] = s[i]
    BY <1>2, <1>4
  <2> HIDE DEF t
  <2>2. Range(s) = {s[i] : i \in 1..Len(s)} /\ Range(t) = {t[i] : i \in 1..m}
    BY <2>1, RangeEquality
  <2>3. Range(t) \subseteq Range(s)
    BY <1>1, <2>1, <2>2
  <2> QED BY <2>3 DEF t
<1>6. n >= Len(s) => Cut(s, n) = s
  BY <1>2, <1>3, SubSeqFull
<1> QED BY <1>2, <1>4, <1>5, <1>6 DEF m

LEMMA PastIs ==
  ASSUME NEW S, NEW s \in Seq(S), NEW n \in Nat
  PROVE  /\ Past(s, n) \in Seq(S) /\ Len(Past(s, n)) = IF n < Len(s) THEN Len(s) - n ELSE 0
         /\ \A i \in 1..Len(Past(s, n)) : Past(s, n)[i] = s[n + i]
         /\ Range(Past(s, n)) = {s[i] : i \in (n + 1)..Len(s)}
         /\ Past(s, 0) = s
<1>1. Len(s) \in Nat /\ \A i \in 1..Len(s) : s[i] \in S
  BY LenProperties, ElementOfSeq
<1>2. Past(s, n) = SubSeq(s, n + 1, Len(s)) /\ Past(s, 0) = SubSeq(s, 1, Len(s))
  BY DEF Past
<1>3. /\ Past(s, n) \in Seq(S) /\ Len(Past(s, n)) = IF n + 1 <= Len(s) THEN Len(s) - (n + 1) + 1 ELSE 0
      /\ \A i \in 1..(Len(s) - (n + 1) + 1) : Past(s, n)[i] = s[(n + 1) + i - 1]
  <2>1. n + 1 \in Int /\ Len(s) \in Int /\ \A i \in (n + 1)..Len(s) : s[i] \in S
    BY <1>1
  <2> DEFINE a == n + 1
             b == Len(s)
  <2> HIDE DEF a, b
  <2>2. /\ SubSeq(s, a, b) \in Seq(S) /\ Len(SubSeq(s, a, b)) = IF a <= b THEN b - a + 1 ELSE 0
        /\ \A i \in 1..(b - a + 1) : SubSeq(s, a, b)[i] = s[a + i - 1]
    BY <2>1, SubSeqProperties DEF a, b
  <2> QED BY <1>2, <2>2 DEF a, b
<1>4. Len(Past(s, n)) = IF n < Len(s) THEN Len(s) - n ELSE 0
  BY <1>1, <1>3
<1>5. \A i \in 1..Len(Past(s, n)) : Past(s, n)[i] = s[n + i]
  <2> SUFFICES ASSUME NEW i \in 1..Len(Past(s, n)) PROVE Past(s, n)[i] = s[n + i]
    OBVIOUS
  <2>1. i \in 1..(Len(s) - (n + 1) + 1) /\ (n + 1) + i - 1 = n + i
    BY <1>1, <1>4
  <2> QED BY <1>3, <2>1
<1>6. Range(Past(s, n)) = {s[i] : i \in (n + 1)..Len(s)}
  <2>1. Range(Past(s, n)) = {Past(s, n)[i] : i \in 1..Len(Past(s, n))}
    BY <1>3, RangeEquality
  <2>2. ASSUME NEW x \in Range(Past(s, n)) PROVE x \in {s[i] : i \in (n + 1)..Len(s)}
    <3>1. PICK i \in 1..Len(Past(s, n)) : x = Past(s, n)[i]
      BY <2>1
    <3>2. x = s[n + i] /\ n + i \in (n + 1)..Len(s)
      BY <1>1, <1>4, <1>5, <3>1
    <3> QED BY <3>2
  <2>3. ASSUME NEW i \in (n + 1)..Len(s) PROVE s[i] \in Range(Past(s, n))
    <3>1. i - n \in 1..Len(Past(s, n)) /\ n + (i - n) = i
      BY <1>1, <1>4, <2>3
    <3>2. Past(s, n)[i - n] = s[i]
      BY <1>5, <3>1
    <3> QED BY <2>1, <3>1, <3>2
  <2> QED BY <2>2, <2>3
<1> QED BY <1>2, <1>3, <1>4, <1>5, <1>6, SubSeqFull

\* An empty list is the list of length 0.
LEMMA OnlyNone == ASSUME NEW S, NEW s \in Seq(S) PROVE s = <<>> <=> Len(s) = 0
<1> QED BY EmptySeq

\* Reversed, the second part comes first.
LEMMA ReverseConcat ==
  ASSUME NEW S, NEW s \in Seq(S), NEW t \in Seq(S) PROVE Reverse(s \o t) = Reverse(t) \o Reverse(s)
<1> DEFINE u == s \o t
           v == Reverse(t)
           w == Reverse(s)
           x == v \o w
<1>1. /\ u \in Seq(S) /\ Len(u) = Len(s) + Len(t) /\ Len(s) \in Nat /\ Len(t) \in Nat
      /\ \A i \in 1..(Len(s) + Len(t)) : u[i] = IF i <= Len(s) THEN s[i] ELSE t[i - Len(s)]
  BY ConcatProperties, LenProperties
<1>2. /\ v \in Seq(S) /\ Len(v) = Len(t) /\ \A i \in 1..Len(t) : v[i] = t[Len(t) - i + 1]
      /\ w \in Seq(S) /\ Len(w) = Len(s) /\ \A i \in 1..Len(s) : w[i] = s[Len(s) - i + 1]
  BY ReverseIs
<1> HIDE DEF u, v, w
<1>3. /\ x \in Seq(S) /\ Len(x) = Len(v) + Len(w)
      /\ \A i \in 1..(Len(v) + Len(w)) : x[i] = IF i <= Len(v) THEN v[i] ELSE w[i - Len(v)]
  <2>1. v \in Seq(S) /\ w \in Seq(S)
    BY <1>2
  <2> QED BY <2>1, ConcatProperties
<1>4. Reverse(u) \in Seq(S) /\ Len(Reverse(u)) = Len(u) /\ \A i \in 1..Len(u) : Reverse(u)[i] = u[Len(u) - i + 1]
  BY <1>1, ReverseIs
<1> DEFINE y == Reverse(u)
<1> HIDE DEF x, y
<1>5. ASSUME NEW i \in 1..Len(y) PROVE y[i] = x[i]
  <2>1. i \in 1..(Len(s) + Len(t)) /\ y[i] = u[Len(s) + Len(t) - i + 1]
    BY <1>1, <1>4 DEF y
  <2>2. CASE i <= Len(t)
    <3>1. i \in 1..Len(t) /\ Len(s) + Len(t) - i + 1 \in 1..(Len(s) + Len(t)) /\ ~(Len(s) + Len(t) - i + 1 <= Len(s))
          /\ Len(s) + Len(t) - i + 1 - Len(s) = Len(t) - i + 1
      BY <1>1, <2>1, <2>2
    <3>2. y[i] = t[Len(t) - i + 1]
      BY <1>1, <2>1, <3>1
    <3>3. x[i] = v[i]
      BY <1>1, <1>2, <1>3, <2>1, <2>2
    <3> QED BY <1>2, <3>1, <3>2, <3>3
  <2>3. CASE ~(i <= Len(t))
    <3>1. i - Len(t) \in 1..Len(s) /\ Len(s) + Len(t) - i + 1 \in 1..(Len(s) + Len(t)) /\ Len(s) + Len(t) - i + 1 <= Len(s)
          /\ Len(s) + Len(t) - i + 1 = Len(s) - (i - Len(t)) + 1
      BY <1>1, <2>1, <2>3
    <3>2. y[i] = s[Len(s) - (i - Len(t)) + 1]
      BY <1>1, <2>1, <3>1
    <3>3. x[i] = w[i - Len(t)]
      BY <1>1, <1>2, <1>3, <2>1, <2>3
    <3> QED BY <1>2, <3>1, <3>2, <3>3
  <2> QED BY <2>2, <2>3
<1>6. y \in Seq(S) /\ x \in Seq(S) /\ Len(y) = Len(x)
  BY <1>1, <1>2, <1>3, <1>4 DEF y
<1>7. y = x
  BY <1>5, <1>6, SeqEqual
<1> QED BY <1>7 DEF x, y, u, v, w

\* The shorter of two cuts.
LEMMA CutTwice ==
  ASSUME NEW S, NEW s \in Seq(S), NEW m \in Nat, NEW n \in Nat, n <= m PROVE Cut(Cut(s, m), n) = Cut(s, n)
<1> DEFINE t == Cut(s, m)
           u == Cut(s, n)
           v == Cut(t, n)
<1>1. /\ t \in Seq(S) /\ Len(t) = IF m < Len(s) THEN m ELSE Len(s)
      /\ \A i \in 1..Len(t) : t[i] = s[i]
  BY CutIs
<1>2. /\ u \in Seq(S) /\ Len(u) = IF n < Len(s) THEN n ELSE Len(s)
      /\ \A i \in 1..Len(u) : u[i] = s[i]
  BY CutIs
<1> HIDE DEF t, u
<1>3. /\ v \in Seq(S) /\ Len(v) = IF n < Len(t) THEN n ELSE Len(t)
      /\ \A i \in 1..Len(v) : v[i] = t[i]
  BY <1>1, CutIs
<1>4. Len(s) \in Nat
  BY LenProperties
<1> HIDE DEF v
<1>5. Len(v) = Len(u) /\ Len(v) <= Len(t) /\ Len(v) \in Nat /\ Len(t) \in Nat
  BY <1>1, <1>2, <1>3, <1>4
<1>6. \A i \in 1..Len(v) : v[i] = u[i]
  BY <1>1, <1>2, <1>3, <1>5
<1>7. v = u
  BY <1>2, <1>3, <1>5, <1>6, SeqEqual
<1> QED BY <1>7 DEF t, u, v

\* A cut, and as many more of what is past it, is a longer cut.
LEMMA CutMore ==
  ASSUME NEW S, NEW s \in Seq(S), NEW m \in Nat, NEW n \in Nat, m <= Len(s)
  PROVE  Cut(s, m) \o Cut(Past(s, m), n) = Cut(s, m + Len(Cut(Past(s, m), n)))
<1> DEFINE t == Cut(s, m)
           p == Past(s, m)
           q == Cut(p, n)
           x == t \o q
           y == Cut(s, m + Len(q))
<1>0. Len(s) \in Nat
  BY LenProperties
<1>1. t \in Seq(S) /\ Len(t) = m /\ \A i \in 1..m : t[i] = s[i]
  BY <1>0, CutIs
<1>2. p \in Seq(S) /\ Len(p) = Len(s) - m /\ \A i \in 1..Len(p) : p[i] = s[m + i]
  BY <1>0, PastIs
<1> HIDE DEF t, p
<1>3. q \in Seq(S) /\ Len(q) = (IF n < Len(p) THEN n ELSE Len(p)) /\ \A i \in 1..Len(q) : q[i] = p[i]
  BY <1>2, CutIs
<1> HIDE DEF q
<1>4. Len(q) \in Nat /\ Len(q) <= Len(p) /\ m + Len(q) \in Nat /\ m + Len(q) <= Len(s)
  BY <1>0, <1>2, <1>3
<1>5. /\ x \in Seq(S) /\ Len(x) = m + Len(q)
      /\ \A i \in 1..(m + Len(q)) : x[i] = IF i <= m THEN t[i] ELSE q[i - m]
  <2>1. t \in Seq(S) /\ q \in Seq(S)
    BY <1>1, <1>3
  <2>2. /\ x \in Seq(S) /\ Len(x) = Len(t) + Len(q)
        /\ \A i \in 1..(Len(t) + Len(q)) : x[i] = IF i <= Len(t) THEN t[i] ELSE q[i - Len(t)]
    BY <2>1, ConcatProperties
  <2> HIDE DEF x
  <2> QED BY <1>1, <2>2
<1>6. y \in Seq(S) /\ Len(y) = m + Len(q) /\ \A i \in 1..Len(y) : y[i] = s[i]
  <2>1. y \in Seq(S) /\ Len(y) = (IF m + Len(q) < Len(s) THEN m + Len(q) ELSE Len(s)) /\ \A i \in 1..Len(y) : y[i] = s[i]
    BY <1>4, CutIs
  <2> HIDE DEF y
  <2> QED BY <1>0, <1>4, <2>1
<1> HIDE DEF x, y
<1>7. ASSUME NEW i \in 1..Len(x) PROVE x[i] = y[i]
  <2>1. i \in 1..(m + Len(q)) /\ i \in 1..Len(y)
    BY <1>5, <1>6
  <2>2. CASE i <= m
    <3>1. i \in 1..m
      BY <1>4, <2>1, <2>2
    <3> QED BY <1>1, <1>5, <1>6, <2>1, <3>1
  <2>3. CASE ~(i <= m)
    <3>1. i - m \in 1..Len(q) /\ i - m \in 1..Len(p) /\ m + (i - m) = i
      BY <1>0, <1>2, <1>4, <2>1, <2>3
    <3> QED BY <1>2, <1>3, <1>5, <1>6, <2>1, <2>3, <3>1
  <2> QED BY <2>2, <2>3
<1>8. x = y
  BY <1>5, <1>6, <1>7, SeqEqual
<1> QED BY <1>8 DEF t, p, q, x, y

\* Every position has a rank of its own, and every rank a position; who is
\* ahead has the smaller one.
LEMMA RankIs ==
  ASSUME NEW N \in Nat, NEW w \in [1..N -> Int]
  PROVE  /\ \A j \in 1..N : Rank(w, j) \in 1..N
         /\ \A j, k \in 1..N : Ahead(w, j, k) => Rank(w, j) < Rank(w, k)
         /\ \A j, k \in 1..N : Rank(w, j) = Rank(w, k) => j = k
         /\ \A n \in 1..N : \E j \in 1..N : Rank(w, j) = n
<1> DEFINE Before(j) == {i \in 1..N : Ahead(w, i, j)}
<1>1. IsFiniteSet(1..N) /\ Cardinality(1..N) = N
  <2>1. 1 \in Int /\ N \in Int
    OBVIOUS
  <2>2. IsFiniteSet(1..N) /\ Cardinality(1..N) = IF 1 > N THEN 0 ELSE N - 1 + 1
    BY <2>1, FS_Interval
  <2> QED BY <2>2
<1>2. \A j \in 1..N : Rank(w, j) = 1 + Cardinality(Before(j))
  BY DEF Rank
<1>3. ASSUME NEW j \in 1..N
      PROVE  IsFiniteSet(Before(j)) /\ Cardinality(Before(j)) \in Nat /\ Cardinality(Before(j)) < N /\ j \notin Before(j)
  <2>1. Before(j) \subseteq (1..N) \ {j} /\ j \notin Before(j)
    <3>1. ~Ahead(w, j, j)
      BY DEF Ahead
    <3> QED BY <3>1
  <2> DEFINE A == (1..N) \ {j}
             B == Before(j)
  <2>2. IsFiniteSet(A) /\ Cardinality(A) = N - 1
    BY <1>1, FS_RemoveElement
  <2>3. B \in SUBSET A
    BY <2>1
  <2> HIDE DEF A, B
  <2>4. IsFiniteSet(B) /\ Cardinality(B) <= Cardinality(A) /\ Cardinality(B) \in Nat
    <3>1. IsFiniteSet(B) /\ Cardinality(B) <= Cardinality(A)
      BY <2>2, <2>3, FS_Subset
    <3> QED BY <3>1, FS_CardinalityType
  <2>5. Cardinality(B) < N
    BY <2>2, <2>4
  <2> QED BY <2>1, <2>4, <2>5 DEF B
<1>4. ASSUME NEW j \in 1..N, NEW k \in 1..N, Ahead(w, j, k)
      PROVE  Cardinality(Before(j)) < Cardinality(Before(k))
  <2>1. Before(j) \cup {j} \subseteq Before(k)
    <3>1. ASSUME NEW i \in 1..N, Ahead(w, i, j) PROVE Ahead(w, i, k)
      <4>1. w[i] \in Int /\ w[j] \in Int /\ w[k] \in Int
        OBVIOUS
      <4> QED BY <1>4, <3>1, <4>1 DEF Ahead
    <3> QED BY <1>4, <3>1
  <2> DEFINE A == Before(j)
             B == Before(k)
             C == A \cup {j}
  <2>2. IsFiniteSet(A) /\ Cardinality(A) \in Nat /\ j \notin A /\ IsFiniteSet(B) /\ Cardinality(B) \in Nat
    BY <1>3
  <2>3. C \in SUBSET B
    BY <2>1
  <2> HIDE DEF A, B
  <2>4. Cardinality(C) = Cardinality(A) + 1
    BY <2>2, FS_AddElement
  <2> HIDE DEF C
  <2>5. Cardinality(C) <= Cardinality(B)
    BY <2>2, <2>3, FS_Subset
  <2>6. Cardinality(A) < Cardinality(B)
    BY <2>2, <2>4, <2>5
  <2> QED BY <2>6 DEF A, B
<1> HIDE DEF Before
<1>5. \A j \in 1..N : Rank(w, j) \in 1..N
  <2> SUFFICES ASSUME NEW j \in 1..N PROVE Rank(w, j) \in 1..N
    OBVIOUS
  <2>1. Rank(w, j) = 1 + Cardinality(Before(j)) /\ Cardinality(Before(j)) \in Nat /\ Cardinality(Before(j)) < N
    BY <1>2, <1>3
  <2> QED BY <2>1
<1>6. \A j, k \in 1..N : Ahead(w, j, k) => Rank(w, j) < Rank(w, k)
  BY <1>2, <1>3, <1>4
<1>7. ASSUME NEW j \in 1..N, NEW k \in 1..N, Rank(w, j) = Rank(w, k) PROVE j = k
  <2>1. Rank(w, j) \in 1..N /\ ~(Rank(w, j) < Rank(w, k)) /\ ~(Rank(w, k) < Rank(w, j))
    BY <1>5, <1>7
  <2>2. ~Ahead(w, j, k) /\ ~Ahead(w, k, j)
    BY <1>6, <2>1
  <2>3. w[j] \in Int /\ w[k] \in Int
    OBVIOUS
  <2> QED BY <2>2, <2>3 DEF Ahead
<1>8. ASSUME NEW n \in 1..N PROVE \E j \in 1..N : Rank(w, j) = n
  <2> DEFINE f == [j \in 1..N |-> Rank(w, j)]
  <2>1. f \in Injection(1..N, 1..N)
    BY <1>5, <1>7 DEF Injection, IsInjective
  <2> HIDE DEF f
  <2>2. f \in Surjection(1..N, 1..N)
    BY <1>1, <2>1, FS_Injection
  <2>3. \E j \in 1..N : f[j] = n
    BY <2>2 DEF Surjection
  <2> QED BY <2>3 DEF f
<1> QED BY <1>5, <1>6, <1>7, <1>8

\* Sorting puts each element of the list at a position of its own, those of
\* the greater weights first.
LEMMA DescendingIs ==
  ASSUME NEW S, NEW s \in Seq(S), NEW w \in [1..Len(s) -> Int]
  PROVE  /\ Descending(s, w) \in Seq(S) /\ Len(Descending(s, w)) = Len(s) /\ Range(Descending(s, w)) = Range(s)
         /\ \E p \in [1..Len(s) -> 1..Len(s)] :
              /\ \A n \in 1..Len(s) : Descending(s, w)[n] = s[p[n]]
              /\ \A m, n \in 1..Len(s) : m < n => w[p[m]] >= w[p[n]]
<1> DEFINE N == Len(s)
           p == [n \in 1..N |-> CHOOSE j \in 1..N : Rank(w, j) = n]
           d == Descending(s, w)
<1>1. N \in Nat /\ DOMAIN s = 1..N /\ \A i \in 1..N : s[i] \in S
  BY LenProperties, ElementOfSeq
<1> HIDE DEF N
<1>0. w \in [1..N -> Int]
  BY DEF N
<1>2. /\ \A j \in 1..N : Rank(w, j) \in 1..N
      /\ \A j, k \in 1..N : Ahead(w, j, k) => Rank(w, j) < Rank(w, k)
      /\ \A j, k \in 1..N : Rank(w, j) = Rank(w, k) => j = k
      /\ \A n \in 1..N : \E j \in 1..N : Rank(w, j) = n
  BY <1>0, <1>1, RankIs
<1>3. \A n \in 1..N : p[n] \in 1..N /\ Rank(w, p[n]) = n
  BY <1>2
<1>4. d = [n \in 1..N |-> s[p[n]]]
  BY <1>1 DEF Descending
<1>5. p \in [1..N -> 1..N]
  <2>1. p = [n \in 1..N |-> p[n]]
    OBVIOUS
  <2> HIDE DEF p
  <2> QED BY <1>3, <2>1
<1> HIDE DEF p, d
<1>6. d \in [1..N -> S]
  BY <1>1, <1>3, <1>4
<1>7. d \in Seq(S) /\ Len(d) = N
  BY <1>1, <1>6
<1>8. Range(d) = Range(s)
  <2>1. Range(s) = {s[i] : i \in 1..N}
    BY RangeEquality DEF N
  <2>2. Range(d) = {d[i] : i \in 1..N}
    BY <1>7, RangeEquality
  <2>3. \A i \in 1..N : d[i] = s[p[i]]
    BY <1>4
  <2>4. ASSUME NEW i \in 1..N PROVE \E n \in 1..N : d[n] = s[i]
    <3>1. Rank(w, i) \in 1..N
      BY <1>2
    <3>2. p[Rank(w, i)] = i
      BY <1>2, <1>3, <3>1
    <3> QED BY <2>3, <3>1, <3>2
  <2>5. Range(d) \subseteq Range(s)
    BY <1>3, <2>1, <2>2, <2>3
  <2>6. Range(s) \subseteq Range(d)
    BY <2>1, <2>2, <2>4
  <2> QED BY <2>5, <2>6
<1>9. ASSUME NEW m \in 1..N, NEW n \in 1..N, m < n PROVE w[p[m]] >= w[p[n]]
  <2>1. p[m] \in 1..N /\ p[n] \in 1..N /\ Rank(w, p[m]) = m /\ Rank(w, p[n]) = n
    BY <1>3
  <2>2. ~Ahead(w, p[n], p[m])
    <3>1. Ahead(w, p[n], p[m]) => Rank(w, p[n]) < Rank(w, p[m])
      BY <1>2, <2>1
    <3>2. ~(n < m)
      BY <1>9
    <3> QED BY <2>1, <3>1, <3>2
  <2>3. w[p[m]] \in Int /\ w[p[n]] \in Int
    BY <1>0, <2>1
  <2> QED BY <2>2, <2>3 DEF Ahead
<1>10. \A n \in 1..N : d[n] = s[p[n]]
  BY <1>4
<1> QED BY <1>5, <1>7, <1>8, <1>9, <1>10 DEF d, N

\* A list that is sorted stays as it is.
LEMMA SortedStays ==
  ASSUME NEW S, NEW s \in Seq(S), NEW w \in [1..Len(s) -> Int], \A m, n \in 1..Len(s) : m < n => w[m] >= w[n]
  PROVE  Descending(s, w) = s
<1> DEFINE N == Len(s)
<1>1. N \in Nat /\ DOMAIN s = 1..N /\ s \in [1..N -> S]
  BY LenProperties
<1> HIDE DEF N
<1>0. w \in [1..N -> Int] /\ \A m, n \in 1..N : m < n => w[m] >= w[n]
  BY DEF N
<1>2. \A j, k \in 1..N : Rank(w, j) = Rank(w, k) => j = k
  BY <1>0, <1>1, RankIs
<1>3. ASSUME NEW j \in 1..N PROVE Rank(w, j) = j
  <2>1. {i \in DOMAIN w : Ahead(w, i, j)} = 1..(j - 1)
    <3>1. ASSUME NEW i \in 1..N PROVE Ahead(w, i, j) <=> i < j
      <4>1. w[i] \in Int /\ w[j] \in Int /\ (i < j => w[i] >= w[j]) /\ (j < i => w[j] >= w[i])
        BY <1>0
      <4> QED BY <1>1, <4>1 DEF Ahead
    <3> QED BY <1>0, <1>1, <3>1
  <2>2. Cardinality(1..(j - 1)) = j - 1
    <3>1. 1 \in Int /\ j - 1 \in Int
      BY <1>1
    <3>2. Cardinality(1..(j - 1)) = IF 1 > j - 1 THEN 0 ELSE (j - 1) - 1 + 1
      BY <3>1, FS_Interval
    <3> QED BY <1>1, <3>2
  <2>3. Rank(w, j) = 1 + (j - 1)
    BY <2>1, <2>2 DEF Rank
  <2> QED BY <1>1, <2>3
<1>4. \A n \in 1..N : (CHOOSE j \in 1..N : Rank(w, j) = n) = n
  BY <1>3
<1>5. Descending(s, w) = [n \in 1..N |-> s[n]]
  BY <1>1, <1>4 DEF Descending
<1> QED BY <1>1, <1>5

-----------------------------------------------------------------------------
(* The lists of releases.                                                   *)

Question == [kind : {"search", "recent"}, langs : Seq(Langs), chapter : Nat, offset : Nat, limit : Nat]

\* The fields that the sorts and the filters read.
LEMMA ReleaseFields == \A c \in Release : c.date \in Int /\ c.num \in Int /\ c.usable \in BOOLEAN /\ c.lang \in Langs
<1> QED BY DEF Release

\* The lists by date and by number hold what was sorted.
LEMMA NewestIs ==
  ASSUME NEW s \in Seq(Release)
  PROVE  /\ NewestFirst(s) \in Seq(Release) /\ Len(NewestFirst(s)) = Len(s) /\ Range(NewestFirst(s)) = Range(s)
         /\ \A m, n \in 1..Len(s) : m < n => NewestFirst(s)[m].date >= NewestFirst(s)[n].date
<1> DEFINE w == [i \in 1..Len(s) |-> s[i].date]
<1>1. DOMAIN s = 1..Len(s) /\ \A i \in 1..Len(s) : s[i] \in Release
  BY LenProperties, ElementOfSeq
<1>2. w \in [1..Len(s) -> Int]
  BY <1>1, ReleaseFields
<1>3. NewestFirst(s) = Descending(s, w)
  BY <1>1 DEF NewestFirst
<1>4. \A i \in 1..Len(s) : w[i] = s[i].date
  OBVIOUS
<1> HIDE DEF w
<1>5. /\ Descending(s, w) \in Seq(Release) /\ Len(Descending(s, w)) = Len(s) /\ Range(Descending(s, w)) = Range(s)
      /\ \E p \in [1..Len(s) -> 1..Len(s)] :
           /\ \A n \in 1..Len(s) : Descending(s, w)[n] = s[p[n]]
           /\ \A m, n \in 1..Len(s) : m < n => w[p[m]] >= w[p[n]]
  BY <1>2, DescendingIs
<1>6. PICK p \in [1..Len(s) -> 1..Len(s)] :
        /\ \A n \in 1..Len(s) : Descending(s, w)[n] = s[p[n]]
        /\ \A m, n \in 1..Len(s) : m < n => w[p[m]] >= w[p[n]]
  BY <1>5
<1>7. ASSUME NEW m \in 1..Len(s), NEW n \in 1..Len(s), m < n
      PROVE  NewestFirst(s)[m].date >= NewestFirst(s)[n].date
  <2>1. p[m] \in 1..Len(s) /\ p[n] \in 1..Len(s) /\ w[p[m]] >= w[p[n]]
    BY <1>6, <1>7
  <2>2. NewestFirst(s)[m] = s[p[m]] /\ NewestFirst(s)[n] = s[p[n]]
    BY <1>3, <1>6
  <2> QED BY <1>4, <2>1, <2>2
<1> QED BY <1>3, <1>5, <1>7

LEMMA LastFirstIs ==
  ASSUME NEW s \in Seq(Release)
  PROVE  LastFirst(s) \in Seq(Release) /\ Len(LastFirst(s)) = Len(s) /\ Range(LastFirst(s)) = Range(s)
<1> DEFINE w == [i \in 1..Len(s) |-> s[i].num]
<1>1. DOMAIN s = 1..Len(s) /\ \A i \in 1..Len(s) : s[i] \in Release
  BY LenProperties, ElementOfSeq
<1>2. w \in [1..Len(s) -> Int]
  BY <1>1, ReleaseFields
<1>3. LastFirst(s) = Descending(s, w)
  BY <1>1 DEF LastFirst
<1> HIDE DEF w
<1> QED BY <1>2, <1>3, DescendingIs

\* What is cut from a list sorted by date is sorted by date.
LEMMA CutNewest ==
  ASSUME NEW s \in Seq(Release), NEW n \in Nat
  PROVE  NewestFirst(Cut(NewestFirst(s), n)) = Cut(NewestFirst(s), n)
<1> DEFINE t == NewestFirst(s)
           u == Cut(t, n)
           w == [i \in 1..Len(u) |-> u[i].date]
<1>1. t \in Seq(Release) /\ Len(t) = Len(s) /\ \A k, m \in 1..Len(s) : k < m => t[k].date >= t[m].date
  BY NewestIs
<1>2. Len(s) \in Nat
  BY LenProperties
<1> HIDE DEF t
<1>3. /\ u \in Seq(Release) /\ Len(u) = IF n < Len(t) THEN n ELSE Len(t)
      /\ \A i \in 1..Len(u) : u[i] = t[i]
  BY <1>1, CutIs
<1> HIDE DEF u
<1>4. DOMAIN u = 1..Len(u) /\ \A i \in 1..Len(u) : u[i] \in Release
  BY <1>3, LenProperties, ElementOfSeq
<1>5. w \in [1..Len(u) -> Int]
  BY <1>4, ReleaseFields
<1>6. ASSUME NEW k \in 1..Len(u), NEW m \in 1..Len(u), k < m PROVE w[k] >= w[m]
  <2>1. k \in 1..Len(s) /\ m \in 1..Len(s)
    BY <1>1, <1>2, <1>3
  <2>2. t[k].date >= t[m].date
    BY <1>1, <1>6, <2>1
  <2> QED BY <1>3, <2>2
<1>7. NewestFirst(u) = Descending(u, w)
  BY <1>4 DEF NewestFirst
<1> HIDE DEF w
<1>8. Descending(u, w) = u
  BY <1>3, <1>5, <1>6, SortedStays
<1> QED BY <1>7, <1>8 DEF t, u

\* The filters of the sources are filters.
LEMMA FiltersAre ==
  ASSUME NEW s \in Seq(Release), NEW q, NEW k
  PROVE  /\ Usable(s) \in Seq(Release) /\ Range(Usable(s)) = {c \in Range(s) : c.usable}
         /\ InLangs(k, s) \in Seq(Release) /\ Range(InLangs(k, s)) = {c \in Range(s) : Wants(k, c.lang)}
         /\ OfLangs(k, s) \in Seq(Release) /\ Range(OfLangs(k, s)) = {c \in Range(s) : c.lang \in k}
         /\ Matching(q, s) \in Seq(Release) /\ Range(Matching(q, s)) = {c \in Range(s) : c.usable /\ chapter_matches(q, c)}
         /\ Len(Matching(q, s)) <= Len(s) /\ Len(OfLangs(k, s)) <= Len(s)
<1>1. \A T : Kept(s, T) \in Seq(Release) /\ Range(Kept(s, T)) = Range(s) \cap T /\ Len(Kept(s, T)) <= Len(s)
  BY KeptFits, KeptRange
<1> QED BY <1>1 DEF Usable, InLangs, OfLangs, Matching

\* What a search wants is of the site, usable, of its chapter and languages.
LEMMA WantedIs ==
  ASSUME NEW s \in Seq(Release), NEW q
  PROVE  /\ WantedOf(q, s) \in Seq(Release) /\ Len(WantedOf(q, s)) <= Len(s)
         /\ Range(WantedOf(q, s)) = {c \in Range(s) : c.usable /\ chapter_matches(q, c) /\ Wants(q.langs, c.lang)}
<1> DEFINE m == Matching(q, s)
           T == {c \in Range(m) : Wants(q.langs, c.lang)}
<1>1. m \in Seq(Release) /\ Range(m) = {c \in Range(s) : c.usable /\ chapter_matches(q, c)} /\ Len(m) <= Len(s)
  BY FiltersAre
<1>2. WantedOf(q, s) = Kept(m, T)
  BY DEF WantedOf, InLangs
<1>3. T = {c \in Range(s) : c.usable /\ chapter_matches(q, c) /\ Wants(q.langs, c.lang)}
  BY <1>1
<1> HIDE DEF m, T
<1>4. Kept(m, T) \in Seq(Release) /\ Range(Kept(m, T)) = Range(m) \cap T /\ Len(Kept(m, T)) <= Len(m)
  BY <1>1, KeptFits, KeptRange
<1>5. Len(Kept(m, T)) \in Nat /\ Len(m) \in Nat /\ Len(s) \in Nat
  BY <1>1, <1>4, LenProperties
<1>6. Range(m) \cap T = T
  BY DEF T
<1> QED BY <1>1, <1>2, <1>3, <1>4, <1>5, <1>6

\* MangaDex filters by language first, the window that is due by language last.
LEMMA FilteredEitherWay ==
  ASSUME NEW s \in Seq(Release), NEW q, NEW k, \A l : l \in k <=> Wants(q.langs, l)
  PROVE  Matching(q, OfLangs(k, s)) = WantedOf(q, s)
<1> DEFINE A == {c \in Range(s) : c.lang \in k}
           B == {c \in Range(s) : c.usable /\ chapter_matches(q, c)}
           a == Kept(s, A)
           b == Kept(s, B)
           C == {c \in Range(a) : c.usable /\ chapter_matches(q, c)}
           D == {c \in Range(b) : Wants(q.langs, c.lang)}
<1>1. a \in Seq(Release) /\ b \in Seq(Release) /\ Range(a) = Range(s) \cap A /\ Range(b) = Range(s) \cap B
  BY KeptFits, KeptRange
<1>2. Matching(q, OfLangs(k, s)) = Kept(a, C) /\ WantedOf(q, s) = Kept(b, D)
  BY DEF Matching, OfLangs, WantedOf, InLangs
<1>3. A \cap C = B \cap D
  <2>1. A \cap C = {c \in Range(s) : c.lang \in k /\ c.usable /\ chapter_matches(q, c)}
    BY <1>1
  <2>2. B \cap D = {c \in Range(s) : c.usable /\ chapter_matches(q, c) /\ Wants(q.langs, c.lang)}
    BY <1>1
  <2> QED BY <2>1, <2>2
<1> HIDE DEF A, B, C, D
<1>4. Kept(a, C) = Kept(s, A \cap C) /\ Kept(b, D) = Kept(s, B \cap D)
  BY KeptTwice
<1> QED BY <1>2, <1>3, <1>4

\* The page that a route cuts.
LEMMA WindowIs ==
  ASSUME NEW s \in Seq(Release), NEW q \in Question
  PROVE  Window(q, s) \in Seq(Release) /\ Range(Window(q, s)) \subseteq Range(s)
<1> DEFINE t == NewestFirst(s)
           p == Past(t, q.offset)
<1>1. q.offset \in Nat /\ q.limit \in Nat /\ Or50(q.limit) \in Nat
  BY DEF Question, Or50
<1>2. t \in Seq(Release) /\ Range(t) = Range(s)
  BY NewestIs
<1>3. Window(q, s) = IF q.kind = "recent" THEN Cut(t, Or50(q.limit)) ELSE Cut(p, q.limit)
  BY DEF Window
<1> HIDE DEF t
<1>4. Cut(t, Or50(q.limit)) \in Seq(Release) /\ Range(Cut(t, Or50(q.limit))) \subseteq Range(t)
  BY <1>1, <1>2, CutIs
<1>5. p \in Seq(Release) /\ Range(p) \subseteq Range(t)
  <2>1. p \in Seq(Release) /\ Range(p) = {t[i] : i \in (q.offset + 1)..Len(t)}
    BY <1>1, <1>2, PastIs
  <2>2. Range(t) = {t[i] : i \in 1..Len(t)} /\ Len(t) \in Nat
    BY <1>2, RangeEquality, LenProperties
  <2>3. (q.offset + 1)..Len(t) \subseteq 1..Len(t)
    BY <1>1, <2>2
  <2> QED BY <2>1, <2>2, <2>3
<1> HIDE DEF p
<1>6. Cut(p, q.limit) \in Seq(Release) /\ Range(Cut(p, q.limit)) \subseteq Range(p)
  BY <1>1, <1>5, CutIs
<1> QED BY <1>2, <1>3, <1>4, <1>5, <1>6

LEMMA TopIs == ASSUME NEW s \in Seq(Release) PROVE Top(s) \in Seq(Release) /\ Range(Top(s)) \subseteq Range(s)
<1>1. 1 \in Nat
  OBVIOUS
<1> QED BY <1>1, CutIs DEF Top

\* What a feed lists is of the site, and all of it in the languages of its key.
LEMMA ListedIs ==
  ASSUME SourcesAssumption, src \in Sources, NEW s \in Seq(Release), NEW k
  PROVE  /\ Listed(k, s) \in Seq(Release) /\ Len(Listed(k, s)) <= Len(s)
         /\ src \in {"mangadex", "mangafire"} => Range(Listed(k, s)) = {c \in Range(s) : c.lang \in k}
         /\ src \notin {"mangadex", "mangafire"} => Range(Listed(k, s)) = Range(s)
<1> DEFINE o == OfLangs(k, s)
<1>1. o \in Seq(Release) /\ Range(o) = {c \in Range(s) : c.lang \in k} /\ Len(o) <= Len(s)
  BY FiltersAre
<1>2. Len(s) \in Nat
  BY LenProperties
<1>3. Reverse(s) \in Seq(Release) /\ Len(Reverse(s)) = Len(s) /\ Range(Reverse(s)) = Range(s)
  BY ReverseIs
<1>4. CASE src = "mangadex"
  BY <1>1, <1>4 DEF Listed
<1>5. CASE src = "mangafire"
  <2>1. Listed(k, s) = Reverse(o)
    BY <1>5 DEF Listed
  <2> HIDE DEF o
  <2>2. Reverse(o) \in Seq(Release) /\ Len(Reverse(o)) = Len(o) /\ Range(Reverse(o)) = Range(o)
    BY <1>1, ReverseIs
  <2> QED BY <1>1, <1>5, <2>1, <2>2
<1>6. CASE src \in {"kagane", "weebcentral", "comix"}
  <2>1. Listed(k, s) = Reverse(s)
    BY <1>6 DEF Listed
  <2> QED BY <1>2, <1>3, <1>6, <2>1
<1>7. CASE src \in {"mangadot", "mangaball", "atsumaru", "projectsuki"}
  <2>1. Listed(k, s) = s
    BY <1>7 DEF Listed
  <2> QED BY <1>2, <1>7, <2>1
<1> QED BY <1>4, <1>5, <1>6, <1>7 DEF SourcesAssumption

\* What a poll brings: of the languages asked for, and, but from Comix, usable.
LEMMA RecentIs ==
  ASSUME SourcesAssumption, src \in Sources, site \in Seq(Release), FeedPage \in Nat, NEW q \in Question
  PROVE  /\ RecentRows(q) \in Seq(Release)
         /\ \A c \in Range(RecentRows(q)) :
              /\ c \in Range(site) /\ (src # "comix" => c.usable)
              /\ src \in {"mangadex", "mangadot", "mangaball"} => Wants(q.langs, c.lang)
              /\ src = "mangafire" => c.lang = FilterLanguage(q.langs)
<1>0. Or50(q.limit) \in Nat
  BY DEF Question, Or50
<1> DEFINE mine == InLangs(q.langs, site)
           back == Reverse(site)
<1>1. mine \in Seq(Release) /\ Range(mine) = {c \in Range(site) : Wants(q.langs, c.lang)}
  BY FiltersAre
<1>2. back \in Seq(Release) /\ Range(back) = Range(site)
  BY ReverseIs
<1>3. CASE src = "mangadex"
  <2> DEFINE n == NewestFirst(mine)
             t == Cut(n, Or50(q.limit))
  <2>1. RecentRows(q) = Usable(t)
    BY <1>3 DEF RecentRows, MangaDexRecent
  <2> HIDE DEF mine
  <2>2. n \in Seq(Release) /\ Range(n) = Range(mine)
    BY <1>1, NewestIs
  <2> HIDE DEF n
  <2>3. t \in Seq(Release) /\ Range(t) \subseteq Range(n)
    BY <1>0, <2>2, CutIs
  <2> HIDE DEF t
  <2>4. Usable(t) \in Seq(Release) /\ Range(Usable(t)) = {c \in Range(t) : c.usable}
    BY <2>3, FiltersAre
  <2> QED BY <1>1, <1>3, <2>1, <2>2, <2>3, <2>4
<1>4. CASE src = "mangadot"
  <2> DEFINE u == Usable(mine)
             n == NewestFirst(u)
  <2>1. RecentRows(q) = Top(n)
    BY <1>4 DEF RecentRows, MangaDotRecent
  <2> HIDE DEF mine
  <2>2. u \in Seq(Release) /\ Range(u) = {c \in Range(mine) : c.usable}
    BY <1>1, FiltersAre
  <2> HIDE DEF u
  <2>3. n \in Seq(Release) /\ Range(n) = Range(u)
    BY <2>2, NewestIs
  <2> HIDE DEF n
  <2>4. Top(n) \in Seq(Release) /\ Range(Top(n)) \subseteq Range(n)
    BY <2>3, TopIs
  <2> QED BY <1>1, <1>4, <2>1, <2>2, <2>3, <2>4
<1>5. CASE src = "mangaball"
  <2> DEFINE n == NewestFirst(mine)
  <2>1. RecentRows(q) = Usable(n)
    BY <1>5 DEF RecentRows, MangaBallRecent
  <2> HIDE DEF mine
  <2>2. n \in Seq(Release) /\ Range(n) = Range(mine)
    BY <1>1, NewestIs
  <2> HIDE DEF n
  <2>3. Usable(n) \in Seq(Release) /\ Range(Usable(n)) = {c \in Range(n) : c.usable}
    BY <2>2, FiltersAre
  <2> QED BY <1>1, <1>5, <2>1, <2>2, <2>3
<1>6. CASE src \in {"kagane", "atsumaru", "weebcentral", "projectsuki"}
  <2> DEFINE u == Usable(back)
  <2>1. RecentRows(q) = Top(u)
    BY <1>6 DEF RecentRows, KaganeRecent, AtsumaruRecent, WeebCentralRecent, ProjectSukiRecent
  <2> HIDE DEF back
  <2>2. u \in Seq(Release) /\ Range(u) = {c \in Range(back) : c.usable}
    BY <1>2, FiltersAre
  <2> HIDE DEF u
  <2>3. Top(u) \in Seq(Release) /\ Range(Top(u)) \subseteq Range(u)
    BY <2>2, TopIs
  <2> QED BY <1>2, <1>6, <2>1, <2>2, <2>3
<1>7. CASE src = "mangafire"
  <2> DEFINE o == OfLangs({FilterLanguage(q.langs)}, site)
             v == Reverse(o)
             t == Cut(v, FeedPage)
             u == Usable(t)
  <2>1. RecentRows(q) = Top(u)
    BY <1>7 DEF RecentRows, MangaFireRecent
  <2>2. o \in Seq(Release) /\ Range(o) = {c \in Range(site) : c.lang \in {FilterLanguage(q.langs)}}
    BY FiltersAre
  <2> HIDE DEF o
  <2>3. v \in Seq(Release) /\ Range(v) = Range(o)
    BY <2>2, ReverseIs
  <2> HIDE DEF v
  <2>4. t \in Seq(Release) /\ Range(t) \subseteq Range(v)
    BY <2>3, CutIs
  <2> HIDE DEF t
  <2>5. u \in Seq(Release) /\ Range(u) = {c \in Range(t) : c.usable}
    BY <2>4, FiltersAre
  <2> HIDE DEF u
  <2>6. Top(u) \in Seq(Release) /\ Range(Top(u)) \subseteq Range(u)
    BY <2>5, TopIs
  <2> QED BY <1>7, <2>1, <2>2, <2>3, <2>4, <2>5, <2>6
<1>8. CASE src = "comix"
  <2>1. RecentRows(q) = Top(back)
    BY <1>8 DEF RecentRows, ComixRecent
  <2> HIDE DEF back
  <2>2. Top(back) \in Seq(Release) /\ Range(Top(back)) \subseteq Range(back)
    BY <1>2, TopIs
  <2> QED BY <1>2, <1>8, <2>1, <2>2
<1> QED BY <1>3, <1>4, <1>5, <1>6, <1>7, <1>8 DEF SourcesAssumption

\* What the source makes of a search in a feed, which it may cut.
LEMMA SearchRowsAre ==
  ASSUME SourcesAssumption, src \in Sources, NEW s \in Seq(Release), NEW q \in Question
  PROVE  /\ SearchRows(q, s) \in Seq(Release)
         /\ \A c \in Range(s) :
              /\ c.usable /\ q.chapter = 0 /\ q.limit # 0 /\ q.limit >= Len(s)
              /\ src \in {"mangadot", "mangaball"} => Wants(q.langs, c.lang)
              => c \in Range(SearchRows(q, s))
<1> DEFINE m == Matching(q, s)
           l == LastFirst(m)
           w == WantedOf(q, s)
           n == NewestFirst(w)
           e == Kept(s, {c \in Range(s) : chapter_matches(q, c)})
           f == Cut(e, q.offset + q.limit)
<1>0. q.limit \in Nat /\ q.offset \in Nat /\ q.offset + q.limit \in Nat /\ q.chapter \in Nat /\ Or50(q.limit) \in Nat
      /\ (q.limit # 0 => Or50(q.limit) = q.limit) /\ Len(s) \in Nat
  BY LenProperties DEF Question, Or50
<1>1. m \in Seq(Release) /\ Range(m) = {c \in Range(s) : c.usable /\ chapter_matches(q, c)} /\ Len(m) <= Len(s)
  BY FiltersAre
<1>2. w \in Seq(Release) /\ Len(w) <= Len(s)
      /\ Range(w) = {c \in Range(s) : c.usable /\ chapter_matches(q, c) /\ Wants(q.langs, c.lang)}
  BY WantedIs
<1>3. \A c : q.chapter = 0 => chapter_matches(q, c)
  BY DEF chapter_matches
<1>4. CASE src = "mangadex"
  <2>1. SearchRows(q, s) = m
    BY <1>4 DEF SearchRows, MangaDexRows
  <2> HIDE DEF m
  <2> QED BY <1>1, <1>3, <2>1
<1>5. CASE src \in {"mangadot", "mangaball"}
  <2>1. SearchRows(q, s) = Cut(n, Or50(q.limit))
    BY <1>5 DEF SearchRows, MangaDotRows, MangaBallRows
  <2> HIDE DEF w
  <2>2. n \in Seq(Release) /\ Len(n) = Len(w) /\ Range(n) = Range(w)
    BY <1>2, NewestIs
  <2> HIDE DEF n
  <2>3. Cut(n, Or50(q.limit)) \in Seq(Release) /\ (Or50(q.limit) >= Len(n) => Cut(n, Or50(q.limit)) = n)
    BY <1>0, <2>2, CutIs
  <2>4. Len(n) \in Nat
    BY <2>2, LenProperties
  <2>5. q.limit # 0 /\ q.limit >= Len(s) => SearchRows(q, s) = n
    BY <1>0, <1>2, <2>1, <2>2, <2>3, <2>4
  <2> QED BY <1>2, <1>3, <1>5, <2>1, <2>2, <2>3, <2>5
<1>6. CASE src \in {"kagane", "atsumaru", "projectsuki"}
  <2>1. SearchRows(q, s) = Cut(l, Or50(q.limit))
    BY <1>6 DEF SearchRows, KaganeRows, AtsumaruRows, ProjectSukiRows
  <2> HIDE DEF m
  <2>2. l \in Seq(Release) /\ Len(l) = Len(m) /\ Range(l) = Range(m)
    BY <1>1, LastFirstIs
  <2> HIDE DEF l
  <2>3. Cut(l, Or50(q.limit)) \in Seq(Release) /\ (Or50(q.limit) >= Len(l) => Cut(l, Or50(q.limit)) = l)
    BY <1>0, <2>2, CutIs
  <2>4. Len(l) \in Nat
    BY <2>2, LenProperties
  <2>5. q.limit # 0 /\ q.limit >= Len(s) => SearchRows(q, s) = l
    BY <1>0, <1>1, <2>1, <2>2, <2>3, <2>4
  <2> QED BY <1>1, <1>3, <1>6, <2>1, <2>2, <2>3, <2>5
<1>7. CASE src \in {"weebcentral", "mangafire"}
  <2>1. SearchRows(q, s) = Cut(m, Or50(q.limit))
    BY <1>7 DEF SearchRows, WeebCentralRows, MangaFireRows
  <2> HIDE DEF m
  <2>3. Cut(m, Or50(q.limit)) \in Seq(Release) /\ (Or50(q.limit) >= Len(m) => Cut(m, Or50(q.limit)) = m)
    BY <1>0, <1>1, CutIs
  <2>4. Len(m) \in Nat
    BY <1>1, LenProperties
  <2>5. q.limit # 0 /\ q.limit >= Len(s) => SearchRows(q, s) = m
    BY <1>0, <1>1, <2>1, <2>3, <2>4
  <2> QED BY <1>1, <1>3, <1>7, <2>1, <2>3, <2>5
<1>8. CASE src = "comix"
  <2>1. SearchRows(q, s) = Usable(f)
    BY <1>8 DEF SearchRows, ComixRows
  <2>2. e \in Seq(Release) /\ Len(e) <= Len(s) /\ (q.chapter = 0 => Range(e) = Range(s))
    <3> DEFINE T == {c \in Range(s) : chapter_matches(q, c)}
    <3>1. q.chapter = 0 => T = Range(s)
      BY <1>3
    <3> HIDE DEF T
    <3>2. Kept(s, T) \in Seq(Release) /\ Len(Kept(s, T)) <= Len(s) /\ Range(Kept(s, T)) = Range(s) \cap T
      BY KeptFits, KeptRange
    <3>3. q.chapter = 0 => Range(Kept(s, T)) = Range(s)
      BY <3>1, <3>2
    <3> QED BY <3>2, <3>3 DEF T
  <2> HIDE DEF e
  <2>3. f \in Seq(Release) /\ (q.offset + q.limit >= Len(e) => f = e)
    BY <1>0, <2>2, CutIs
  <2>4. Len(e) \in Nat
    BY <2>2, LenProperties
  <2>5. q.chapter = 0 /\ q.limit >= Len(s) => Range(f) = Range(s)
    BY <1>0, <2>2, <2>3, <2>4
  <2> HIDE DEF f
  <2>6. Usable(f) \in Seq(Release) /\ Range(Usable(f)) = {c \in Range(f) : c.usable}
    BY <2>3, FiltersAre
  <2> QED BY <1>8, <2>1, <2>5, <2>6
<1> QED BY <1>4, <1>5, <1>6, <1>7, <1>8 DEF SourcesAssumption

\* The page that a route cuts from a whole feed is the window that is due.
LEMMA PageIsDue ==
  ASSUME src \in {"mangadex", "mangadot", "mangaball"}, site \in Seq(Release),
         NEW q \in Question, q.kind = "search", q.offset = 0 \/ src = "mangadex"
  PROVE  Window(q, SearchRows(q, Listed(EnumKey(q), site))) = TheWindow(q)
<1>0. q.limit \in Nat /\ q.offset \in Nat /\ q.langs \in Seq(Langs) /\ Or50(q.limit) \in Nat /\ q.limit <= Or50(q.limit)
  BY DEF Question, Or50
<1>1. CASE src = "mangadex"
  <2> DEFINE a == Asked(q)
             k == EnumKey(q)
  <2>1. Listed(k, site) = OfLangs(k, site) /\ SearchRows(q, Listed(k, site)) = Matching(q, OfLangs(k, site))
    BY <1>1 DEF Listed, SearchRows, MangaDexRows
  <2>2. a.langs = IF q.langs = <<>> THEN <<"en">> ELSE q.langs
    BY <1>1 DEF Asked, Question
  <2>3. a.chapter = q.chapter
    BY DEF Asked, Question
  <2>4. Matching(q, OfLangs(k, site)) = Matching(a, OfLangs(k, site))
    BY <2>3 DEF Matching, chapter_matches
  <2>5. \A l : l \in k <=> Wants(a.langs, l)
    <3>1. k = IF q.langs = <<>> THEN {"en"} ELSE Range(q.langs)
      BY <1>1 DEF EnumKey
    <3>2. Range(<<"en">>) = {"en"} /\ <<"en">> # <<>>
      <4> DEFINE one == <<"en">>
      <4>1. one \in Seq({"en"}) /\ Len(one) = 1 /\ one[1] = "en"
        OBVIOUS
      <4> HIDE DEF one
      <4>2. Range(one) = {one[i] : i \in 1..1} /\ one # <<>>
        BY <4>1, RangeEquality, EmptySeq
      <4>3. Range(one) = {"en"} /\ one # <<>>
        BY <4>1, <4>2
      <4> QED BY <4>3 DEF one
    <3> QED BY <2>2, <3>1, <3>2 DEF Wants
  <2> HIDE DEF a, k
  <2>6. Matching(a, OfLangs(k, site)) = WantedOf(a, site)
    BY <2>5, FilteredEitherWay
  <2> QED BY <2>1, <2>4, <2>6 DEF TheWindow, a, k
<1>2. CASE src \in {"mangadot", "mangaball"}
  <2> DEFINE w == WantedOf(q, site)
             n == NewestFirst(w)
             c == Cut(n, Or50(q.limit))
  <2>1. Listed(EnumKey(q), site) = site /\ SearchRows(q, site) = c
    BY <1>2 DEF Listed, SearchRows, MangaDotRows, MangaBallRows
  <2>2. Asked(q) = q
    BY <1>2 DEF Asked, Question
  <2>3. w \in Seq(Release)
    BY WantedIs
  <2> HIDE DEF w
  <2>4. n \in Seq(Release) /\ NewestFirst(c) = c
    BY <1>0, <2>3, NewestIs, CutNewest
  <2>5. c \in Seq(Release)
    BY <1>0, <2>4, CutIs
  <2>6. Cut(c, q.limit) = Cut(n, q.limit)
    BY <1>0, <2>4, CutTwice
  <2>7. Past(n, 0) = n /\ Past(c, 0) = c
    BY <1>0, <2>4, <2>5, PastIs
  <2>8. q.offset = 0 /\ Window(q, c) = Cut(Past(NewestFirst(c), q.offset), q.limit)
        /\ Window(q, w) = Cut(Past(n, q.offset), q.limit)
    BY <1>2 DEF Window
  <2>9. Window(q, c) = Window(q, w)
    BY <2>4, <2>6, <2>7, <2>8
  <2> QED BY <2>1, <2>2, <2>9 DEF TheWindow, w
<1> QED BY <1>1, <1>2

\* What a poll brings is in the rows of the search that asks for all.
LEMMA PollIsFound ==
  ASSUME SourcesAssumption, SearchAssumption, src \in Sources, site \in Seq(Release), site # <<>>,
         NEW q \in Question, q.langs # <<>>, NEW c \in Range(RecentRows(q)), src # "comix" \/ c.usable,
         NEW b, b = [q EXCEPT !.kind = "search", !.chapter = 0, !.offset = 0, !.limit = Len(site)]
  PROVE  c \in Range(SearchRows(b, Listed(EnumKey(b), site)))
<1> DEFINE f == Listed(EnumKey(b), site)
<1>1. FeedPage \in Nat
  BY DEF SearchAssumption
<1>2. /\ c \in Range(site) /\ c.usable
      /\ src \in {"mangadex", "mangadot", "mangaball"} => Wants(q.langs, c.lang)
      /\ src = "mangafire" => c.lang = FilterLanguage(q.langs)
  BY <1>1, RecentIs
<1>3. Len(site) \in Nat /\ Len(site) # 0
  BY EmptySeq
<1>4. b \in Question /\ b.chapter = 0 /\ b.limit = Len(site) /\ b.langs = q.langs
  BY <1>3 DEF Question
<1>5. c \in Range(f)
  <2>1. /\ src \in {"mangadex", "mangafire"} => Range(f) = {x \in Range(site) : x.lang \in EnumKey(b)}
        /\ src \notin {"mangadex", "mangafire"} => Range(f) = Range(site)
    BY ListedIs
  <2>2. src = "mangadex" => EnumKey(b) = Range(q.langs)
    BY <1>4 DEF EnumKey
  <2>3. src = "mangafire" => EnumKey(b) = {FilterLanguage(q.langs)}
    BY <1>4 DEF EnumKey
  <2>4. src = "mangadex" => c.lang \in Range(q.langs)
    BY <1>2 DEF Wants
  <2> QED BY <1>2, <2>1, <2>2, <2>3, <2>4
<1>6. f \in Seq(Release) /\ Len(f) <= Len(site) /\ Len(f) \in Nat
  BY ListedIs, LenProperties
<1> HIDE DEF f
<1>7. c.usable /\ b.chapter = 0 /\ b.limit # 0 /\ b.limit >= Len(f)
      /\ (src \in {"mangadot", "mangaball"} => Wants(b.langs, c.lang))
  BY <1>2, <1>3, <1>4, <1>6
<1>8. c \in Range(SearchRows(b, f))
  BY <1>4, <1>5, <1>6, <1>7, SearchRowsAre
<1> QED BY <1>8 DEF f

-----------------------------------------------------------------------------
(* A chapter is published.                                                  *)

\* The elements of f are in g, in their order and no earlier.
Within(f, g) ==
  \E h \in [1..Len(f) -> 1..Len(g)] :
    /\ \A i \in 1..Len(f) : h[i] >= i /\ g[h[i]] = f[i]
    /\ \A i, j \in 1..Len(f) : i < j => h[i] < h[j]

\* What is put into the middle of a list leaves the rest in order.
LEMMA WithinLonger ==
  ASSUME NEW S, NEW u \in Seq(S), NEW m \in Seq(S), NEW v \in Seq(S)
  PROVE  Within(u \o v, (u \o m) \o v)
<1> DEFINE f == u \o v
           x == u \o m
           g == x \o v
           h == [i \in 1..Len(f) |-> IF i <= Len(u) THEN i ELSE i + Len(m)]
<1>0. Len(u) \in Nat /\ Len(m) \in Nat /\ Len(v) \in Nat
  BY LenProperties
<1>1. f \in Seq(S) /\ Len(f) = Len(u) + Len(v)
      /\ \A i \in 1..(Len(u) + Len(v)) : f[i] = IF i <= Len(u) THEN u[i] ELSE v[i - Len(u)]
  BY ConcatProperties
<1>2. x \in Seq(S) /\ Len(x) = Len(u) + Len(m)
      /\ \A i \in 1..(Len(u) + Len(m)) : x[i] = IF i <= Len(u) THEN u[i] ELSE m[i - Len(u)]
  BY ConcatProperties
<1> HIDE DEF f, x
<1>3. g \in Seq(S) /\ Len(g) = Len(x) + Len(v)
      /\ \A i \in 1..(Len(x) + Len(v)) : g[i] = IF i <= Len(x) THEN x[i] ELSE v[i - Len(x)]
  <2>1. x \in Seq(S)
    BY <1>2
  <2> QED BY <2>1, ConcatProperties
<1> HIDE DEF g
<1>4. ASSUME NEW i \in 1..Len(f) PROVE h[i] \in 1..Len(g) /\ h[i] >= i /\ g[h[i]] = f[i]
  <2>1. i \in 1..(Len(u) + Len(v)) /\ Len(g) = Len(u) + Len(m) + Len(v)
    BY <1>1, <1>2, <1>3
  <2>2. CASE i <= Len(u)
    <3>1. h[i] = i /\ i \in 1..(Len(u) + Len(m)) /\ i \in 1..(Len(x) + Len(v)) /\ i <= Len(x)
      BY <1>0, <1>2, <2>1, <2>2
    <3>2. g[i] = u[i] /\ f[i] = u[i]
      BY <1>1, <1>2, <1>3, <2>1, <2>2, <3>1
    <3> QED BY <1>3, <3>1, <3>2
  <2>3. CASE ~(i <= Len(u))
    <3>1. h[i] = i + Len(m) /\ i + Len(m) \in 1..(Len(x) + Len(v)) /\ ~(i + Len(m) <= Len(x))
          /\ i + Len(m) - Len(x) = i - Len(u) /\ i + Len(m) >= i
      BY <1>0, <1>2, <2>1, <2>3
    <3>2. g[i + Len(m)] = v[i - Len(u)]
      BY <1>3, <3>1
    <3>3. f[i] = v[i - Len(u)]
      BY <1>1, <2>1, <2>3
    <3> QED BY <1>3, <3>1, <3>2, <3>3
  <2> QED BY <2>2, <2>3
<1>5. ASSUME NEW i \in 1..Len(f), NEW j \in 1..Len(f), i < j PROVE h[i] < h[j]
  <2>1. i \in Nat /\ j \in Nat
    BY <1>0, <1>1
  <2> QED BY <1>0, <1>5, <2>1
<1>6. h \in [1..Len(f) -> 1..Len(g)]
  <2>1. h = [i \in 1..Len(f) |-> h[i]]
    OBVIOUS
  <2> HIDE DEF h
  <2> QED BY <1>4, <2>1
<1>7. Within(f, g)
  <2> HIDE DEF h
  <2> QED BY <1>4, <1>5, <1>6 DEF Within
<1> QED BY <1>7 DEF f, g, x

\* So it does, however the three parts are put together.
LEMMA WithinMore ==
  ASSUME NEW S, NEW u \in Seq(S), NEW m \in Seq(S), NEW v \in Seq(S)
  PROVE  Within(u \o v, u \o (m \o v))
<1>1. (u \o m) \o v = u \o (m \o v)
  BY ConcatAssociative
<1>2. Within(u \o v, (u \o m) \o v)
  BY WithinLonger
<1> QED BY <1>1, <1>2

\* A filter of a longer list is longer, in order.
LEMMA KeptGrows ==
  ASSUME NEW a \in Seq(Release), NEW m \in Seq(Release), NEW b \in Seq(Release), NEW T
  PROVE  Within(Kept(a \o b, T), Kept((a \o m) \o b, T))
<1> DEFINE y == a \o m
           ka == Kept(a, T)
           kb == Kept(b, T)
           km == Kept(m, T)
<1>1. ka \in Seq(Release) /\ kb \in Seq(Release) /\ km \in Seq(Release)
  BY KeptFits
<1>2. Kept(a \o b, T) = ka \o kb
  BY KeptConcat
<1>3. Kept(y, T) = ka \o km
  BY KeptConcat
<1>4. y \in Seq(Release)
  BY ConcatProperties
<1> HIDE DEF y
<1>5. Kept(y \o b, T) = Kept(y, T) \o kb
  BY <1>4, KeptConcat
<1> HIDE DEF ka, kb, km
<1>6. Within(ka \o kb, (ka \o km) \o kb)
  BY <1>1, WithinLonger
<1>7. Within(Kept(a \o b, T), Kept(y \o b, T))
  BY <1>2, <1>3, <1>5, <1>6
<1> QED BY <1>7 DEF y

\* So is the reversed list.
LEMMA ReverseGrows ==
  ASSUME NEW a \in Seq(Release), NEW m \in Seq(Release), NEW b \in Seq(Release)
  PROVE  Within(Reverse(a \o b), Reverse((a \o m) \o b))
<1> DEFINE y == a \o m
           ra == Reverse(a)
           rb == Reverse(b)
           rm == Reverse(m)
<1>1. ra \in Seq(Release) /\ rb \in Seq(Release) /\ rm \in Seq(Release)
  BY ReverseIs
<1>2. Reverse(a \o b) = rb \o ra
  BY ReverseConcat
<1>3. Reverse(y) = rm \o ra
  BY ReverseConcat
<1>4. y \in Seq(Release)
  BY ConcatProperties
<1> HIDE DEF y
<1>5. Reverse(y \o b) = rb \o Reverse(y)
  BY <1>4, ReverseConcat
<1> HIDE DEF ra, rb, rm
<1>6. Within(rb \o ra, rb \o (rm \o ra))
  BY <1>1, WithinMore
<1>7. Within(Reverse(a \o b), Reverse(y \o b))
  BY <1>2, <1>3, <1>5, <1>6
<1> QED BY <1>7 DEF y

\* A chapter published anywhere on the site is one more in the list.
LEMMA ListedGrows ==
  ASSUME SourcesAssumption, src \in Sources, src # "mangafire", NEW k,
         NEW a \in Seq(Release), NEW m \in Seq(Release), NEW b \in Seq(Release)
  PROVE  Within(Listed(k, a \o b), Listed(k, (a \o m) \o b))
<1> DEFINE f == a \o b
           g == (a \o m) \o b
<1>1. f \in Seq(Release) /\ g \in Seq(Release)
  <2> DEFINE x == a \o m
  <2>1. x \in Seq(Release)
    BY ConcatProperties
  <2> HIDE DEF x
  <2>2. f \in Seq(Release) /\ x \o b \in Seq(Release)
    BY <2>1, ConcatProperties
  <2> QED BY <2>2 DEF x
<1>2. CASE src = "mangadex"
  <2> DEFINE L(s) == {c \in Range(s) : c.lang \in k}
  <2>1. PICK A : A = {c \in Release : c.lang \in k}
    OBVIOUS
  <2>2. ASSUME NEW s \in Seq(Release) PROVE Listed(k, s) = Kept(s, A)
    <3>1. Listed(k, s) = Kept(s, L(s))
      BY <1>2 DEF Listed, OfLangs
    <3>2. Range(s) \subseteq Release
      <4>1. Range(s) = {s[i] : i \in 1..Len(s)}
        BY RangeEquality
      <4> QED BY <4>1, ElementOfSeq
    <3>3. Range(s) \cap L(s) = Range(s) \cap A
      BY <2>1, <3>2
    <3>4. \A B, C : Range(s) \cap B = Range(s) \cap C => Kept(s, B) = Kept(s, C)
      BY KeptAgree
    <3> HIDE DEF L
    <3> QED BY <3>1, <3>3, <3>4
  <2>3. Within(Kept(f, A), Kept(g, A))
    BY ONLY a \in Seq(Release), b \in Seq(Release), m \in Seq(Release), KeptGrows
  <2> HIDE DEF f, g
  <2>4. Listed(k, f) = Kept(f, A) /\ Listed(k, g) = Kept(g, A)
    BY <1>1, <2>2
  <2>5. Within(Listed(k, f), Listed(k, g))
    BY <2>3, <2>4
  <2> QED BY <2>5 DEF f, g
<1>3. CASE src \in {"kagane", "weebcentral", "comix"}
  <2>1. Listed(k, f) = Reverse(f) /\ Listed(k, g) = Reverse(g)
    BY <1>3 DEF Listed
  <2>2. Within(Reverse(f), Reverse(g))
    BY ReverseGrows
  <2> QED BY <2>1, <2>2
<1>4. CASE src \in {"mangadot", "mangaball", "atsumaru", "projectsuki"}
  <2>1. Listed(k, f) = f /\ Listed(k, g) = g
    BY <1>4 DEF Listed
  <2>2. Within(f, g)
    BY WithinLonger
  <2> QED BY <2>1, <2>2
<1> QED BY <1>2, <1>3, <1>4 DEF SourcesAssumption

\* The site of a source: not empty, no two chapters of a date, none of tomorrow.
SiteOK ==
  /\ site \in Seq(Release) /\ site # <<>>
  /\ \A i \in 1..Len(site) : site[i].date < Today + grown
  /\ \A i, j \in 1..Len(site) : site[i].date = site[j].date => i = j

\* A published chapter goes in between, with a date of its own.
LEMMA PublishIs ==
  ASSUME SearchAssumption, SiteOK, grown \in Nat, NEW n \in 1..(Len(site) + 1), Publish(n)
  PROVE  /\ SiteOK'
         /\ \E a, b, m \in Seq(Release) : site = a \o b /\ site' = (a \o m) \o b
<1> DEFINE N == Len(site)
           a == SubSeq(site, 1, n - 1)
           b == SubSeq(site, n, N)
           num == IF n > N THEN Last(site).num + 1 ELSE site[n].num
           e == [num |-> num, lang |-> SeriesLang, date |-> Today + grown, usable |-> TRUE]
           m == <<e>>
           x == a \o m
           y == x \o b
<1>0. N \in Nat /\ N >= 1 /\ n \in Nat /\ n >= 1 /\ n <= N + 1
  BY EmptySeq DEF SiteOK
<1>1. \A i \in 1..N : site[i] \in Release /\ site[i].num \in Nat /\ site[i].lang \in Langs /\ site[i].date \in Nat
  <2>1. \A c \in Release : c.num \in Nat /\ c.lang \in Langs /\ c.date \in Nat
    BY DEF Release
  <2>2. \A i \in 1..N : site[i] \in Release
    BY ElementOfSeq DEF SiteOK
  <2> QED BY <2>1, <2>2
<1>2. e \in Release /\ e.date = Today + grown /\ Today + grown \in Nat
  <2>1. num \in Nat
    <3>1. CASE n > N
      <4>1. N \in 1..N /\ Last(site) = site[N]
        BY <1>0 DEF Last
      <4> QED BY <1>1, <3>1, <4>1
    <3>2. CASE ~(n > N)
      <4>1. n \in 1..N
        BY <1>0, <3>2
      <4> QED BY <1>1, <3>2, <4>1
    <3> QED BY <3>1, <3>2
  <2>2. SeriesLang \in Langs
    <3>1. 1 \in 1..N
      BY <1>0
    <3> QED BY <1>1, <3>1 DEF SeriesLang
  <2>3. Today + grown \in Nat
    BY DEF SearchAssumption
  <2> HIDE DEF num
  <2> QED BY <2>1, <2>2, <2>3 DEF Release
<1>3. site' = y
  BY DEF Publish, InsertAt
<1>4. a \in Seq(Release) /\ Len(a) = n - 1 /\ \A i \in 1..(n - 1) : a[i] = site[i]
  <2>1. 1 \in Int /\ n - 1 \in Int /\ \A i \in 1..(n - 1) : site[i] \in Release
    BY <1>0, <1>1
  <2>2. /\ SubSeq(site, 1, n - 1) \in Seq(Release)
        /\ Len(SubSeq(site, 1, n - 1)) = IF 1 <= n - 1 THEN (n - 1) - 1 + 1 ELSE 0
        /\ \A i \in 1..((n - 1) - 1 + 1) : SubSeq(site, 1, n - 1)[i] = site[1 + i - 1]
    BY <2>1, SubSeqProperties
  <2> HIDE DEF a
  <2>3. \A i \in 1..(n - 1) : i \in 1..((n - 1) - 1 + 1) /\ 1 + i - 1 = i
    BY <1>0
  <2> QED BY <1>0, <2>2, <2>3 DEF a
<1>5. b \in Seq(Release) /\ Len(b) = N - n + 1 /\ \A i \in 1..(N - n + 1) : b[i] = site[n + i - 1]
  <2>1. n \in Int /\ N \in Int /\ \A i \in n..N : site[i] \in Release
    BY <1>0, <1>1
  <2> HIDE DEF N
  <2>2. /\ SubSeq(site, n, N) \in Seq(Release) /\ Len(SubSeq(site, n, N)) = IF n <= N THEN N - n + 1 ELSE 0
        /\ \A i \in 1..(N - n + 1) : SubSeq(site, n, N)[i] = site[n + i - 1]
    BY <2>1, SubSeqProperties
  <2> QED BY <1>0, <2>2
<1>6. m \in Seq(Release) /\ Len(m) = 1 /\ m[1] = e
  <2> HIDE DEF e
  <2> QED BY <1>2
<1>7. site = a \o b
  <2>1. 1 \in 1..(N + 1) /\ n - 1 \in (1 - 1)..N /\ N \in (n - 1)..N /\ (n - 1) + 1 = n
    BY <1>0
  <2>2. SubSeq(site, 1, n - 1) \o SubSeq(site, (n - 1) + 1, N) = SubSeq(site, 1, N)
    BY <2>1, ConcatAdjacentSubSeq DEF SiteOK
  <2> QED BY <2>1, <2>2, SubSeqFull DEF SiteOK
<1> HIDE DEF a, b, m, e
<1>8. x \in Seq(Release) /\ Len(x) = n
      /\ \A i \in 1..n : x[i] = IF i <= n - 1 THEN a[i] ELSE m[i - (n - 1)]
  <2>1. a \in Seq(Release) /\ m \in Seq(Release)
    BY <1>4, <1>6
  <2>2. x \in Seq(Release) /\ Len(x) = Len(a) + Len(m)
        /\ \A i \in 1..(Len(a) + Len(m)) : x[i] = IF i <= Len(a) THEN a[i] ELSE m[i - Len(a)]
    BY <2>1, ConcatProperties
  <2> HIDE DEF x
  <2> QED BY <1>0, <1>4, <1>6, <2>2
<1> HIDE DEF x
<1>9. y \in Seq(Release) /\ Len(y) = N + 1
      /\ \A i \in 1..(N + 1) : y[i] = IF i <= n THEN x[i] ELSE b[i - n]
  <2>1. x \in Seq(Release) /\ b \in Seq(Release)
    BY <1>5, <1>8
  <2>2. y \in Seq(Release) /\ Len(y) = Len(x) + Len(b)
        /\ \A i \in 1..(Len(x) + Len(b)) : y[i] = IF i <= Len(x) THEN x[i] ELSE b[i - Len(x)]
    BY <2>1, ConcatProperties
  <2>3. Len(x) + Len(b) = N + 1
    BY <1>0, <1>5, <1>8
  <2> HIDE DEF y, N
  <2> QED BY <1>8, <2>2, <2>3
<1> HIDE DEF y
\* Where what is at i comes from.
<1>10. ASSUME NEW i \in 1..(N + 1)
       PROVE  /\ i < n => i \in 1..N /\ y[i] = site[i]
              /\ i = n => y[i] = e
              /\ i > n => i - 1 \in 1..N /\ y[i] = site[i - 1]
  <2>1. CASE i < n
    <3>1. i \in 1..N /\ i \in 1..n /\ i \in 1..(n - 1) /\ i <= n - 1 /\ i <= n
      BY <1>0, <2>1
    <3> QED BY <1>4, <1>8, <1>9, <2>1, <3>1
  <2>2. CASE i = n
    <3>1. i \in 1..n /\ ~(i <= n - 1) /\ i <= n /\ i - (n - 1) = 1
      BY <1>0, <2>2
    <3> QED BY <1>6, <1>8, <1>9, <2>2, <3>1
  <2>3. CASE i > n
    <3>1. i - 1 \in 1..N /\ ~(i <= n) /\ i - n \in 1..(N - n + 1) /\ n + (i - n) - 1 = i - 1
      BY <1>0, <2>3
    <3> QED BY <1>5, <1>9, <2>3, <3>1
  <2> QED BY <1>0, <2>1, <2>2, <2>3
<1>11. SiteOK'
  <2>1. grown' = grown + 1
    BY DEF Publish
  <2>2. y # <<>>
    BY <1>0, <1>9, EmptySeq
  <2>3. ASSUME NEW i \in 1..(N + 1) PROVE y[i].date < Today + (grown + 1)
    <3>1. \A j \in 1..N : site[j].date < Today + grown /\ site[j].date \in Nat
      BY <1>1 DEF SiteOK
    <3>2. Today \in Nat
      BY DEF SearchAssumption
    <3>3. (y[i].date < Today + grown \/ y[i].date = Today + grown) /\ y[i].date \in Nat
      BY <1>0, <1>2, <1>10, <3>1
    <3> QED BY <3>2, <3>3
  <2>4. ASSUME NEW i \in 1..(N + 1), NEW j \in 1..(N + 1), y[i].date = y[j].date PROVE i = j
    <3>1. \A k \in 1..N : site[k].date < Today + grown /\ site[k].date \in Nat /\ site[k].date # Today + grown
      BY <1>1, <1>2 DEF SiteOK
    <3>2. \A k, l \in 1..N : site[k].date = site[l].date => k = l
      BY DEF SiteOK
    <3>3. i = n <=> j = n
      <4>1. ASSUME NEW k \in 1..(N + 1), k # n PROVE y[k].date # Today + grown
        <5>1. (y[k] = site[k] /\ k \in 1..N) \/ (y[k] = site[k - 1] /\ k - 1 \in 1..N)
          BY <1>0, <1>10, <4>1
        <5> QED BY <3>1, <5>1
      <4>2. ASSUME NEW k \in 1..(N + 1), k = n PROVE y[k].date = Today + grown
        BY <1>2, <1>10, <4>2
      <4> QED BY <2>4, <4>1, <4>2
    <3> DEFINE spot(k) == IF k < n THEN k ELSE k - 1
    <3>4. CASE i # n
      <4>1. spot(i) \in 1..N /\ spot(j) \in 1..N /\ y[i] = site[spot(i)] /\ y[j] = site[spot(j)]
        BY <1>0, <1>10, <3>3, <3>4
      <4>2. spot(i) = spot(j)
        BY <2>4, <3>2, <4>1
      <4> QED BY <1>0, <3>3, <3>4, <4>2
    <3> QED BY <3>3, <3>4
  <2>5. \A i, j \in 1..(N + 1) : y[i].date = y[j].date => i = j
    BY <2>4
  <2> HIDE DEF N
  <2> QED BY <1>3, <1>9, <2>1, <2>2, <2>3, <2>5 DEF SiteOK
<1> QED BY <1>3, <1>4, <1>5, <1>6, <1>7, <1>11 DEF x, y

-----------------------------------------------------------------------------
(* The types, and what a request has at each place.                         *)

Places == {"new", "seek", "walk", "rest", "poll", "found", "done", "failed"}
Enumeration == [rows : Seq(Release), since : Seq(Release)]

SearchTypeOK ==
  /\ src \in Sources /\ grown \in Nat
  /\ enumerated \in [SUBSET Langs -> {None} \cup Enumeration]
  /\ place \in [Searchers -> Places]
  /\ query \in [Searchers -> Queries \cup {None}]
  /\ rows \in [Searchers -> Seq(Release)]
  /\ since \in [Searchers -> Seq(Release)]
  /\ last \in [Searchers -> Nat]
  /\ answer \in [Searchers -> Seq(Release)]

\* A request asks from when it has a query to its end, walks for a search,
\* in the way of its source, and has no rows before it does; the last row of
\* a walk with a cursor is one of the site.
AskingOK(r) ==
  /\ place[r] \notin {"new", "failed"} => query[r] \in Queries
  /\ place[r] \in {"seek", "walk", "rest"} => query[r].kind = "search"
  /\ place[r] = "poll" => query[r].kind = "recent"
  /\ place[r] = "rest" => src = "mangafire"
  /\ place[r] \in {"new", "seek", "poll"} \/ (place[r] = "walk" /\ ~Paged) => rows[r] = <<>>
  /\ place[r] = "walk" /\ src = "kagane" /\ rows[r] # <<>> => Last(rows[r]) \in Range(site)

Asking == \A r \in Searchers : AskingOK(r)
SearchBasis == SearchTypeOK /\ SiteOK /\ Asking

\* What is asked is a question, and its key is of languages.
LEMMA QueriesAsk == ASSUME SearchAssumption, NEW q \in Queries PROVE q \in Question
<1> QED BY DEF SearchAssumption, Question

LEMMA KeyInLangs ==
  ASSUME SearchAssumption, NEW q \in Question PROVE EnumKey(q) \in SUBSET Langs
<1>1. q.langs \in Seq(Langs) /\ "en" \in Langs
  BY DEF Question, SearchAssumption
<1>2. Range(q.langs) \subseteq Langs
  <2>1. Range(q.langs) = {q.langs[i] : i \in 1..Len(q.langs)}
    BY <1>1, RangeEquality
  <2> QED BY <1>1, <2>1, ElementOfSeq
<1>3. FilterLanguage(q.langs) \in Langs
  <2>1. CASE q.langs = <<>>
    BY <1>1, <2>1 DEF FilterLanguage
  <2>2. CASE q.langs # <<>>
    <3>1. Len(q.langs) \in Nat \ {0}
      BY <1>1, <2>2, EmptySeq
    <3>2. 1 \in 1..Len(q.langs)
      BY <3>1
    <3> QED BY <1>1, <2>2, <3>2, ElementOfSeq DEF FilterLanguage
  <2> QED BY <2>1, <2>2
<1>4. CASE src = "mangadex"
  BY <1>1, <1>2, <1>4 DEF EnumKey
<1>5. CASE src = "mangafire"
  BY <1>3, <1>5 DEF EnumKey
<1>6. CASE src \notin {"mangadex", "mangafire"}
  BY <1>6 DEF EnumKey
<1> QED BY <1>4, <1>5, <1>6

\* What Fill does, for rows that are a list of releases.
LEMMA FillIs ==
  ASSUME SearchAssumption, SearchTypeOK, NEW r \in Searchers, query[r] \in Queries, NEW s \in Seq(Release), Fill(r, s)
  PROVE  /\ KeyOf(r) \in SUBSET Langs
         /\ rows' \in [Searchers -> Seq(Release)] /\ since' \in [Searchers -> Seq(Release)] /\ last' \in [Searchers -> Nat]
         /\ enumerated' \in [SUBSET Langs -> {None} \cup Enumeration] /\ place' \in [Searchers -> Places]
         /\ rows'[r] = s /\ place'[r] = "found"
         /\ enumerated'[KeyOf(r)] = [rows |-> s, since |-> since[r]]
         /\ \A o \in Searchers \ {r} : rows'[o] = rows[o] /\ since'[o] = since[o] /\ place'[o] = place[o]
         /\ \A k \in (SUBSET Langs) \ {KeyOf(r)} : enumerated'[k] = enumerated[k]
<1>1. KeyOf(r) \in SUBSET Langs
  BY QueriesAsk, KeyInLangs DEF KeyOf
<1>2. rows' = [rows EXCEPT ![r] = s] /\ rows \in [Searchers -> Seq(Release)]
  BY DEF Fill, SearchTypeOK
<1>3. since' = [since EXCEPT ![r] = <<>>] /\ since \in [Searchers -> Seq(Release)] /\ <<>> \in Seq(Release)
  BY EmptySeq DEF Fill, SearchTypeOK
<1>4. last' = [last EXCEPT ![r] = 0] /\ last \in [Searchers -> Nat]
  BY DEF Fill, SearchTypeOK
<1>5. enumerated' = [enumerated EXCEPT ![KeyOf(r)] = [rows |-> s, since |-> since[r]]]
      /\ enumerated \in [SUBSET Langs -> {None} \cup Enumeration]
  BY DEF Fill, SearchTypeOK
<1>6. place' = [place EXCEPT ![r] = "found"] /\ place \in [Searchers -> Places] /\ "found" \in Places
  BY DEF Fill, SearchTypeOK, Reach, Places
<1>7. [rows |-> s, since |-> since[r]] \in Enumeration
  BY <1>3 DEF Enumeration
<1>8. rows' \in [Searchers -> Seq(Release)] /\ rows'[r] = s /\ \A o \in Searchers \ {r} : rows'[o] = rows[o]
  BY <1>2
<1>9. since' \in [Searchers -> Seq(Release)] /\ \A o \in Searchers \ {r} : since'[o] = since[o]
  BY <1>3
<1>10. last' \in [Searchers -> Nat]
  BY <1>4
<1>11. place' \in [Searchers -> Places] /\ place'[r] = "found" /\ \A o \in Searchers \ {r} : place'[o] = place[o]
  BY <1>6
<1> DEFINE key == KeyOf(r)
           new == [rows |-> s, since |-> since[r]]
<1> HIDE DEF key, new
<1>12. enumerated' \in [SUBSET Langs -> {None} \cup Enumeration] /\ enumerated'[key] = new
       /\ \A k \in (SUBSET Langs) \ {key} : enumerated'[k] = enumerated[k]
  <2>1. key \in SUBSET Langs /\ new \in Enumeration /\ enumerated' = [enumerated EXCEPT ![key] = new]
    BY <1>1, <1>5, <1>7 DEF key, new
  <2>2. enumerated \in [SUBSET Langs -> {None} \cup Enumeration]
    BY <1>5
  <2> QED BY ONLY <2>1, <2>2
<1> QED BY <1>1, <1>8, <1>9, <1>10, <1>11, <1>12 DEF key, new

\* A page of a feed is a list of releases of the site.
LEMMA PageFits ==
  ASSUME SearchAssumption, NEW r, Beyond(r) \in Nat, Listed(KeyOf(r), site) \in Seq(Release)
  PROVE  PageBeyond(r) \in Seq(Release)
<1> DEFINE f == Listed(KeyOf(r), site)
           p == Past(f, Beyond(r))
<1>1. p \in Seq(Release)
  BY PastIs
<1> HIDE DEF p
<1>2. FeedPage \in Nat
  BY DEF SearchAssumption
<1>3. Cut(p, FeedPage) \in Seq(Release)
  BY <1>1, <1>2, CutIs
<1> QED BY <1>3 DEF PageBeyond, p

\* The page after the rows of a walk is a part of the feed.
LEMMA BeyondIs ==
  ASSUME SourcesAssumption, SearchAssumption, SearchBasis, NEW r \in Searchers, place[r] = "walk", src # "mangafire"
  PROVE  /\ Listed(KeyOf(r), site) \in Seq(Release) /\ Len(rows[r]) \in Nat
         /\ Beyond(r) \in Nat
         /\ src # "kagane" \/ rows[r] = <<>> => Beyond(r) = Len(rows[r])
         /\ src = "kagane" /\ rows[r] # <<>> =>
              Beyond(r) \in 1..Len(Listed(KeyOf(r), site)) /\ Listed(KeyOf(r), site)[Beyond(r)] = Last(rows[r])
         /\ PageBeyond(r) \in Seq(Release)
<1> DEFINE f == Listed(KeyOf(r), site)
<1>1. f \in Seq(Release) /\ (src = "kagane" => Range(f) = Range(site))
  BY ListedIs DEF SearchBasis, SearchTypeOK, SiteOK
<1>2. rows[r] \in Seq(Release) /\ Len(rows[r]) \in Nat /\ (rows[r] # <<>> => Len(rows[r]) > 0)
  <2>1. rows[r] \in Seq(Release)
    BY DEF SearchBasis, SearchTypeOK
  <2> QED BY <2>1, EmptySeq, LenProperties
<1>3. CASE src # "kagane" \/ rows[r] = <<>>
  <2>1. Beyond(r) = Len(rows[r])
    BY <1>2, <1>3, EmptySeq DEF Beyond
  <2> QED BY <1>1, <1>2, <1>3, <2>1, PageFits
<1>4. CASE src = "kagane" /\ rows[r] # <<>>
  <2>1. Beyond(r) = CHOOSE i \in DOMAIN f : f[i] = Last(rows[r])
    BY <1>2, <1>4 DEF Beyond
  <2>2. Last(rows[r]) \in Range(f)
    BY <1>1, <1>4 DEF SearchBasis, Asking, AskingOK
  <2> HIDE DEF f
  <2>3. DOMAIN f = 1..Len(f) /\ Range(f) = {f[i] : i \in 1..Len(f)}
    BY <1>1, LenProperties, RangeEquality
  <2>4. \E i \in DOMAIN f : f[i] = Last(rows[r])
    BY <2>2, <2>3
  <2>5. Beyond(r) \in DOMAIN f /\ f[Beyond(r)] = Last(rows[r])
    BY <2>1, <2>4
  <2>6. Beyond(r) \in 1..Len(f) /\ Len(f) \in Nat
    BY <1>1, <2>3, <2>5, LenProperties
  <2>7. Beyond(r) \in Nat
    BY <2>6
  <2> QED BY <1>1, <1>2, <1>4, <2>5, <2>6, <2>7, PageFits DEF f
<1> QED BY <1>3, <1>4

\* A page goes on where the rows end; after the last page nothing is left,
\* and a page that names a next one brings a row.
LEMMA PageIs ==
  ASSUME SourcesAssumption, SearchAssumption, SearchBasis, NEW r \in Searchers, place[r] = "walk", src # "mangafire",
         NEW f, f = Listed(KeyOf(r), site), NEW B, B = Beyond(r), NEW p, p = PageBeyond(r)
  PROVE  /\ f \in Seq(Release) /\ B \in Nat /\ p \in Seq(Release) /\ rows[r] \o p \in Seq(Release)
         /\ Len(rows[r] \o p) = Len(rows[r]) + Len(p)
         /\ p = Cut(Past(f, B), FeedPage)
         /\ Len(p) <= Len(f) - B \/ Len(p) = 0
         /\ \A i \in 1..Len(p) : p[i] = f[B + i]
         /\ Ends(r, p) => p = Past(f, B)
         /\ src = "kagane" /\ ~Ends(r, p) => Len(p) >= 1 /\ B + Len(p) < Len(f)
         /\ src = "kagane" /\ Len(p) >= 1 => rows[r] \o p # <<>> /\ Last(rows[r] \o p) = f[B + Len(p)]
<1> DEFINE d == Past(f, B)
           x == rows[r]
<1>1. f \in Seq(Release) /\ B \in Nat /\ p \in Seq(Release) /\ Len(x) \in Nat /\ x \in Seq(Release)
      /\ (src # "kagane" => B = Len(x))
  <2>1. x \in Seq(Release)
    BY DEF SearchBasis, SearchTypeOK
  <2> QED BY <2>1, BeyondIs
<1> HIDE DEF x
<1>2. Len(f) \in Nat /\ Len(p) \in Nat /\ FeedPage \in Nat /\ FeedPage >= 1
  BY <1>1, LenProperties DEF SearchAssumption
<1>3. d \in Seq(Release) /\ Len(d) = (IF B < Len(f) THEN Len(f) - B ELSE 0) /\ \A i \in 1..Len(d) : d[i] = f[B + i]
  <2>1. f \in Seq(Release) /\ B \in Nat
    BY <1>1
  <2> QED BY <2>1, PastIs
<1>4. p = Cut(d, FeedPage)
  BY DEF PageBeyond
<1> HIDE DEF d
<1>5. Len(p) = (IF FeedPage < Len(d) THEN FeedPage ELSE Len(d)) /\ (\A i \in 1..Len(p) : p[i] = d[i])
      /\ (FeedPage >= Len(d) => p = d)
  <2>1. d \in Seq(Release) /\ FeedPage \in Nat
    BY <1>2, <1>3
  <2>2. /\ Len(Cut(d, FeedPage)) = IF FeedPage < Len(d) THEN FeedPage ELSE Len(d)
        /\ \A i \in 1..Len(Cut(d, FeedPage)) : Cut(d, FeedPage)[i] = d[i]
        /\ FeedPage >= Len(d) => Cut(d, FeedPage) = d
    BY ONLY <2>1, CutIs
  <2> QED BY ONLY <1>4, <2>2
<1>6. ASSUME NEW i \in 1..Len(p) PROVE p[i] = f[B + i]
  <2>1. Len(d) \in Nat
    BY <1>3, LenProperties
  <2>2. i \in 1..Len(d)
    BY ONLY <1>2, <1>5, <2>1
  <2>3. p[i] = d[i] /\ d[i] = f[B + i]
    BY ONLY <1>3, <1>5, <2>2
  <2> QED BY ONLY <2>3
<1>7. x \o p \in Seq(Release) /\ Len(x \o p) = Len(x) + Len(p)
      /\ \A i \in 1..(Len(x) + Len(p)) : (x \o p)[i] = IF i <= Len(x) THEN x[i] ELSE p[i - Len(x)]
  <2>1. x \in Seq(Release) /\ p \in Seq(Release)
    BY <1>1
  <2> QED BY ONLY <2>1, ConcatProperties
<1>8. Ends(r, p) => p = d
  <2> SUFFICES ASSUME Ends(r, p) PROVE FeedPage >= Len(d)
    BY <1>5
  <2>1. CASE src = "kagane"
    <3>1. B + Len(p) >= Len(f)
      BY <2>1 DEF Ends
    <3> QED BY <1>1, <1>2, <1>3, <1>5, <3>1
  <2>2. CASE src # "kagane"
    <3>1. Len(p) < FeedPage \/ Len(x) + FeedPage >= Len(f)
      BY <2>2 DEF Ends, x
    <3> QED BY <1>1, <1>2, <1>3, <1>5, <2>2, <3>1
  <2> QED BY <2>1, <2>2
<1>9. src = "kagane" /\ ~Ends(r, p) => Len(p) >= 1 /\ B + Len(p) < Len(f)
  <2> SUFFICES ASSUME src = "kagane", ~(B + Len(p) >= Len(f)) PROVE Len(p) >= 1 /\ B + Len(p) < Len(f)
    BY DEF Ends
  <2> QED BY <1>1, <1>2, <1>3, <1>5
<1>10. ASSUME Len(p) >= 1 PROVE x \o p # <<>> /\ Last(x \o p) = f[B + Len(p)]
  <2> DEFINE t == x \o p
  <2>1. t \in Seq(Release) /\ Len(t) = Len(x) + Len(p) /\ Len(t) # 0
    BY <1>1, <1>2, <1>7, <1>10
  <2>2. Len(p) \in 1..Len(p) /\ Len(x) + Len(p) \in 1..(Len(x) + Len(p)) /\ ~(Len(x) + Len(p) <= Len(x))
        /\ Len(x) + Len(p) - Len(x) = Len(p)
    BY <1>1, <1>2, <1>10
  <2>3. t[Len(x) + Len(p)] = p[Len(p)]
    BY <1>7, <2>2
  <2> HIDE DEF t
  <2>4. t # <<>>
    BY <2>1, EmptySeq
  <2>5. Last(t) = f[B + Len(p)]
    BY <1>6, <2>1, <2>2, <2>3 DEF Last
  <2> QED BY <2>4, <2>5 DEF t
<1>11. Len(p) <= Len(f) - B \/ Len(p) = 0
  BY <1>1, <1>2, <1>3, <1>5
<1> QED BY <1>1, <1>4, <1>6, <1>7, <1>8, <1>9, <1>10, <1>11 DEF x, d

LEMMA BasisStarts == ASSUME SearchAssumption, SearchInit PROVE SearchBasis
<1>1. <<>> \in Seq(Release)
  BY EmptySeq
<1>2. SearchTypeOK
  BY <1>1 DEF SearchInit, SearchTypeOK, Places
<1>3. SiteOK
  <2>1. site \in Sites /\ grown = 0
    BY DEF SearchInit, SitesOf
  <2>2. /\ site \in Seq(Release) /\ site # <<>>
        /\ \A i, j \in DOMAIN site : site[i].date < Today /\ (site[i].date = site[j].date => i = j)
    BY <2>1 DEF SearchAssumption
  <2>3. DOMAIN site = 1..Len(site) /\ Today + grown = Today
    BY <2>1, <2>2, LenProperties DEF SearchAssumption
  <2> QED BY <2>2, <2>3 DEF SiteOK
<1>4. Asking
  <2>1. \A r \in Searchers : place[r] = "new" /\ rows[r] = <<>>
    BY DEF SearchInit
  <2> QED BY <2>1 DEF Asking, AskingOK
<1> QED BY <1>2, <1>3, <1>4 DEF SearchBasis

\* A request is what it was while its own state stays.
LEMMA OthersAsk ==
  ASSUME Asking, src' = src, Range(site) \subseteq Range(site'),
         NEW O \in SUBSET Searchers,
         \A o \in O : place'[o] = place[o] /\ query'[o] = query[o] /\ rows'[o] = rows[o],
         \A r \in Searchers \ O : AskingOK(r)'
  PROVE  Asking'
<1> SUFFICES ASSUME NEW o \in O PROVE AskingOK(o)'
  BY DEF Asking
<1>1. AskingOK(o) /\ place'[o] = place[o] /\ query'[o] = query[o] /\ rows'[o] = rows[o]
  BY DEF Asking
<1>2. Paged' <=> Paged
  BY DEF Paged
<1> QED BY <1>1, <1>2 DEF AskingOK

LEMMA BasisStays ==
  ASSUME SourcesAssumption, SearchAssumption, SearchBasis, [SearchNext]_searchVars PROVE SearchBasis'
<1> USE DEF SearchBasis
<1>0. <<>> \in Seq(Release)
  BY EmptySeq
<1>1. ASSUME NEW r \in Searchers, AskFor(r) PROVE SearchBasis'
  <2>1. PICK q \in Queries : /\ query' = [query EXCEPT ![r] = q]
                             /\ Reach(r, IF Declines(q) THEN "found" ELSE IF q.kind = "recent" THEN "poll" ELSE "seek")
    BY <1>1 DEF AskFor
  <2>2. place[r] = "new" /\ UNCHANGED <<src, site, grown, enumerated, rows, since, last, answer>>
    BY <1>1 DEF AskFor
  <2>3. place' \in [Searchers -> Places] /\ query' \in [Searchers -> Queries \cup {None}]
        /\ query'[r] = q /\ place'[r] = (IF Declines(q) THEN "found" ELSE IF q.kind = "recent" THEN "poll" ELSE "seek")
        /\ \A o \in Searchers \ {r} : place'[o] = place[o] /\ query'[o] = query[o]
    BY <2>1 DEF Reach, SearchTypeOK, Places
  <2>4. SearchTypeOK' /\ SiteOK'
    BY <2>2, <2>3 DEF SearchTypeOK, SiteOK
  <2>5. AskingOK(r)'
    <3>1. q.kind \in {"search", "recent"}
      BY QueriesAsk DEF Question
    <3>2. rows'[r] = <<>> /\ query'[r] = q /\ place'[r] \in {"found", "poll", "seek"}
          /\ (place'[r] = "poll" => q.kind = "recent") /\ (place'[r] = "seek" => q.kind = "search")
      BY <2>2, <2>3, <3>1 DEF Asking, AskingOK
    <3> QED BY <3>2 DEF AskingOK
  <2>6. Asking'
    <3> DEFINE O == Searchers \ {r}
    <3>1. O \in SUBSET Searchers /\ Searchers \ O = {r}
      OBVIOUS
    <3>2. \A o \in O : place'[o] = place[o] /\ query'[o] = query[o] /\ rows'[o] = rows[o]
      BY <2>2, <2>3
    <3> HIDE DEF O
    <3> QED BY <2>2, <2>5, <3>1, <3>2, OthersAsk
  <2> QED BY <2>4, <2>6
<1>2. ASSUME NEW r \in Searchers, Hit(r) PROVE SearchBasis'
  <2>1. /\ place[r] = "seek" /\ enumerated[KeyOf(r)] # None
        /\ rows' = [rows EXCEPT ![r] = enumerated[KeyOf(r)].rows] /\ place' = [place EXCEPT ![r] = "found"]
        /\ UNCHANGED <<src, site, grown, enumerated, query, since, last, answer>>
    BY <1>2 DEF Hit, Reach
  <2>2. KeyOf(r) \in SUBSET Langs /\ query[r] \in Queries
    BY <2>1, QueriesAsk, KeyInLangs DEF KeyOf, Asking, AskingOK
  <2>3. enumerated[KeyOf(r)] \in Enumeration
    BY <2>1, <2>2 DEF SearchTypeOK
  <2>4. rows' \in [Searchers -> Seq(Release)] /\ place' \in [Searchers -> Places] /\ place'[r] = "found"
        /\ \A o \in Searchers \ {r} : place'[o] = place[o] /\ rows'[o] = rows[o]
    BY <2>1, <2>3 DEF Enumeration, SearchTypeOK, Places
  <2>5. SearchTypeOK' /\ SiteOK'
    BY <2>1, <2>4 DEF SearchTypeOK, SiteOK
  <2>6. AskingOK(r)'
    BY <2>1, <2>2, <2>4 DEF AskingOK
  <2>7. Asking'
    <3> DEFINE O == Searchers \ {r}
    <3>1. O \in SUBSET Searchers /\ Searchers \ O = {r}
      OBVIOUS
    <3>2. \A o \in O : place'[o] = place[o] /\ query'[o] = query[o] /\ rows'[o] = rows[o]
      BY <2>1, <2>4
    <3> HIDE DEF O
    <3> QED BY <2>1, <2>6, <3>1, <3>2, OthersAsk
  <2> QED BY <2>5, <2>7
<1>3. ASSUME NEW r \in Searchers, Begin(r) PROVE SearchBasis'
  <2>1. /\ place[r] = "seek" /\ since' = [since EXCEPT ![r] = site] /\ place' = [place EXCEPT ![r] = "walk"]
        /\ UNCHANGED <<src, site, grown, enumerated, query, rows, last, answer>>
    BY <1>3 DEF Begin, Reach
  <2>2. since' \in [Searchers -> Seq(Release)] /\ place' \in [Searchers -> Places] /\ place'[r] = "walk"
        /\ \A o \in Searchers \ {r} : place'[o] = place[o]
    BY <2>1 DEF SearchTypeOK, SiteOK, Places
  <2>3. SearchTypeOK' /\ SiteOK'
    BY <2>1, <2>2 DEF SearchTypeOK, SiteOK
  <2>4. AskingOK(r)'
    BY <2>1, <2>2 DEF Asking, AskingOK
  <2>5. Asking'
    <3> DEFINE O == Searchers \ {r}
    <3>1. O \in SUBSET Searchers /\ Searchers \ O = {r}
      OBVIOUS
    <3>2. \A o \in O : place'[o] = place[o] /\ query'[o] = query[o] /\ rows'[o] = rows[o]
      BY <2>1, <2>2
    <3> HIDE DEF O
    <3> QED BY <2>1, <2>4, <3>1, <3>2, OthersAsk
  <2> QED BY <2>3, <2>5
\* A walk that ends.
<1>4. ASSUME NEW r \in Searchers, place[r] \in {"walk", "rest"}, NEW s \in Seq(Release), Fill(r, s),
             UNCHANGED <<src, site, grown, query, answer>>
      PROVE  SearchBasis'
  <2>1. query[r] \in Queries
    BY <1>4 DEF Asking, AskingOK
  <2>2. /\ rows' \in [Searchers -> Seq(Release)] /\ since' \in [Searchers -> Seq(Release)] /\ last' \in [Searchers -> Nat]
        /\ enumerated' \in [SUBSET Langs -> {None} \cup Enumeration] /\ place' \in [Searchers -> Places]
        /\ place'[r] = "found"
        /\ \A o \in Searchers \ {r} : rows'[o] = rows[o] /\ place'[o] = place[o]
    BY <1>4, <2>1, FillIs
  <2>3. SearchTypeOK' /\ SiteOK'
    BY <1>4, <2>2 DEF SearchTypeOK, SiteOK
  <2>4. AskingOK(r)'
    BY <1>4, <2>1, <2>2 DEF AskingOK
  <2>5. Asking'
    <3> DEFINE O == Searchers \ {r}
    <3>1. O \in SUBSET Searchers /\ Searchers \ O = {r}
      OBVIOUS
    <3>2. \A o \in O : place'[o] = place[o] /\ query'[o] = query[o] /\ rows'[o] = rows[o]
      BY <1>4, <2>2
    <3> HIDE DEF O
    <3> QED BY <1>4, <2>4, <3>1, <3>2, OthersAsk
  <2> QED BY <2>3, <2>5
<1>5. ASSUME NEW r \in Searchers, Walk(r) PROVE SearchBasis'
  <2> DEFINE f == Listed(KeyOf(r), site)
             B == Beyond(r)
             p == PageBeyond(r)
  <2>1. /\ place[r] = "walk" /\ src # "mangafire" /\ UNCHANGED <<src, site, grown, query, answer>>
        /\ IF Ends(r, p) THEN Fill(r, rows[r] \o p)
           ELSE rows' = [rows EXCEPT ![r] = @ \o p] /\ UNCHANGED <<enumerated, place, since, last>>
    BY <1>5 DEF Walk
  <2>2. f \in Seq(Release) /\ B \in Nat /\ p \in Seq(Release) /\ rows[r] \o p \in Seq(Release)
        /\ (src = "kagane" /\ ~Ends(r, p) => Len(p) >= 1 /\ B + Len(p) < Len(f))
        /\ (src = "kagane" /\ Len(p) >= 1 => rows[r] \o p # <<>> /\ Last(rows[r] \o p) = f[B + Len(p)])
    BY <2>1, PageIs
  <2>3. CASE Ends(r, p)
    BY <1>4, <2>1, <2>2, <2>3
  <2>4. CASE ~Ends(r, p)
    <3>1. rows' = [rows EXCEPT ![r] = rows[r] \o p] /\ UNCHANGED <<enumerated, place, since, last>>
      BY <2>1, <2>4
    <3>2. rows' \in [Searchers -> Seq(Release)] /\ rows'[r] = rows[r] \o p
          /\ \A o \in Searchers \ {r} : rows'[o] = rows[o]
      <4> DEFINE t == rows[r] \o p
      <4>1. t \in Seq(Release) /\ rows' = [rows EXCEPT ![r] = t]
        BY <2>2, <3>1
      <4> HIDE DEF t
      <4>2. rows' \in [Searchers -> Seq(Release)] /\ rows'[r] = t /\ \A o \in Searchers \ {r} : rows'[o] = rows[o]
        BY <4>1 DEF SearchTypeOK
      <4> QED BY <4>2 DEF t
    <3>3. SearchTypeOK' /\ SiteOK'
      BY <2>1, <3>1, <3>2 DEF SearchTypeOK, SiteOK
    <3>4. AskingOK(r)'
      <4>1. src = "kagane" => Last(rows'[r]) \in Range(site')
        <5> SUFFICES ASSUME src = "kagane" PROVE Last(rows'[r]) \in Range(site')
          OBVIOUS
        <5>1. Last(rows'[r]) = f[B + Len(p)] /\ Len(p) >= 1 /\ B + Len(p) < Len(f)
          BY <2>2, <2>4, <3>2
        <5>2. Range(f) = Range(site)
          BY ListedIs DEF SearchTypeOK, SiteOK
        <5> HIDE DEF f, B, p
        <5>3. B + Len(p) \in 1..Len(f)
          BY <2>2, <5>1, LenProperties
        <5>4. f[B + Len(p)] \in Range(f)
          <6>1. Range(f) = {f[i] : i \in 1..Len(f)}
            BY <2>2, RangeEquality
          <6> QED BY <5>3, <6>1
        <5> QED BY <2>1, <5>1, <5>2, <5>4
      <4>2. Paged /\ Paged'
        BY <1>5, <2>1 DEF Walk, Paged
      <4>3. place'[r] = "walk" /\ query'[r] = query[r] /\ query[r] \in Queries /\ query[r].kind = "search"
        BY <2>1, <3>1 DEF Asking, AskingOK
      <4> QED BY <2>1, <4>1, <4>2, <4>3 DEF AskingOK
    <3>5. Asking'
      <4> DEFINE O == Searchers \ {r}
      <4>1. O \in SUBSET Searchers /\ Searchers \ O = {r}
        OBVIOUS
      <4>2. \A o \in O : place'[o] = place[o] /\ query'[o] = query[o] /\ rows'[o] = rows[o]
        BY <2>1, <3>1, <3>2
      <4>3. src' = src /\ site' = site
        BY <2>1
      <4> HIDE DEF O, p, f, B
      <4> QED BY <3>4, <4>1, <4>2, <4>3, OthersAsk
    <3> QED BY <3>3, <3>5
  <2> QED BY <2>3, <2>4
<1>6. ASSUME NEW r \in Searchers, FirstPage(r) PROVE SearchBasis'
  <2> DEFINE f == Listed(KeyOf(r), site)
  <2>1. /\ place[r] = "walk" /\ src = "mangafire" /\ UNCHANGED <<src, site, grown, query, answer>>
        /\ IF Len(f) <= FeedPage THEN Fill(r, f)
           ELSE /\ last' = [last EXCEPT ![r] = (Len(f) + FeedPage - 1) \div FeedPage]
                /\ rows' = [rows EXCEPT ![r] = Cut(f, FeedPage)]
                /\ Reach(r, "rest") /\ UNCHANGED <<enumerated, since>>
    BY <1>6 DEF FirstPage
  <2>2. f \in Seq(Release) /\ Len(f) \in Nat
    BY ListedIs, LenProperties DEF SearchTypeOK, SiteOK
  <2>3. CASE Len(f) <= FeedPage
    BY <1>4, <2>1, <2>2, <2>3
  <2>4. CASE ~(Len(f) <= FeedPage)
    <3> DEFINE n == (Len(f) + FeedPage - 1) \div FeedPage
               c == Cut(f, FeedPage)
    <3>0. FeedPage \in Nat /\ FeedPage > 0
      BY DEF SearchAssumption
    <3>1. n \in Nat
      <4> DEFINE a == Len(f) + FeedPage - 1
      <4>1. a \in Nat
        BY <2>2, <3>0
      <4> HIDE DEF a
      <4>2. a \div FeedPage \in Nat
        BY <3>0, <4>1
      <4> QED BY <4>2 DEF a
    <3>2. c \in Seq(Release)
      BY <2>2, <3>0, CutIs
    <3>3. last' = [last EXCEPT ![r] = n] /\ rows' = [rows EXCEPT ![r] = c] /\ place' = [place EXCEPT ![r] = "rest"]
          /\ UNCHANGED <<enumerated, since>>
      BY <2>1, <2>4 DEF Reach
    <3> HIDE DEF n, c
    <3>4. last' \in [Searchers -> Nat] /\ rows' \in [Searchers -> Seq(Release)] /\ place' \in [Searchers -> Places]
          /\ place'[r] = "rest" /\ \A o \in Searchers \ {r} : rows'[o] = rows[o] /\ place'[o] = place[o]
      BY <3>1, <3>2, <3>3 DEF SearchTypeOK, Places
    <3>5. SearchTypeOK' /\ SiteOK'
      BY <2>1, <3>3, <3>4 DEF SearchTypeOK, SiteOK
    <3>6. AskingOK(r)'
      BY <2>1, <3>4 DEF Asking, AskingOK
    <3>7. Asking'
      <4> DEFINE O == Searchers \ {r}
      <4>1. O \in SUBSET Searchers /\ Searchers \ O = {r}
        OBVIOUS
      <4>2. \A o \in O : place'[o] = place[o] /\ query'[o] = query[o] /\ rows'[o] = rows[o]
        BY <2>1, <3>4
      <4> HIDE DEF O
      <4> QED BY <2>1, <3>6, <4>1, <4>2, OthersAsk
    <3> QED BY <3>5, <3>7
  <2> QED BY <2>3, <2>4
<1>7. ASSUME NEW r \in Searchers, OtherPages(r) PROVE SearchBasis'
  <2> DEFINE f == Listed(KeyOf(r), site)
             c == Cut(f, last[r] * FeedPage)
             d == Past(c, FeedPage)
             t == rows[r] \o d
  <2>1. place[r] = "rest" /\ Fill(r, t) /\ UNCHANGED <<src, site, grown, query, answer>>
    BY <1>7 DEF OtherPages
  <2>2. f \in Seq(Release)
    BY ListedIs DEF SearchTypeOK, SiteOK
  <2>3. FeedPage \in Nat /\ last[r] \in Nat /\ rows[r] \in Seq(Release)
    BY DEF SearchAssumption, SearchTypeOK
  <2>4. last[r] * FeedPage \in Nat
    BY <2>3
  <2> HIDE DEF f
  <2>5. c \in Seq(Release)
    BY <2>2, <2>4, CutIs
  <2> HIDE DEF c
  <2>6. d \in Seq(Release)
    BY <2>3, <2>5, PastIs
  <2> HIDE DEF d
  <2>7. t \in Seq(Release)
    BY <2>3, <2>6, ConcatProperties
  <2> HIDE DEF t
  <2> QED BY <1>4, <2>1, <2>7
<1>8. ASSUME NEW r \in Searchers, List(r) PROVE SearchBasis'
  <2> DEFINE f == Listed(KeyOf(r), site)
  <2>1. place[r] = "walk" /\ Fill(r, f) /\ UNCHANGED <<src, site, grown, query, answer>>
    BY <1>8 DEF List
  <2>2. f \in Seq(Release)
    BY ListedIs DEF SearchTypeOK, SiteOK
  <2> HIDE DEF f
  <2> QED BY <1>4, <2>1, <2>2
<1>9. ASSUME NEW r \in Searchers, Fails(r) PROVE SearchBasis'
  <2>1. /\ place' = [place EXCEPT ![r] = "failed"] /\ query' = [query EXCEPT ![r] = None]
        /\ rows' = [rows EXCEPT ![r] = <<>>] /\ since' = [since EXCEPT ![r] = <<>>] /\ last' = [last EXCEPT ![r] = 0]
        /\ UNCHANGED <<src, site, grown, enumerated, answer>>
    BY <1>9 DEF Fails, Reach
  <2>2. /\ place' \in [Searchers -> Places] /\ query' \in [Searchers -> Queries \cup {None}]
        /\ rows' \in [Searchers -> Seq(Release)] /\ place'[r] = "failed"
        /\ \A o \in Searchers \ {r} : place'[o] = place[o] /\ query'[o] = query[o] /\ rows'[o] = rows[o]
    BY <1>0, <2>1 DEF SearchTypeOK, Places
  <2>3. since' \in [Searchers -> Seq(Release)] /\ last' \in [Searchers -> Nat]
    BY <1>0, <2>1 DEF SearchTypeOK
  <2>4. SearchTypeOK' /\ SiteOK'
    BY <2>1, <2>2, <2>3 DEF SearchTypeOK, SiteOK
  <2>5. AskingOK(r)'
    BY <2>2 DEF AskingOK
  <2>6. Asking'
    <3> DEFINE O == Searchers \ {r}
    <3>1. O \in SUBSET Searchers /\ Searchers \ O = {r}
      OBVIOUS
    <3>2. \A o \in O : place'[o] = place[o] /\ query'[o] = query[o] /\ rows'[o] = rows[o]
      BY <2>2
    <3> HIDE DEF O
    <3> QED BY <2>1, <2>5, <3>1, <3>2, OthersAsk
  <2> QED BY <2>4, <2>6
<1>10. ASSUME NEW r \in Searchers, Polled(r) PROVE SearchBasis'
  <2>1. /\ place[r] = "poll" /\ rows' = [rows EXCEPT ![r] = RecentRows(query[r])] /\ place' = [place EXCEPT ![r] = "found"]
        /\ UNCHANGED <<src, site, grown, enumerated, query, since, last, answer>>
    BY <1>10 DEF Polled, Reach
  <2>2. query[r] \in Queries
    BY <2>1 DEF Asking, AskingOK
  <2>3. RecentRows(query[r]) \in Seq(Release)
    BY <2>2, QueriesAsk, RecentIs DEF SearchTypeOK, SiteOK, SearchAssumption
  <2>4. rows' \in [Searchers -> Seq(Release)] /\ place' \in [Searchers -> Places] /\ place'[r] = "found"
        /\ \A o \in Searchers \ {r} : place'[o] = place[o] /\ rows'[o] = rows[o]
    BY <2>1, <2>3 DEF SearchTypeOK, Places
  <2>5. SearchTypeOK' /\ SiteOK'
    BY <2>1, <2>4 DEF SearchTypeOK, SiteOK
  <2>6. AskingOK(r)'
    BY <2>1, <2>2, <2>4 DEF AskingOK
  <2>7. Asking'
    <3> DEFINE O == Searchers \ {r}
    <3>1. O \in SUBSET Searchers /\ Searchers \ O = {r}
      OBVIOUS
    <3>2. \A o \in O : place'[o] = place[o] /\ query'[o] = query[o] /\ rows'[o] = rows[o]
      BY <2>1, <2>4
    <3> HIDE DEF O
    <3> QED BY <2>1, <2>6, <3>1, <3>2, OthersAsk
  <2> QED BY <2>5, <2>7
<1>11. ASSUME NEW r \in Searchers, Answer(r) PROVE SearchBasis'
  <2> DEFINE q == query[r]
             mine == IF Declines(q) \/ q.kind = "recent" THEN rows[r] ELSE SearchRows(q, rows[r])
  <2>1. /\ place[r] = "found" /\ answer' = [answer EXCEPT ![r] = Window(q, mine)] /\ place' = [place EXCEPT ![r] = "done"]
        /\ rows' = [rows EXCEPT ![r] = <<>>]
        /\ UNCHANGED <<src, site, grown, enumerated, query, since, last>>
    BY <1>11 DEF Answer, Reach
  <2>2. q \in Queries /\ q \in Question /\ rows[r] \in Seq(Release)
    BY <2>1, QueriesAsk DEF Asking, AskingOK, SearchTypeOK
  <2>3. mine \in Seq(Release)
    <3>1. SearchRows(q, rows[r]) \in Seq(Release)
      BY <2>2, SearchRowsAre DEF SearchTypeOK
    <3> QED BY <2>2, <3>1
  <2> HIDE DEF mine
  <2>4. Window(q, mine) \in Seq(Release)
    BY <2>2, <2>3, WindowIs
  <2>5. rows' \in [Searchers -> Seq(Release)] /\ place' \in [Searchers -> Places] /\ place'[r] = "done"
        /\ \A o \in Searchers \ {r} : place'[o] = place[o] /\ rows'[o] = rows[o]
    BY <1>0, <2>1 DEF SearchTypeOK, Places
  <2>6. answer' \in [Searchers -> Seq(Release)]
    BY <2>1, <2>4 DEF SearchTypeOK
  <2>7. SearchTypeOK' /\ SiteOK'
    BY <2>1, <2>5, <2>6 DEF SearchTypeOK, SiteOK
  <2>8. AskingOK(r)'
    BY <2>1, <2>2, <2>5 DEF AskingOK
  <2>9. Asking'
    <3> DEFINE O == Searchers \ {r}
    <3>1. O \in SUBSET Searchers /\ Searchers \ O = {r}
      OBVIOUS
    <3>2. \A o \in O : place'[o] = place[o] /\ query'[o] = query[o] /\ rows'[o] = rows[o]
      BY <2>1, <2>5
    <3> HIDE DEF O
    <3> QED BY <2>1, <2>8, <3>1, <3>2, OthersAsk
  <2> QED BY <2>7, <2>9
<1>12. ASSUME NEW k \in SUBSET Langs, Expire(k) PROVE SearchBasis'
  <2>1. enumerated' = [enumerated EXCEPT ![k] = None]
        /\ UNCHANGED <<src, site, grown, place, query, rows, since, last, answer>>
    BY <1>12 DEF Expire
  <2>2. enumerated' \in [SUBSET Langs -> {None} \cup Enumeration]
    BY <2>1 DEF SearchTypeOK
  <2>3. SearchTypeOK' /\ SiteOK'
    BY <2>1, <2>2 DEF SearchTypeOK, SiteOK
  <2>4. Asking'
    BY <2>1 DEF Asking, AskingOK, Paged
  <2> QED BY <2>3, <2>4
<1>13. ASSUME NEW i \in 1..(Len(site) + 1), Publish(i) PROVE SearchBasis'
  <2>1. grown' = grown + 1 /\ UNCHANGED <<src, enumerated, place, query, rows, since, last, answer>>
    BY <1>13 DEF Publish
  <2>2. SiteOK' /\ \E a, b, m \in Seq(Release) : site = a \o b /\ site' = (a \o m) \o b
    BY <1>13, PublishIs DEF SearchTypeOK
  <2>3. Range(site) \subseteq Range(site')
    <3>1. PICK a \in Seq(Release), b \in Seq(Release), m \in Seq(Release) : site = a \o b /\ site' = (a \o m) \o b
      BY <2>2
    <3> DEFINE x == a \o m
    <3>2. x \in Seq(Release) /\ Range(x) = Range(a) \cup Range(m) /\ Range(site) = Range(a) \cup Range(b)
      BY <3>1, ConcatProperties, RangeConcatenation
    <3> HIDE DEF x
    <3>3. Range(x \o b) = Range(x) \cup Range(b)
      BY <3>2, RangeConcatenation
    <3>4. site' = x \o b
      BY <3>1 DEF x
    <3> QED BY <3>2, <3>3, <3>4
  <2>4. SearchTypeOK'
    BY <2>1 DEF SearchTypeOK
  <2>5. Asking'
    <3> DEFINE O == Searchers
    <3>1. O \in SUBSET Searchers /\ Searchers \ O = {}
      OBVIOUS
    <3>2. \A o \in O : place'[o] = place[o] /\ query'[o] = query[o] /\ rows'[o] = rows[o]
      BY <2>1
    <3> HIDE DEF O
    <3> QED BY <2>1, <2>3, <3>1, <3>2, OthersAsk
  <2> QED BY <2>2, <2>4, <2>5
<1>14. CASE UNCHANGED searchVars
  <2>1. UNCHANGED <<src, site, grown, enumerated, place, query, rows, since, last, answer>>
    BY <1>14 DEF searchVars
  <2> QED BY <2>1 DEF SearchTypeOK, SiteOK, Asking, AskingOK, Paged
<1> QED BY <1>1, <1>2, <1>3, <1>5, <1>6, <1>7, <1>8, <1>9, <1>10, <1>11, <1>12, <1>13, <1>14 DEF SearchNext

-----------------------------------------------------------------------------
(* The feed that a walk brings is whole.                                    *)

\* What the site had as the walk began is among the rows or ahead.
Sweep(r) ==
  place[r] = "walk" /\ src # "mangafire" =>
    Range(Listed(KeyOf(r), since[r])) \subseteq Range(rows[r]) \cup Range(Past(Listed(KeyOf(r), site), Beyond(r)))
Sweeps == \A r \in Searchers : Sweep(r)
Sweeping == Sweeps /\ FeedIsWhole

LEMMA SweepingStarts == ASSUME SearchInit PROVE Sweeping
<1> QED BY DEF SearchInit, Sweeping, Sweeps, Sweep, FeedIsWhole

\* Requests that a step leaves alone, on a site that stays.
LEMMA OthersSweep ==
  ASSUME Sweeps, src' = src, site' = site,
         NEW O \in SUBSET Searchers,
         \A o \in O : place'[o] = place[o] /\ query'[o] = query[o] /\ rows'[o] = rows[o] /\ since'[o] = since[o],
         \A r \in Searchers \ O : Sweep(r)'
  PROVE  Sweeps'
<1> SUFFICES ASSUME NEW o \in O PROVE Sweep(o)'
  BY DEF Sweeps
<1>1. Sweep(o) /\ place'[o] = place[o] /\ query'[o] = query[o] /\ rows'[o] = rows[o] /\ since'[o] = since[o]
  BY DEF Sweeps
<1>2. KeyOf(o)' = KeyOf(o)
  BY <1>1 DEF KeyOf, EnumKey
<1>3. Listed(KeyOf(o), site)' = Listed(KeyOf(o), site) /\ Listed(KeyOf(o), since[o])' = Listed(KeyOf(o), since[o])
  BY <1>1, <1>2 DEF Listed
<1>4. Beyond(o)' = Beyond(o)
  BY <1>1, <1>3 DEF Beyond
<1> QED BY <1>1, <1>3, <1>4 DEF Sweep

\* A walk that ends with all that the site had leaves a whole feed.
LEMMA FillSweeps ==
  ASSUME SourcesAssumption, SearchAssumption, SearchTypeOK, Sweeping,
         NEW r \in Searchers, query[r] \in Queries, NEW s \in Seq(Release), Fill(r, s),
         UNCHANGED <<src, site, grown, query, answer>>,
         src # "mangafire" => Range(Listed(KeyOf(r), since[r])) \subseteq Range(s)
  PROVE  Sweeping'
<1>1. /\ KeyOf(r) \in SUBSET Langs /\ place'[r] = "found"
      /\ enumerated'[KeyOf(r)] = [rows |-> s, since |-> since[r]]
      /\ \A o \in Searchers \ {r} : rows'[o] = rows[o] /\ since'[o] = since[o] /\ place'[o] = place[o]
      /\ \A k \in (SUBSET Langs) \ {KeyOf(r)} : enumerated'[k] = enumerated[k]
  BY FillIs
<1>2. Sweeps'
  <2> DEFINE O == Searchers \ {r}
  <2>1. O \in SUBSET Searchers /\ Searchers \ O = {r}
    OBVIOUS
  <2>2. \A o \in O : place'[o] = place[o] /\ query'[o] = query[o] /\ rows'[o] = rows[o] /\ since'[o] = since[o]
    BY <1>1
  <2>3. Sweep(r)'
    BY <1>1 DEF Sweep
  <2> HIDE DEF O
  <2> QED BY <2>1, <2>2, <2>3, OthersSweep DEF Sweeping
<1>3. FeedIsWhole'
  <2> SUFFICES ASSUME NEW k \in SUBSET Langs, enumerated'[k] # None, src' # "mangafire"
               PROVE  Range(Listed(k, enumerated[k].since))' \subseteq Range(enumerated'[k].rows)
    BY DEF FeedIsWhole
  <2>1. Range(Listed(k, enumerated[k].since))' = Range(Listed(k, enumerated'[k].since))
    BY DEF Listed
  <2>2. CASE k = KeyOf(r)
    <3>1. enumerated'[k].rows = s /\ enumerated'[k].since = since[r]
      BY <1>1, <2>2
    <3> QED BY <2>1, <2>2, <3>1
  <2>3. CASE k # KeyOf(r)
    <3>1. enumerated'[k] = enumerated[k]
      BY <1>1, <2>3
    <3> QED BY <2>1, <3>1 DEF Sweeping, FeedIsWhole
  <2> QED BY <2>2, <2>3
<1> QED BY <1>2, <1>3 DEF Sweeping

\* The feed by cursor has no two rows alike.
LEMMA NoTwoAlike ==
  ASSUME NEW s \in Seq(Release), \A i, j \in 1..Len(s) : s[i].date = s[j].date => i = j
  PROVE  \A i, j \in 1..Len(Reverse(s)) : Reverse(s)[i] = Reverse(s)[j] => i = j
<1> SUFFICES ASSUME NEW i \in 1..Len(Reverse(s)), NEW j \in 1..Len(Reverse(s)), Reverse(s)[i] = Reverse(s)[j] PROVE i = j
  OBVIOUS
<1>1. Len(s) \in Nat /\ Len(Reverse(s)) = Len(s) /\ \A n \in 1..Len(s) : Reverse(s)[n] = s[Len(s) - n + 1]
  BY ReverseIs, LenProperties
<1>2. Len(s) - i + 1 \in 1..Len(s) /\ Len(s) - j + 1 \in 1..Len(s)
  <2>1. i \in 1..Len(s) /\ j \in 1..Len(s) /\ Len(s) \in Nat
    BY <1>1
  <2> QED BY ONLY <2>1
<1>3. s[Len(s) - i + 1] = s[Len(s) - j + 1]
  BY <1>1
<1>4. Len(s) - i + 1 = Len(s) - j + 1
  BY <1>2, <1>3
<1> QED BY <1>1, <1>4

\* What is ahead in a list is ahead in a longer one.
LEMMA AheadStays ==
  ASSUME NEW f \in Seq(Release), NEW g \in Seq(Release), NEW h \in [1..Len(f) -> 1..Len(g)],
         \A i \in 1..Len(f) : h[i] >= i /\ g[h[i]] = f[i],
         \A i, j \in 1..Len(f) : i < j => h[i] < h[j],
         NEW B \in Nat, NEW C \in Nat, C = B \/ (B \in 1..Len(f) /\ C = h[B])
  PROVE  Range(Past(f, B)) \subseteq Range(Past(g, C))
<1>1. Len(f) \in Nat /\ Len(g) \in Nat
  BY LenProperties
<1>2. Range(Past(f, B)) = {f[i] : i \in (B + 1)..Len(f)}
  BY PastIs
<1>3. Range(Past(g, C)) = {g[i] : i \in (C + 1)..Len(g)}
  BY PastIs
<1>4. ASSUME NEW i \in (B + 1)..Len(f) PROVE f[i] \in Range(Past(g, C))
  <2>1. i \in 1..Len(f) /\ B < i
    BY <1>1
  <2>2. h[i] \in 1..Len(g) /\ h[i] >= i /\ g[h[i]] = f[i]
    BY <2>1
  <2>3. h[i] > C
    <3>1. CASE C = B
      BY <1>1, <2>1, <2>2, <3>1
    <3>2. CASE B \in 1..Len(f) /\ C = h[B]
      <4>1. h[B] < h[i] /\ h[B] \in 1..Len(g)
        BY <2>1, <3>2
      <4> QED BY <1>1, <2>2, <3>2, <4>1
    <3> QED BY <3>1, <3>2
  <2>4. h[i] \in (C + 1)..Len(g)
    BY <1>1, <2>2, <2>3
  <2> QED BY <1>3, <2>2, <2>4
<1> QED BY <1>2, <1>4

LEMMA SweepingStays ==
  ASSUME SourcesAssumption, SearchAssumption, SearchBasis, Sweeping, [SearchNext]_searchVars
  PROVE  Sweeping'
<1> USE DEF SearchBasis
\* A step of a request that does not walk then, and leaves the cache.
<1>1. ASSUME NEW r \in Searchers, place'[r] # "walk", UNCHANGED <<src, site, enumerated>>,
             \A o \in Searchers \ {r} : place'[o] = place[o] /\ query'[o] = query[o] /\ rows'[o] = rows[o] /\ since'[o] = since[o]
      PROVE  Sweeping'
  <2>1. Sweeps'
    <3> DEFINE O == Searchers \ {r}
    <3>1. O \in SUBSET Searchers /\ Searchers \ O = {r}
      OBVIOUS
    <3>2. \A o \in O : place'[o] = place[o] /\ query'[o] = query[o] /\ rows'[o] = rows[o] /\ since'[o] = since[o]
      BY <1>1
    <3>3. Sweep(r)'
      BY <1>1 DEF Sweep
    <3> HIDE DEF O
    <3> QED BY <1>1, <3>1, <3>2, <3>3, OthersSweep DEF Sweeping
  <2>2. FeedIsWhole'
    BY <1>1 DEF Sweeping, FeedIsWhole, Listed
  <2> QED BY <2>1, <2>2 DEF Sweeping
<1>2. ASSUME NEW r \in Searchers, AskFor(r) PROVE Sweeping'
  <2>1. PICK q \in Queries : /\ query' = [query EXCEPT ![r] = q]
                             /\ Reach(r, IF Declines(q) THEN "found" ELSE IF q.kind = "recent" THEN "poll" ELSE "seek")
    BY <1>2 DEF AskFor
  <2>2. UNCHANGED <<src, site, grown, enumerated, rows, since, last, answer>>
    BY <1>2 DEF AskFor
  <2>3. place'[r] # "walk" /\ \A o \in Searchers \ {r} : place'[o] = place[o] /\ query'[o] = query[o]
    BY <2>1 DEF Reach, SearchTypeOK
  <2> QED BY <1>1, <2>2, <2>3
<1>3. ASSUME NEW r \in Searchers, Hit(r) PROVE Sweeping'
  <2>1. place'[r] # "walk" /\ UNCHANGED <<src, site, enumerated>>
        /\ \A o \in Searchers \ {r} : place'[o] = place[o] /\ query'[o] = query[o] /\ rows'[o] = rows[o] /\ since'[o] = since[o]
    BY <1>3 DEF Hit, Reach, SearchTypeOK
  <2> QED BY <1>1, <2>1
<1>4. ASSUME NEW r \in Searchers, Begin(r) PROVE Sweeping'
  <2>1. /\ place[r] = "seek" /\ since' = [since EXCEPT ![r] = site] /\ place' = [place EXCEPT ![r] = "walk"]
        /\ UNCHANGED <<src, site, grown, enumerated, query, rows, last, answer>>
    BY <1>4 DEF Begin, Reach
  <2>2. since'[r] = site /\ \A o \in Searchers \ {r} : place'[o] = place[o] /\ since'[o] = since[o]
    BY <2>1 DEF SearchTypeOK, SiteOK
  <2>3. Sweep(r)'
    <3> DEFINE f == Listed(KeyOf(r), site)
    <3>1. f \in Seq(Release)
      BY ListedIs DEF SearchTypeOK, SiteOK
    <3>2. KeyOf(r)' = KeyOf(r)
      BY <2>1 DEF KeyOf, EnumKey
    <3>3. Listed(KeyOf(r), site)' = f /\ Listed(KeyOf(r), since[r])' = f
      BY <2>1, <2>2, <3>2 DEF Listed
    <3>4. rows'[r] = <<>> /\ Len(<<>>) = 0
      BY <2>1, EmptySeq DEF Asking, AskingOK
    <3>5. Beyond(r)' = 0
      BY <3>4 DEF Beyond
    <3> HIDE DEF f
    <3>6. 0 \in Nat
      OBVIOUS
    <3>7. Past(f, 0) = f
      BY <3>1, <3>6, PastIs
    <3>8. Range(Past(Listed(KeyOf(r), site), Beyond(r)))' = Range(f)
      BY <3>3, <3>5, <3>7 DEF Past
    <3> QED BY <3>3, <3>8 DEF Sweep
  <2>4. Sweeps'
    <3> DEFINE O == Searchers \ {r}
    <3>1. O \in SUBSET Searchers /\ Searchers \ O = {r}
      OBVIOUS
    <3>2. \A o \in O : place'[o] = place[o] /\ query'[o] = query[o] /\ rows'[o] = rows[o] /\ since'[o] = since[o]
      BY <2>1, <2>2
    <3> HIDE DEF O
    <3> QED BY <2>1, <2>3, <3>1, <3>2, OthersSweep DEF Sweeping
  <2>5. FeedIsWhole'
    BY <2>1 DEF Sweeping, FeedIsWhole, Listed
  <2> QED BY <2>4, <2>5 DEF Sweeping
<1>5. ASSUME NEW r \in Searchers, Walk(r) PROVE Sweeping'
  <2> DEFINE f == Listed(KeyOf(r), site)
             B == Beyond(r)
             p == PageBeyond(r)
             t == rows[r] \o p
             old == Range(Listed(KeyOf(r), since[r]))
  <2>1. /\ place[r] = "walk" /\ src # "mangafire" /\ UNCHANGED <<src, site, grown, query, answer>>
        /\ IF Ends(r, p) THEN Fill(r, t)
           ELSE rows' = [rows EXCEPT ![r] = @ \o p] /\ UNCHANGED <<enumerated, place, since, last>>
    BY <1>5 DEF Walk
  <2>2. query[r] \in Queries /\ rows[r] \in Seq(Release) /\ Len(rows[r]) \in Nat
    BY <2>1, LenProperties DEF Asking, AskingOK, SearchTypeOK
  <2>3. /\ f \in Seq(Release) /\ B \in Nat /\ p \in Seq(Release) /\ t \in Seq(Release)
        /\ Len(t) = Len(rows[r]) + Len(p)
        /\ Len(p) <= Len(f) - B \/ Len(p) = 0
        /\ \A i \in 1..Len(p) : p[i] = f[B + i]
        /\ Ends(r, p) => p = Past(f, B)
        /\ src = "kagane" /\ ~Ends(r, p) => Len(p) >= 1 /\ B + Len(p) < Len(f)
        /\ src = "kagane" /\ Len(p) >= 1 => t # <<>> /\ Last(t) = f[B + Len(p)]
    BY <2>1, PageIs
  <2>4. old \subseteq Range(rows[r]) \cup Range(Past(f, B))
    BY <2>1 DEF Sweeping, Sweeps, Sweep
  <2>5. Range(t) = Range(rows[r]) \cup Range(p)
    BY <2>2, <2>3, RangeConcatenation
  <2>6. CASE Ends(r, p)
    <3>1. old \subseteq Range(t)
      BY <2>3, <2>4, <2>5, <2>6
    <3>2. Fill(r, t)
      BY <2>1, <2>6
    <3> HIDE DEF t
    <3> QED BY <2>1, <2>2, <2>3, <3>1, <3>2, FillSweeps
  <2>7. CASE ~Ends(r, p)
    <3>1. rows' = [rows EXCEPT ![r] = t] /\ UNCHANGED <<enumerated, place, since, last>>
      BY <2>1, <2>7
    <3>2. KeyOf(r)' = KeyOf(r)
      BY <2>1 DEF KeyOf, EnumKey
    <3>3. Listed(KeyOf(r), site)' = f /\ Range(Listed(KeyOf(r), since[r]))' = old
      BY <2>1, <3>1, <3>2 DEF Listed
    <3> HIDE DEF t, old
    <3>4. rows'[r] = t /\ \A o \in Searchers \ {r} : rows'[o] = rows[o]
      BY <2>3, <3>1 DEF SearchTypeOK
    <3>5. Beyond(r)' = B + Len(p)
      <4>1. CASE src # "kagane"
        <5>1. Beyond(r)' = Len(t)
          BY <2>1, <3>4, <4>1 DEF Beyond
        <5>2. B = Len(rows[r])
          BY <2>1, <4>1, BeyondIs
        <5> QED BY <2>3, <5>1, <5>2
      <4>2. CASE src = "kagane"
        <5>1. Len(p) \in Nat /\ Len(p) >= 1 /\ B + Len(p) < Len(f) /\ Last(t) = f[B + Len(p)] /\ Len(t) > 0
          <6>1. Len(p) \in Nat
            BY <2>3, LenProperties
          <6> QED BY <2>2, <2>3, <2>7, <4>2, <6>1
        <5>2. Beyond(r)' = CHOOSE i \in DOMAIN f : f[i] = Last(t)
          BY <2>1, <3>3, <3>4, <4>2, <5>1 DEF Beyond
        <5>3. f = Reverse(site)
          BY <4>2 DEF Listed
        <5>4. \A i, j \in 1..Len(f) : f[i] = f[j] => i = j
          <6>1. site \in Seq(Release) /\ \A i, j \in 1..Len(site) : site[i].date = site[j].date => i = j
            BY DEF SiteOK
          <6> HIDE DEF f
          <6>2. \A i, j \in 1..Len(Reverse(site)) : Reverse(site)[i] = Reverse(site)[j] => i = j
            BY <6>1, NoTwoAlike
          <6> QED BY <5>3, <6>2
        <5> HIDE DEF f, B, p
        <5>5. DOMAIN f = 1..Len(f) /\ Len(f) \in Nat
          BY <2>3, LenProperties
        <5>6. B + Len(p) \in 1..Len(f)
          BY <2>3, <5>1, <5>5
        <5>7. \A i \in DOMAIN f : f[i] = Last(t) => i = B + Len(p)
          BY <5>1, <5>4, <5>5, <5>6
        <5>8. B + Len(p) \in DOMAIN f /\ f[B + Len(p)] = Last(t)
          BY <5>1, <5>5, <5>6
        <5> QED BY <5>2, <5>7, <5>8
      <4> QED BY <4>1, <4>2
    <3> HIDE DEF f, B, p
    <3>6. Range(Past(f, B)) \subseteq Range(p) \cup Range(Past(f, B + Len(p)))
      <4>0. Len(p) \in Nat /\ Len(f) \in Nat /\ B + Len(p) \in Nat
        BY <2>3, LenProperties
      <4>1. Range(Past(f, B)) = {f[i] : i \in (B + 1)..Len(f)}
        BY <2>3, PastIs
      <4>2. Range(Past(f, B + Len(p))) = {f[i] : i \in (B + Len(p) + 1)..Len(f)}
        BY <2>3, <4>0, PastIs
      <4>3. Range(p) = {p[i] : i \in 1..Len(p)}
        BY <2>3, RangeEquality
      <4>4. ASSUME NEW i \in (B + 1)..Len(f) PROVE f[i] \in Range(p) \cup Range(Past(f, B + Len(p)))
        <5>1. CASE i <= B + Len(p)
          <6>1. i - B \in 1..Len(p) /\ B + (i - B) = i
            BY <2>3, <4>0, <5>1
          <6>2. p[i - B] = f[i]
            BY <2>3, <6>1
          <6> QED BY <4>3, <6>1, <6>2
        <5>2. CASE ~(i <= B + Len(p))
          <6>1. i \in (B + Len(p) + 1)..Len(f)
            BY <2>3, <4>0, <5>2
          <6> QED BY <4>2, <6>1
        <5> QED BY <5>1, <5>2
      <4> QED BY <4>1, <4>4
    <3>7. Range(Past(Listed(KeyOf(r), site), Beyond(r)))' = Range(Past(f, B + Len(p)))
      BY <3>3, <3>5 DEF Past
    <3>8. Sweep(r)'
      <4>1. old \subseteq Range(t) \cup Range(Past(f, B + Len(p)))
        BY <2>4, <2>5, <3>6
      <4> QED BY <3>3, <3>4, <3>7, <4>1 DEF Sweep
    <3>9. Sweeps'
      <4> DEFINE O == Searchers \ {r}
      <4>1. O \in SUBSET Searchers /\ Searchers \ O = {r}
        OBVIOUS
      <4>2. \A o \in O : place'[o] = place[o] /\ query'[o] = query[o] /\ rows'[o] = rows[o] /\ since'[o] = since[o]
        BY <2>1, <3>1, <3>4
      <4> HIDE DEF O
      <4> QED BY <2>1, <3>8, <4>1, <4>2, OthersSweep DEF Sweeping
    <3>10. FeedIsWhole'
      BY <2>1, <3>1 DEF Sweeping, FeedIsWhole, Listed
    <3> QED BY <3>9, <3>10 DEF Sweeping
  <2> QED BY <2>6, <2>7
\* MangaFire promises nothing.
<1>6. ASSUME src' = "mangafire" PROVE Sweeping'
  BY <1>6 DEF Sweeping, Sweeps, Sweep, FeedIsWhole
<1>7. ASSUME NEW r \in Searchers, FirstPage(r) \/ OtherPages(r) PROVE Sweeping'
  <2>1. src' = "mangafire"
    BY <1>7 DEF FirstPage, OtherPages, Asking, AskingOK
  <2> QED BY <1>6, <2>1
<1>8. ASSUME NEW r \in Searchers, List(r) PROVE Sweeping'
  <2> DEFINE f == Listed(KeyOf(r), site)
  <2>1. place[r] = "walk" /\ ~Paged /\ src # "mangafire" /\ Fill(r, f) /\ UNCHANGED <<src, site, grown, query, answer>>
    BY <1>8 DEF List, Paged
  <2>2. f \in Seq(Release)
    BY ListedIs DEF SearchTypeOK, SiteOK
  <2>3. query[r] \in Queries /\ rows[r] = <<>>
    BY <2>1 DEF Asking, AskingOK
  <2>4. Range(Listed(KeyOf(r), since[r])) \subseteq Range(rows[r]) \cup Range(Past(f, Beyond(r)))
    BY <2>1 DEF Sweeping, Sweeps, Sweep
  <2>5. Beyond(r) = 0
    BY <2>3, EmptySeq DEF Beyond
  <2> HIDE DEF f
  <2>6. 0 \in Nat
    OBVIOUS
  <2>7. Past(f, 0) = f
    BY <2>2, <2>6, PastIs
  <2>8. Range(Listed(KeyOf(r), since[r])) \subseteq Range(f)
    BY <2>3, <2>4, <2>5, <2>7, RangeEmpty
  <2> QED BY <2>1, <2>2, <2>3, <2>8, FillSweeps
<1>9. ASSUME NEW r \in Searchers, Fails(r) PROVE Sweeping'
  <2>1. place'[r] # "walk" /\ UNCHANGED <<src, site, enumerated>>
        /\ \A o \in Searchers \ {r} : place'[o] = place[o] /\ query'[o] = query[o] /\ rows'[o] = rows[o] /\ since'[o] = since[o]
    BY <1>9 DEF Fails, Reach, SearchTypeOK
  <2> QED BY <1>1, <2>1
<1>10. ASSUME NEW r \in Searchers, Polled(r) PROVE Sweeping'
  <2>1. place'[r] # "walk" /\ UNCHANGED <<src, site, enumerated>>
        /\ \A o \in Searchers \ {r} : place'[o] = place[o] /\ query'[o] = query[o] /\ rows'[o] = rows[o] /\ since'[o] = since[o]
    BY <1>10 DEF Polled, Reach, SearchTypeOK
  <2> QED BY <1>1, <2>1
<1>11. ASSUME NEW r \in Searchers, Answer(r) PROVE Sweeping'
  <2>1. place'[r] # "walk" /\ UNCHANGED <<src, site, enumerated>>
        /\ \A o \in Searchers \ {r} : place'[o] = place[o] /\ query'[o] = query[o] /\ rows'[o] = rows[o] /\ since'[o] = since[o]
    BY <1>11 DEF Answer, Reach, SearchTypeOK
  <2> QED BY <1>1, <2>1
<1>12. ASSUME NEW k \in SUBSET Langs, Expire(k) PROVE Sweeping'
  <2>1. enumerated' = [enumerated EXCEPT ![k] = None]
        /\ UNCHANGED <<src, site, grown, place, query, rows, since, last, answer>>
    BY <1>12 DEF Expire
  <2>2. \A l \in SUBSET Langs : enumerated'[l] # None => enumerated'[l] = enumerated[l]
    BY <2>1 DEF SearchTypeOK
  <2>3. FeedIsWhole'
    <3> SUFFICES ASSUME NEW l \in SUBSET Langs, enumerated'[l] # None, src' # "mangafire"
                 PROVE  Range(Listed(l, enumerated[l].since))' \subseteq Range(enumerated'[l].rows)
      BY DEF FeedIsWhole
    <3>1. enumerated'[l] = enumerated[l]
      BY <2>2
    <3>2. Range(Listed(l, enumerated[l].since))' = Range(Listed(l, enumerated[l].since))
      BY <2>1, <3>1 DEF Listed
    <3> QED BY <2>1, <3>1, <3>2 DEF Sweeping, FeedIsWhole
  <2>4. Sweeps'
    <3> DEFINE O == Searchers
    <3>1. O \in SUBSET Searchers /\ Searchers \ O = {}
      OBVIOUS
    <3>2. \A o \in O : place'[o] = place[o] /\ query'[o] = query[o] /\ rows'[o] = rows[o] /\ since'[o] = since[o]
      BY <2>1
    <3> HIDE DEF O
    <3> QED BY <2>1, <3>1, <3>2, OthersSweep DEF Sweeping
  <2> QED BY <2>3, <2>4 DEF Sweeping
<1>13. ASSUME NEW n \in 1..(Len(site) + 1), Publish(n) PROVE Sweeping'
  <2>1. UNCHANGED <<src, enumerated, place, query, rows, since, last, answer>>
    BY <1>13 DEF Publish
  <2>2. FeedIsWhole'
    BY <2>1 DEF Sweeping, FeedIsWhole, Listed
  <2>3. SiteOK' /\ \E a, b, m \in Seq(Release) : site = a \o b /\ site' = (a \o m) \o b
    BY <1>13, PublishIs DEF SearchTypeOK
  <2>4. ASSUME NEW o \in Searchers PROVE Sweep(o)'
    <3> SUFFICES ASSUME place[o] = "walk", src # "mangafire" PROVE Sweep(o)'
      BY <2>1 DEF Sweep
    <3> DEFINE k == KeyOf(o)
               f == Listed(k, site)
               g == Listed(k, site')
               B == Beyond(o)
               C == Beyond(o)'
    <3>1. KeyOf(o)' = k
      BY <2>1 DEF KeyOf, EnumKey
    <3> HIDE DEF k
    <3>2. Listed(KeyOf(o), site)' = g /\ Listed(KeyOf(o), since[o])' = Listed(KeyOf(o), since[o])
      BY <2>1, <3>1 DEF Listed, k
    <3>3. /\ f \in Seq(Release) /\ Len(rows[o]) \in Nat /\ B \in Nat
          /\ src # "kagane" \/ rows[o] = <<>> => B = Len(rows[o])
          /\ src = "kagane" /\ rows[o] # <<>> => B \in 1..Len(f) /\ f[B] = Last(rows[o])
      BY BeyondIs DEF k
    <3>4. g \in Seq(Release)
      BY <2>3, ListedIs DEF SiteOK, SearchTypeOK
    <3>5. Within(f, g)
      <4>1. PICK a \in Seq(Release), b \in Seq(Release), m \in Seq(Release) : site = a \o b /\ site' = (a \o m) \o b
        BY <2>3
      <4>2. Within(Listed(k, a \o b), Listed(k, (a \o m) \o b))
        BY ListedGrows DEF SearchTypeOK
      <4> QED BY <4>1, <4>2
    <3>6. PICK h \in [1..Len(f) -> 1..Len(g)] :
            /\ \A i \in 1..Len(f) : h[i] >= i /\ g[h[i]] = f[i]
            /\ \A i, j \in 1..Len(f) : i < j => h[i] < h[j]
      BY <3>5 DEF Within
    <3>7. CASE src # "kagane" \/ rows[o] = <<>>
      <4>1. C = Len(rows[o])
        BY <2>1, <3>7, EmptySeq DEF Beyond
      <4>2. C = B /\ C \in Nat
        BY <3>3, <3>7, <4>1
      <4> HIDE DEF f, g, B, C
      <4>3. Range(Past(f, B)) \subseteq Range(Past(g, C))
        BY <3>3, <3>4, <3>6, <4>2, AheadStays
      <4>4. Range(Past(Listed(KeyOf(o), site), Beyond(o)))' = Range(Past(g, C))
        BY <3>2 DEF Past, C
      <4>5. Range(Listed(KeyOf(o), since[o])) \subseteq Range(rows[o]) \cup Range(Past(f, B))
        BY DEF Sweeping, Sweeps, Sweep, f, B, k
      <4> QED BY <2>1, <3>2, <4>3, <4>4, <4>5 DEF Sweep
    <3>8. CASE src = "kagane" /\ rows[o] # <<>>
      <4>1. Len(rows[o]) > 0
        <5>1. rows[o] \in Seq(Release)
          BY DEF SearchTypeOK
        <5> QED BY <3>8, <5>1, EmptySeq
      <4>2. C = CHOOSE i \in DOMAIN g : g[i] = Last(rows[o])
        BY <2>1, <3>2, <3>8, <4>1 DEF Beyond
      <4>3. g = Reverse(site')
        BY <3>8 DEF Listed
      <4>4. \A i, j \in 1..Len(g) : g[i] = g[j] => i = j
        <5>1. site' \in Seq(Release) /\ \A i, j \in 1..Len(site') : site'[i].date = site'[j].date => i = j
          BY <2>3 DEF SiteOK
        <5> HIDE DEF g
        <5>2. \A i, j \in 1..Len(Reverse(site')) : Reverse(site')[i] = Reverse(site')[j] => i = j
          BY <5>1, NoTwoAlike
        <5> QED BY <4>3, <5>2
      <4>5. DOMAIN g = 1..Len(g) /\ B \in 1..Len(f) /\ f[B] = Last(rows[o]) /\ Len(g) \in Nat
        BY <3>3, <3>4, <3>8, LenProperties
      <4> HIDE DEF f, g, B, C
      <4>6. h[B] \in 1..Len(g) /\ g[h[B]] = Last(rows[o])
        BY <3>6, <4>5
      <4>7. C = h[B]
        BY <4>2, <4>4, <4>5, <4>6
      <4>8. C \in Nat
        BY <4>5, <4>6, <4>7
      <4>9. Range(Past(f, B)) \subseteq Range(Past(g, C))
        <5>1. C = B \/ (B \in 1..Len(f) /\ C = h[B])
          BY <4>5, <4>7
        <5>2. f \in Seq(Release) /\ g \in Seq(Release) /\ B \in Nat
          BY <3>3, <3>4
        <5> QED BY <3>6, <4>8, <5>1, <5>2, AheadStays
      <4>10. Range(Past(Listed(KeyOf(o), site), Beyond(o)))' = Range(Past(g, C))
        BY <3>2 DEF Past, C
      <4>11. Range(Listed(KeyOf(o), since[o])) \subseteq Range(rows[o]) \cup Range(Past(f, B))
        BY DEF Sweeping, Sweeps, Sweep, f, B, k
      <4> QED BY <2>1, <3>2, <4>9, <4>10, <4>11 DEF Sweep
    <3> QED BY <3>7, <3>8
  <2> QED BY <2>2, <2>4 DEF Sweeping, Sweeps
<1>14. CASE UNCHANGED searchVars
  <2>1. UNCHANGED <<src, site, grown, enumerated, place, query, rows, since, last, answer>>
    BY <1>14 DEF searchVars
  <2>2. FeedIsWhole'
    BY <2>1 DEF Sweeping, FeedIsWhole, Listed
  <2>3. Sweeps'
    <3> DEFINE O == Searchers
    <3>1. O \in SUBSET Searchers /\ Searchers \ O = {}
      OBVIOUS
    <3>2. \A o \in O : place'[o] = place[o] /\ query'[o] = query[o] /\ rows'[o] = rows[o] /\ since'[o] = since[o]
      BY <2>1
    <3> HIDE DEF O
    <3> QED BY <2>1, <3>1, <3>2, OthersSweep DEF Sweeping
  <2> QED BY <2>2, <2>3 DEF Sweeping
<1> QED BY <1>2, <1>3, <1>4, <1>5, <1>7, <1>8, <1>9, <1>10, <1>11, <1>12, <1>13, <1>14 DEF SearchNext

-----------------------------------------------------------------------------
(* What is answered from a site that does not change.                       *)

Dated == src \in {"mangadex", "mangadot", "mangaball"}
BigQuery(q) == [q EXCEPT !.kind = "search", !.chapter = 0, !.offset = 0, !.limit = Len(site)]

\* The rows on the way are those of the site, the answer is what is due.
ExactRows(r) ==
  /\ place[r] = "walk" /\ src = "mangadex" =>
       Len(rows[r]) <= Len(Listed(KeyOf(r), site)) /\ rows[r] = Cut(Listed(KeyOf(r), site), Len(rows[r]))
  /\ place[r] = "found" /\ query[r].kind = "search" /\ Dated => rows[r] = Listed(KeyOf(r), site)
  /\ place[r] = "found" /\ query[r].kind = "recent" => Range(rows[r]) \subseteq Range(RecentRows(query[r]))
PageOf(r) ==
  /\ place[r] = "done" /\ query[r].kind = "search" /\ Dated
  /\ query[r].offset = 0 \/ src = "mangadex"
  => answer[r] = TheWindow(query[r])
RecentOf(r) ==
  /\ place[r] = "done" /\ query[r].kind = "recent" /\ query[r].langs # <<>>
  => {c \in Range(answer[r]) : src # "comix" \/ c.usable}
       \subseteq Range(SearchRows(BigQuery(query[r]), Listed(EnumKey(BigQuery(query[r])), site)))
ExactCache == Dated => \A k \in SUBSET Langs : enumerated[k] # None => enumerated[k].rows = Listed(k, site)

ExactOf(r) == ExactRows(r) /\ PageOf(r) /\ RecentOf(r)
Exact == grown = 0 => ExactCache /\ \A r \in Searchers : ExactOf(r)

LEMMA ExactStarts == ASSUME SearchInit PROVE Exact
<1> QED BY DEF SearchInit, Exact, ExactCache, ExactOf, ExactRows, PageOf, RecentOf

\* What is exact answers as it should.
LEMMA ExactAnswers == ASSUME Exact PROVE PageIsTheWindow /\ RecentIsSearchable
<1>1. PageIsTheWindow
  BY DEF Exact, ExactOf, PageOf, PageIsTheWindow, Searched, Dated
<1>2. RecentIsSearchable
  BY DEF Exact, ExactOf, RecentOf, RecentIsSearchable, BigQuery
<1> QED BY <1>1, <1>2

\* What a site and a source that stay give stays.
LEMMA SameRows ==
  ASSUME src' = src, site' = site, NEW q
  PROVE  /\ \A r : query'[r] = q => RecentRows(query[r])' = RecentRows(q)
         /\ \A r : query'[r] = q => TheWindow(query[r])' = TheWindow(q)
         /\ \A r : query'[r] = q => KeyOf(r)' = EnumKey(q)
         /\ \A r : query'[r] = q =>
              SearchRows(BigQuery(query[r]), Listed(EnumKey(BigQuery(query[r])), site))'
                = SearchRows(BigQuery(q), Listed(EnumKey(BigQuery(q)), site))
<1>1. ASSUME NEW r, query'[r] = q PROVE RecentRows(query[r])' = RecentRows(q)
  BY <1>1 DEF RecentRows, MangaDexRecent, MangaDotRecent, MangaBallRecent, KaganeRecent, AtsumaruRecent, WeebCentralRecent,
     ProjectSukiRecent, MangaFireRecent, ComixRecent
<1>2. ASSUME NEW r, query'[r] = q PROVE TheWindow(query[r])' = TheWindow(q)
  BY <1>2 DEF TheWindow, Asked
<1>3. ASSUME NEW r, query'[r] = q PROVE KeyOf(r)' = EnumKey(q)
  BY <1>3 DEF KeyOf, EnumKey
<1>4. ASSUME NEW r, query'[r] = q
      PROVE  SearchRows(BigQuery(query[r]), Listed(EnumKey(BigQuery(query[r])), site))'
               = SearchRows(BigQuery(q), Listed(EnumKey(BigQuery(q)), site))
  BY <1>4 DEF BigQuery, SearchRows, Listed, EnumKey, MangaDexRows, MangaDotRows, MangaBallRows, KaganeRows, AtsumaruRows,
     WeebCentralRows, ProjectSukiRows, MangaFireRows, ComixRows
<1> QED BY <1>1, <1>2, <1>3, <1>4

\* Requests that a step leaves alone, on a site that stays.
LEMMA OthersExact ==
  ASSUME \A r \in Searchers : ExactOf(r), src' = src, site' = site,
         NEW O \in SUBSET Searchers,
         \A o \in O : place'[o] = place[o] /\ query'[o] = query[o] /\ rows'[o] = rows[o] /\ answer'[o] = answer[o],
         \A r \in Searchers \ O : ExactOf(r)'
  PROVE  \A r \in Searchers : ExactOf(r)'
<1> SUFFICES ASSUME NEW o \in O PROVE ExactOf(o)'
  OBVIOUS
<1>1. ExactOf(o) /\ place'[o] = place[o] /\ query'[o] = query[o] /\ rows'[o] = rows[o] /\ answer'[o] = answer[o]
  OBVIOUS
<1>2. /\ RecentRows(query[o])' = RecentRows(query[o])
      /\ TheWindow(query[o])' = TheWindow(query[o])
      /\ KeyOf(o)' = KeyOf(o)
      /\ SearchRows(BigQuery(query[o]), Listed(EnumKey(BigQuery(query[o])), site))'
           = SearchRows(BigQuery(query[o]), Listed(EnumKey(BigQuery(query[o])), site))
  BY <1>1, SameRows DEF KeyOf
<1>3. Listed(KeyOf(o), site)' = Listed(KeyOf(o), site)
  BY <1>2 DEF Listed
<1>4. Dated' = Dated
  BY DEF Dated
<1>5. ExactRows(o)'
  BY <1>1, <1>2, <1>3, <1>4 DEF ExactOf, ExactRows
<1>6. PageOf(o)'
  BY <1>1, <1>2, <1>4 DEF ExactOf, PageOf
<1>7. RecentOf(o)'
  BY <1>1, <1>2 DEF ExactOf, RecentOf
<1> QED BY <1>5, <1>6, <1>7 DEF ExactOf

\* The enumerations stay exact while they and the site stay.
LEMMA SameCache ==
  ASSUME ExactCache, src' = src, site' = site,
         \A k \in SUBSET Langs : enumerated'[k] # None => enumerated'[k] = enumerated[k]
  PROVE  ExactCache'
<1> SUFFICES ASSUME Dated, NEW k \in SUBSET Langs, enumerated'[k] # None PROVE enumerated'[k].rows = Listed(k, site)'
  BY DEF ExactCache, Dated
<1>1. enumerated'[k] = enumerated[k] /\ Listed(k, site)' = Listed(k, site)
  BY DEF Listed
<1> QED BY <1>1 DEF ExactCache

\* A walk that ends with the feed of the site.
LEMMA FillExact ==
  ASSUME SourcesAssumption, SearchAssumption, SearchTypeOK, ExactCache, \A r \in Searchers : ExactOf(r),
         NEW r \in Searchers, query[r] \in Queries, query[r].kind = "search",
         NEW s \in Seq(Release), Fill(r, s), UNCHANGED <<src, site, grown, query, answer>>,
         Dated => s = Listed(KeyOf(r), site)
  PROVE  ExactCache' /\ \A o \in Searchers : ExactOf(o)'
<1>1. /\ KeyOf(r) \in SUBSET Langs /\ rows'[r] = s /\ place'[r] = "found"
      /\ enumerated'[KeyOf(r)] = [rows |-> s, since |-> since[r]]
      /\ \A o \in Searchers \ {r} : rows'[o] = rows[o] /\ since'[o] = since[o] /\ place'[o] = place[o]
      /\ \A k \in (SUBSET Langs) \ {KeyOf(r)} : enumerated'[k] = enumerated[k]
  BY FillIs
<1>2. ExactCache'
  <2> SUFFICES ASSUME Dated, NEW k \in SUBSET Langs, enumerated'[k] # None PROVE enumerated'[k].rows = Listed(k, site)'
    BY DEF ExactCache, Dated
  <2>1. Listed(k, site)' = Listed(k, site)
    BY DEF Listed
  <2>2. CASE k = KeyOf(r)
    <3>1. enumerated'[k].rows = s
      BY <1>1, <2>2
    <3> QED BY <2>1, <2>2, <3>1
  <2>3. CASE k # KeyOf(r)
    <3>1. enumerated'[k] = enumerated[k]
      BY <1>1, <2>3
    <3> QED BY <2>1, <3>1 DEF ExactCache
  <2> QED BY <2>2, <2>3
<1>3. ExactOf(r)'
  <2>1. KeyOf(r)' = KeyOf(r)
    BY DEF KeyOf, EnumKey
  <2>2. Listed(KeyOf(r), site)' = Listed(KeyOf(r), site)
    BY <2>1 DEF Listed
  <2>3. ExactRows(r)'
    BY <1>1, <2>2 DEF ExactRows, Dated
  <2> QED BY <1>1, <2>3 DEF ExactOf, PageOf, RecentOf
<1>4. \A o \in Searchers : ExactOf(o)'
  <2> DEFINE O == Searchers \ {r}
  <2>1. O \in SUBSET Searchers /\ Searchers \ O = {r}
    OBVIOUS
  <2>2. \A o \in O : place'[o] = place[o] /\ query'[o] = query[o] /\ rows'[o] = rows[o] /\ answer'[o] = answer[o]
    BY <1>1
  <2> HIDE DEF O
  <2> QED BY <1>3, <2>1, <2>2, OthersExact
<1> QED BY <1>2, <1>4

LEMMA ExactStays ==
  ASSUME SourcesAssumption, SearchAssumption, SearchBasis, Exact, [SearchNext]_searchVars
  PROVE  Exact'
<1> USE DEF SearchBasis
\* A step of one request that leaves the cache.
<1>1. ASSUME grown = 0, NEW r \in Searchers, UNCHANGED <<src, site, grown, enumerated>>,
             \A o \in Searchers \ {r} : place'[o] = place[o] /\ query'[o] = query[o] /\ rows'[o] = rows[o] /\ answer'[o] = answer[o],
             ExactOf(r)'
      PROVE  Exact'
  <2>1. ExactCache /\ \A o \in Searchers : ExactOf(o)
    BY <1>1 DEF Exact
  <2>2. ExactCache'
    BY <1>1, <2>1, SameCache
  <2>3. \A o \in Searchers : ExactOf(o)'
    <3> DEFINE O == Searchers \ {r}
    <3>1. O \in SUBSET Searchers /\ Searchers \ O = {r}
      OBVIOUS
    <3>2. \A o \in O : place'[o] = place[o] /\ query'[o] = query[o] /\ rows'[o] = rows[o] /\ answer'[o] = answer[o]
      BY <1>1
    <3>3. src' = src /\ site' = site
      BY <1>1
    <3> HIDE DEF O
    <3> QED BY <1>1, <2>1, <3>1, <3>2, <3>3, OthersExact
  <2> QED BY <2>2, <2>3 DEF Exact
<1>2. ASSUME grown = 0, NEW r \in Searchers, AskFor(r) PROVE Exact'
  <2>1. PICK q \in Queries : /\ query' = [query EXCEPT ![r] = q]
                             /\ Reach(r, IF Declines(q) THEN "found" ELSE IF q.kind = "recent" THEN "poll" ELSE "seek")
    BY <1>2 DEF AskFor
  <2>2. place[r] = "new" /\ UNCHANGED <<src, site, grown, enumerated, rows, since, last, answer>>
    BY <1>2 DEF AskFor
  <2>3. /\ query'[r] = q /\ place'[r] \in {"found", "poll", "seek"} /\ (place'[r] = "found" => Declines(q))
        /\ \A o \in Searchers \ {r} : place'[o] = place[o] /\ query'[o] = query[o]
    BY <2>1 DEF Reach, SearchTypeOK
  <2>4. rows'[r] = <<>>
    BY <2>2 DEF Asking, AskingOK
  <2>5. Declines(q) /\ q.kind = "search" => ~Dated'
    BY <2>2 DEF Declines, Dated
  <2>6. Range(rows'[r]) = {}
    BY <2>4, RangeEmpty
  <2>7. ExactRows(r)'
    BY <2>3, <2>5, <2>6 DEF ExactRows
  <2>8. ExactOf(r)'
    BY <2>3, <2>7 DEF ExactOf, PageOf, RecentOf
  <2> QED BY <1>1, <1>2, <2>2, <2>3, <2>8
<1>3. ASSUME grown = 0, NEW r \in Searchers, Hit(r) PROVE Exact'
  <2>1. /\ place[r] = "seek" /\ enumerated[KeyOf(r)] # None
        /\ rows' = [rows EXCEPT ![r] = enumerated[KeyOf(r)].rows] /\ place' = [place EXCEPT ![r] = "found"]
        /\ UNCHANGED <<src, site, grown, enumerated, query, since, last, answer>>
    BY <1>3 DEF Hit, Reach
  <2>2. KeyOf(r) \in SUBSET Langs /\ query[r] \in Queries /\ query[r].kind = "search"
    BY <2>1, QueriesAsk, KeyInLangs DEF KeyOf, Asking, AskingOK
  <2>3. /\ rows'[r] = enumerated[KeyOf(r)].rows /\ place'[r] = "found"
        /\ \A o \in Searchers \ {r} : place'[o] = place[o] /\ rows'[o] = rows[o]
    BY <2>1 DEF SearchTypeOK
  <2>4. Dated => rows'[r] = Listed(KeyOf(r), site)
    BY <1>3, <2>1, <2>2, <2>3 DEF Exact, ExactCache
  <2>5. KeyOf(r)' = KeyOf(r)
    BY <2>1 DEF KeyOf, EnumKey
  <2>6. Listed(KeyOf(r), site)' = Listed(KeyOf(r), site)
    BY <2>1, <2>5 DEF Listed
  <2>7. ExactRows(r)'
    BY <2>1, <2>2, <2>3, <2>4, <2>6 DEF ExactRows, Dated
  <2>8. ExactOf(r)'
    BY <2>3, <2>7 DEF ExactOf, PageOf, RecentOf
  <2> QED BY <1>1, <1>3, <2>1, <2>3, <2>8
<1>4. ASSUME grown = 0, NEW r \in Searchers, Begin(r) PROVE Exact'
  <2>1. /\ place[r] = "seek" /\ place' = [place EXCEPT ![r] = "walk"]
        /\ UNCHANGED <<src, site, grown, enumerated, query, rows, last, answer>>
    BY <1>4 DEF Begin, Reach
  <2>2. place'[r] = "walk" /\ \A o \in Searchers \ {r} : place'[o] = place[o]
    BY <2>1 DEF SearchTypeOK
  <2>3. ExactRows(r)'
    <3> DEFINE f == Listed(KeyOf(r), site)
    <3>1. f \in Seq(Release) /\ Len(f) \in Nat
      BY ListedIs, LenProperties DEF SearchTypeOK, SiteOK
    <3>2. KeyOf(r)' = KeyOf(r)
      BY <2>1 DEF KeyOf, EnumKey
    <3>3. Listed(KeyOf(r), site)' = f
      BY <2>1, <3>2 DEF Listed
    <3>4. rows'[r] = <<>> /\ Len(rows'[r]) = 0
      BY <2>1, EmptySeq DEF Asking, AskingOK
    <3> HIDE DEF f
    <3>5. Cut(f, 0) = <<>>
      <4>1. (IF 0 < Len(f) THEN 0 ELSE Len(f)) = 0
        BY <3>1
      <4>2. 1 \in Int /\ 0 \in Int /\ 0 < 1
        OBVIOUS
      <4>3. SubSeq(f, 1, 0) = <<>>
        BY ONLY <4>2, SubSeqEmpty
      <4> QED BY <4>1, <4>3 DEF Cut
    <3>6. Len(rows'[r]) <= Len(f) /\ rows'[r] = Cut(f, Len(rows'[r]))
      BY <3>1, <3>4, <3>5
    <3>7. Cut(Listed(KeyOf(r), site), Len(rows[r]))' = Cut(f, Len(rows'[r]))
      BY <3>3 DEF Cut
    <3> QED BY <2>2, <3>3, <3>6, <3>7 DEF ExactRows
  <2>4. ExactOf(r)'
    BY <2>2, <2>3 DEF ExactOf, PageOf, RecentOf
  <2> QED BY <1>1, <1>4, <2>1, <2>2, <2>4
\* A walk that ends.
<1>5. ASSUME grown = 0, NEW r \in Searchers, place[r] \in {"walk", "rest"}, NEW s \in Seq(Release), Fill(r, s),
             UNCHANGED <<src, site, grown, query, answer>>, Dated => s = Listed(KeyOf(r), site)
      PROVE  Exact'
  <2>1. query[r] \in Queries /\ query[r].kind = "search"
    BY <1>5 DEF Asking, AskingOK
  <2>2. ExactCache /\ \A o \in Searchers : ExactOf(o)
    BY <1>5 DEF Exact
  <2>3. ExactCache' /\ \A o \in Searchers : ExactOf(o)'
    BY <1>5, <2>1, <2>2, FillExact
  <2> QED BY <2>3 DEF Exact
<1>6. ASSUME grown = 0, NEW r \in Searchers, Walk(r) PROVE Exact'
  <2> DEFINE f == Listed(KeyOf(r), site)
             B == Beyond(r)
             p == PageBeyond(r)
             t == rows[r] \o p
  <2>1. /\ place[r] = "walk" /\ Paged /\ src # "mangafire" /\ UNCHANGED <<src, site, grown, query, answer>>
        /\ IF Ends(r, p) THEN Fill(r, t)
           ELSE rows' = [rows EXCEPT ![r] = @ \o p] /\ UNCHANGED <<enumerated, place, since, last>>
    BY <1>6 DEF Walk
  <2>2. /\ f \in Seq(Release) /\ p \in Seq(Release) /\ t \in Seq(Release)
        /\ Len(t) = Len(rows[r]) + Len(p)
        /\ p = Cut(Past(f, B), FeedPage)
        /\ Ends(r, p) => p = Past(f, B)
    BY <2>1, PageIs
  <2>3. rows[r] \in Seq(Release) /\ Len(rows[r]) \in Nat /\ Len(p) \in Nat /\ Len(f) \in Nat
    BY <2>2, LenProperties DEF SearchTypeOK
  <2>4. ASSUME src = "mangadex"
        PROVE  t = Cut(f, Len(t)) /\ Len(t) <= Len(f) /\ (Ends(r, p) => t = f)
    <3> DEFINE m == Len(rows[r])
    <3>1. m <= Len(f) /\ rows[r] = Cut(f, m)
      BY <1>6, <2>1, <2>4 DEF Exact, ExactOf, ExactRows
    <3>2. B = m
      BY <2>1, <2>4, BeyondIs
    <3>3. FeedPage \in Nat
      BY DEF SearchAssumption
    <3>4. p = Cut(Past(f, m), FeedPage)
      BY <2>2, <3>2
    <3>0. f \in Seq(Release) /\ m \in Nat /\ Len(f) \in Nat /\ p \in Seq(Release) /\ Len(p) \in Nat
      BY <2>2, <2>3
    <3> HIDE DEF f, B, p, m
    <3>5. Cut(f, m) \o p = Cut(f, m + Len(p))
      <4>1. Cut(f, m) \o Cut(Past(f, m), FeedPage) = Cut(f, m + Len(Cut(Past(f, m), FeedPage)))
        BY ONLY <3>0, <3>1, <3>3, CutMore
      <4> QED BY ONLY <3>4, <4>1
    <3>6. t = Cut(f, Len(t))
      BY <2>2, <3>1, <3>5 DEF m
    <3>7. Past(f, m) \in Seq(Release) /\ Len(Past(f, m)) = Len(f) - m
      <4>1. Past(f, m) \in Seq(Release) /\ Len(Past(f, m)) = IF m < Len(f) THEN Len(f) - m ELSE 0
        BY ONLY <3>0, PastIs
      <4> QED BY ONLY <3>0, <3>1, <4>1
    <3> DEFINE d == Past(f, m)
    <3> HIDE DEF d
    <3>8. Len(p) <= Len(d) /\ Len(d) = Len(f) - m
      <4>1. d \in Seq(Release) /\ Len(d) = Len(f) - m /\ p = Cut(d, FeedPage)
        BY <3>4, <3>7 DEF d
      <4>2. Len(p) = IF FeedPage < Len(d) THEN FeedPage ELSE Len(d)
        BY <3>3, <4>1, CutIs
      <4>3. Len(d) \in Nat
        BY <4>1, LenProperties
      <4> QED BY <3>3, <4>1, <4>2, <4>3
    <3>9. Len(t) <= Len(f)
      BY <2>2, <2>3, <3>8 DEF m
    <3>10. Ends(r, p) => t = f
      <4> SUFFICES ASSUME Ends(r, p) PROVE t = f
        OBVIOUS
      <4>1. p = d
        BY <2>2, <3>2 DEF d
      <4>2. Len(t) = Len(f)
        BY <2>2, <2>3, <3>8, <4>1 DEF m
      <4>3. Cut(f, Len(f)) = f
        BY <2>2, <2>3, CutIs
      <4> QED BY <3>6, <4>2, <4>3
    <3> QED BY <3>6, <3>9, <3>10
  <2>5. Dated => src = "mangadex"
    BY <2>1 DEF Dated, Paged
  <2>6. CASE Ends(r, p)
    <3>1. Fill(r, t) /\ (Dated => t = f)
      BY <2>1, <2>4, <2>5, <2>6
    <3> HIDE DEF t
    <3> QED BY <1>5, <1>6, <2>1, <2>2, <3>1
  <2>7. CASE ~Ends(r, p)
    <3>1. rows' = [rows EXCEPT ![r] = t] /\ UNCHANGED <<enumerated, place, since, last>>
      BY <2>1, <2>7
    <3>2. KeyOf(r)' = KeyOf(r)
      BY <2>1 DEF KeyOf, EnumKey
    <3>3. Listed(KeyOf(r), site)' = f
      BY <2>1, <3>2 DEF Listed
    <3> HIDE DEF t, f
    <3>4. rows'[r] = t /\ \A o \in Searchers \ {r} : rows'[o] = rows[o]
      BY <2>2, <3>1 DEF SearchTypeOK
    <3>5. Cut(Listed(KeyOf(r), site), Len(rows[r]))' = Cut(f, Len(t))
      BY <3>3, <3>4 DEF Cut
    <3>6. place'[r] = "walk"
      BY <2>1, <3>1
    <3>7. ExactRows(r)'
      BY <2>1, <2>4, <3>3, <3>4, <3>5, <3>6 DEF ExactRows
    <3>8. ExactOf(r)'
      BY <3>6, <3>7 DEF ExactOf, PageOf, RecentOf
    <3> QED BY <1>1, <1>6, <2>1, <3>1, <3>4, <3>8
  <2> QED BY <2>6, <2>7
<1>7. ASSUME grown = 0, NEW r \in Searchers, FirstPage(r) PROVE Exact'
  <2> DEFINE f == Listed(KeyOf(r), site)
  <2>1. /\ place[r] = "walk" /\ src = "mangafire" /\ UNCHANGED <<src, site, grown, query, answer>>
        /\ IF Len(f) <= FeedPage THEN Fill(r, f)
           ELSE /\ rows' = [rows EXCEPT ![r] = Cut(f, FeedPage)]
                /\ Reach(r, "rest") /\ UNCHANGED <<enumerated, since>>
    BY <1>7 DEF FirstPage
  <2>2. f \in Seq(Release) /\ ~Dated
    BY <2>1, ListedIs DEF SearchTypeOK, SiteOK, Dated
  <2>3. CASE Len(f) <= FeedPage
    <3>1. Fill(r, f)
      BY <2>1, <2>3
    <3> HIDE DEF f
    <3> QED BY <1>5, <1>7, <2>1, <2>2, <3>1
  <2>4. CASE ~(Len(f) <= FeedPage)
    <3>1. /\ place'[r] = "rest" /\ UNCHANGED enumerated
          /\ \A o \in Searchers \ {r} : place'[o] = place[o] /\ rows'[o] = rows[o]
      BY <2>1, <2>4 DEF Reach, SearchTypeOK
    <3>2. ExactOf(r)'
      BY <3>1 DEF ExactOf, ExactRows, PageOf, RecentOf
    <3> QED BY <1>1, <1>7, <2>1, <3>1, <3>2
  <2> QED BY <2>3, <2>4
<1>8. ASSUME grown = 0, NEW r \in Searchers, OtherPages(r) PROVE Exact'
  <2> DEFINE t == rows[r] \o Past(Cut(Listed(KeyOf(r), site), last[r] * FeedPage), FeedPage)
  <2>1. place[r] = "rest" /\ Fill(r, t) /\ UNCHANGED <<src, site, grown, query, answer>>
    BY <1>8 DEF OtherPages
  <2>2. src = "mangafire" /\ ~Dated
    BY <2>1 DEF Asking, AskingOK, Dated
  <2>3. t \in Seq(Release)
    <3>1. SearchBasis'
      BY BasisStays
    <3>2. rows'[r] \in Seq(Release)
      BY <3>1 DEF SearchTypeOK
    <3>3. rows'[r] = t
      BY <2>1 DEF Fill, SearchTypeOK
    <3> QED BY <3>2, <3>3
  <2> HIDE DEF t
  <2> QED BY <1>5, <1>8, <2>1, <2>2, <2>3
<1>9. ASSUME grown = 0, NEW r \in Searchers, List(r) PROVE Exact'
  <2> DEFINE f == Listed(KeyOf(r), site)
  <2>1. place[r] = "walk" /\ Fill(r, f) /\ UNCHANGED <<src, site, grown, query, answer>>
    BY <1>9 DEF List
  <2>2. f \in Seq(Release)
    BY ListedIs DEF SearchTypeOK, SiteOK
  <2>3. Dated => f = Listed(KeyOf(r), site)
    OBVIOUS
  <2> HIDE DEF f
  <2> QED BY <1>5, <1>9, <2>1, <2>2, <2>3
<1>10. ASSUME grown = 0, NEW r \in Searchers, Fails(r) PROVE Exact'
  <2>1. /\ place'[r] = "failed" /\ UNCHANGED <<src, site, grown, enumerated, answer>>
        /\ \A o \in Searchers \ {r} : place'[o] = place[o] /\ query'[o] = query[o] /\ rows'[o] = rows[o]
    BY <1>10 DEF Fails, Reach, SearchTypeOK
  <2>2. ExactOf(r)'
    BY <2>1 DEF ExactOf, ExactRows, PageOf, RecentOf
  <2> QED BY <1>1, <1>10, <2>1, <2>2
<1>11. ASSUME grown = 0, NEW r \in Searchers, Polled(r) PROVE Exact'
  <2>1. /\ place[r] = "poll" /\ rows' = [rows EXCEPT ![r] = RecentRows(query[r])] /\ place' = [place EXCEPT ![r] = "found"]
        /\ UNCHANGED <<src, site, grown, enumerated, query, since, last, answer>>
    BY <1>11 DEF Polled, Reach
  <2>2. query[r].kind = "recent"
    BY <2>1 DEF Asking, AskingOK
  <2>3. /\ rows'[r] = RecentRows(query[r]) /\ place'[r] = "found"
        /\ \A o \in Searchers \ {r} : place'[o] = place[o] /\ rows'[o] = rows[o]
    BY <2>1 DEF SearchTypeOK
  <2>4. RecentRows(query[r])' = RecentRows(query[r])
    BY <2>1, SameRows
  <2>5. ExactRows(r)'
    BY <2>1, <2>2, <2>3, <2>4 DEF ExactRows
  <2>6. ExactOf(r)'
    BY <2>3, <2>5 DEF ExactOf, PageOf, RecentOf
  <2> QED BY <1>1, <1>11, <2>1, <2>3, <2>6
<1>12. ASSUME grown = 0, NEW r \in Searchers, Answer(r) PROVE Exact'
  <2> DEFINE q == query[r]
             mine == IF Declines(q) \/ q.kind = "recent" THEN rows[r] ELSE SearchRows(q, rows[r])
  <2>1. /\ place[r] = "found" /\ answer' = [answer EXCEPT ![r] = Window(q, mine)] /\ place' = [place EXCEPT ![r] = "done"]
        /\ rows' = [rows EXCEPT ![r] = <<>>]
        /\ UNCHANGED <<src, site, grown, enumerated, query, since, last>>
    BY <1>12 DEF Answer, Reach
  <2>2. q \in Queries /\ q \in Question /\ rows[r] \in Seq(Release) /\ site \in Seq(Release) /\ site # <<>>
    BY <2>1, QueriesAsk DEF Asking, AskingOK, SearchTypeOK, SiteOK
  <2>3. /\ answer'[r] = Window(q, mine) /\ place'[r] = "done"
        /\ \A o \in Searchers \ {r} : place'[o] = place[o] /\ rows'[o] = rows[o] /\ answer'[o] = answer[o]
    <3> HIDE DEF mine
    <3> QED BY <2>1 DEF SearchTypeOK
  <2>4. ExactRows(r)
    BY <1>12 DEF Exact, ExactOf
  <2>5. PageOf(r)'
    <3> SUFFICES ASSUME q.kind = "search", Dated, q.offset = 0 \/ src = "mangadex"
                 PROVE  answer'[r] = TheWindow(query[r])'
      BY <2>1 DEF PageOf, Dated
    <3>1. ~Declines(q)
      BY DEF Declines, Dated
    <3>2. rows[r] = Listed(EnumKey(q), site)
      BY <2>1, <2>4 DEF ExactRows, KeyOf
    <3>3. answer'[r] = Window(q, SearchRows(q, Listed(EnumKey(q), site)))
      BY <2>3, <3>1, <3>2
    <3>4. answer'[r] = TheWindow(q)
      BY <2>2, <3>3, PageIsDue DEF Dated
    <3>5. TheWindow(query[r])' = TheWindow(q)
      BY <2>1, SameRows
    <3> QED BY <3>4, <3>5
  <2>6. RecentOf(r)'
    <3> DEFINE due == SearchRows(BigQuery(q), Listed(EnumKey(BigQuery(q)), site))
    <3>1. SearchRows(BigQuery(query[r]), Listed(EnumKey(BigQuery(query[r])), site))' = due
      BY <2>1, SameRows
    <3> HIDE DEF due
    <3> SUFFICES ASSUME q.kind = "recent", q.langs # <<>>, NEW c \in Range(answer'[r]), src # "comix" \/ c.usable
                 PROVE  c \in Range(due)
      BY <2>1, <3>1 DEF RecentOf
    <3>2. mine = rows[r]
      OBVIOUS
    <3>3. Range(Window(q, rows[r])) \subseteq Range(rows[r])
      BY <2>2, WindowIs
    <3>4. c \in Range(RecentRows(q))
      BY <2>1, <2>3, <2>4, <3>2, <3>3 DEF ExactRows
    <3> DEFINE b == BigQuery(q)
    <3>5. b = [q EXCEPT !.kind = "search", !.chapter = 0, !.offset = 0, !.limit = Len(site)]
      BY DEF BigQuery
    <3> HIDE DEF b, mine
    <3>6. c \in Range(SearchRows(b, Listed(EnumKey(b), site)))
      BY <2>2, <3>4, <3>5, PollIsFound DEF SearchTypeOK
    <3> QED BY <3>6 DEF b, due
  <2>7. ExactOf(r)'
    BY <2>3, <2>5, <2>6 DEF ExactOf, ExactRows
  <2> QED BY <1>1, <1>12, <2>1, <2>3, <2>7
<1>13. ASSUME grown = 0, NEW k \in SUBSET Langs, Expire(k) PROVE Exact'
  <2>1. enumerated' = [enumerated EXCEPT ![k] = None]
        /\ UNCHANGED <<src, site, grown, place, query, rows, since, last, answer>>
    BY <1>13 DEF Expire
  <2>2. \A l \in SUBSET Langs : enumerated'[l] # None => enumerated'[l] = enumerated[l]
    BY <2>1 DEF SearchTypeOK
  <2>3. ExactCache /\ \A o \in Searchers : ExactOf(o)
    BY <1>13 DEF Exact
  <2>4. ExactCache'
    BY <2>1, <2>2, <2>3, SameCache
  <2>5. \A o \in Searchers : ExactOf(o)'
    <3> DEFINE O == Searchers
    <3>1. O \in SUBSET Searchers /\ Searchers \ O = {}
      OBVIOUS
    <3>2. \A o \in O : place'[o] = place[o] /\ query'[o] = query[o] /\ rows'[o] = rows[o] /\ answer'[o] = answer[o]
      BY <2>1
    <3> HIDE DEF O
    <3> QED BY <2>1, <2>3, <3>1, <3>2, OthersExact
  <2> QED BY <2>4, <2>5 DEF Exact
\* A site that has grown promises nothing of the kind.
<1>14. ASSUME grown' # 0 PROVE Exact'
  BY <1>14 DEF Exact
<1>15. ASSUME NEW n \in 1..(Len(site) + 1), Publish(n) PROVE Exact'
  <2>1. grown' # 0
    BY <1>15 DEF Publish, SearchTypeOK
  <2> QED BY <1>14, <2>1
<1>16. CASE grown = 0 /\ UNCHANGED searchVars
  <2>1. UNCHANGED <<src, site, grown, enumerated, place, query, rows, since, last, answer>>
    BY <1>16 DEF searchVars
  <2>2. ExactCache /\ \A o \in Searchers : ExactOf(o)
    BY <1>16 DEF Exact
  <2>3. ExactCache'
    BY <2>1, <2>2, SameCache
  <2>4. \A o \in Searchers : ExactOf(o)'
    <3> DEFINE O == Searchers
    <3>1. O \in SUBSET Searchers /\ Searchers \ O = {}
      OBVIOUS
    <3>2. \A o \in O : place'[o] = place[o] /\ query'[o] = query[o] /\ rows'[o] = rows[o] /\ answer'[o] = answer[o]
      BY <2>1
    <3> HIDE DEF O
    <3> QED BY <2>1, <2>2, <3>1, <3>2, OthersExact
  <2> QED BY <2>3, <2>4 DEF Exact
<1>17. CASE grown # 0
  <2>1. grown' # 0
    <3>1. grown' = grown \/ grown' = grown + 1
      BY DEF SearchNext, searchVars, AskFor, Hit, Begin, Walk, FirstPage, OtherPages, List, Fails, Polled, Answer, Expire, Publish
    <3> QED BY <1>17, <3>1 DEF SearchTypeOK
  <2> QED BY <1>14, <2>1
<1> QED
  BY <1>2, <1>3, <1>4, <1>6, <1>7, <1>8, <1>9, <1>10, <1>11, <1>12, <1>13, <1>15, <1>16, <1>17 DEF SearchNext

-----------------------------------------------------------------------------

\* The inductive invariant of the searches.
SearchInv == SearchBasis /\ Sweeping /\ Exact

\* SearchInv holds of every reachable state (EnumerationCache.cached_enumerate, the
\* walks of the sources).
THEOREM SearchInductive == SearchSpec => []SearchInv
<1>1. SearchInit => SearchInv
  BY SearchAssumption, BasisStarts, SweepingStarts, ExactStarts DEF SearchInv
<1>2. SearchInv /\ [SearchNext]_searchVars => SearchInv'
  <2> SUFFICES ASSUME SearchInv, [SearchNext]_searchVars PROVE SearchInv'
    OBVIOUS
  <2>1. SearchBasis /\ Sweeping /\ Exact
    BY DEF SearchInv
  <2>2. SourcesAssumption /\ SearchAssumption
    BY SourcesAssumption, SearchAssumption
  <2> QED BY <2>1, <2>2, BasisStays, SweepingStays, ExactStays DEF SearchInv
<1> QED BY <1>1, <1>2, PTL DEF SearchSpec

\* A search answers with the window that it is asked for, whoever filled the cache;
\* an enumeration has all that the site listed as its walk began, whatever was
\* published meanwhile; and what a poll brings a search finds (search, cached_enumerate,
\* recent of the sources).
THEOREM SearchesAreSound == SearchSpec => []SearchIsSound
<1>1. SearchInv => SearchIsSound
  BY ExactAnswers DEF SearchInv, Sweeping, SearchIsSound
<1> QED BY <1>1, SearchInductive, PTL

=============================================================================
