---------------------------- MODULE Jobs_proofs ----------------------------
(***************************************************************************)
(* What TLAPS proves of the two parts of a job that Downloads takes as one *)
(* step.  Of JobScheduler, for any number of tasks and sources and any     *)
(* bounds: permits are conserved, none stays free while somebody waits for *)
(* it, and the jobs of a source start in the order in which they asked.    *)
(* Of PageFetch, for any pages, sizes and attempts: a manifest is packaged *)
(* whole, and its progress counts the pages of the pass under way.         *)
(***************************************************************************)
EXTENDS JobScheduler, PageFetch, SequencesExt, FiniteSetTheorems, NaturalsInduction, WellFoundedInduction, TLAPS

-----------------------------------------------------------------------------
(* Queues.                                                                 *)

Precedes(s, i, k) == \E m, n \in DOMAIN s : m < n /\ s[m] = i /\ s[n] = k

\* s2 is s without those in gone and with those in come behind them, in order.
Follows(s, s2, gone, come) ==
  /\ IsInjective(s2) /\ ToSet(s2) = (ToSet(s) \ gone) \cup come
  /\ come \cap ToSet(s) = {}
  /\ \A i, k : Precedes(s, i, k) /\ i \notin gone /\ k \notin gone => Precedes(s2, i, k)
  /\ \A i \in ToSet(s) \ gone : \A k \in come : Precedes(s2, i, k)

LEMMA Stays ==
  ASSUME NEW S, NEW s \in Seq(S), IsInjective(s)
  PROVE  Follows(s, s, {}, {})
BY DEF Follows, IsInjective

LEMMA Joins ==
  ASSUME NEW S, NEW s \in Seq(S), IsInjective(s), NEW e \in S, e \notin ToSet(s)
  PROVE  Append(s, e) \in Seq(S) /\ Follows(s, Append(s, e), {}, {e})
<1> DEFINE s2 == Append(s, e)
<1>1. /\ s2 \in Seq(S) /\ DOMAIN s2 = 1..(Len(s) + 1) /\ DOMAIN s = 1..Len(s) /\ Len(s) \in Nat
      /\ s2[Len(s) + 1] = e /\ \A n \in DOMAIN s : n \in DOMAIN s2 /\ s2[n] = s[n]
  OBVIOUS
<1> HIDE DEF s2
<1>2. \A n \in DOMAIN s2 : n \in DOMAIN s \/ n = Len(s) + 1
  BY <1>1
<1>3. \A n \in DOMAIN s : s[n] # e
  BY DEF ToSet
<1>4. IsInjective(s2)
  BY <1>1, <1>2, <1>3 DEF IsInjective
<1>5. ToSet(s2) = (ToSet(s) \ {}) \cup {e}
  BY <1>1, <1>2 DEF ToSet
<1>6. \A i, k : Precedes(s, i, k) => Precedes(s2, i, k)
  BY <1>1 DEF Precedes
<1>7. \A i \in ToSet(s) : Precedes(s2, i, e)
  BY <1>1 DEF ToSet, Precedes
<1> QED BY <1>1, <1>4, <1>5, <1>6, <1>7 DEF Follows, s2

LEMMA Leaves ==
  ASSUME NEW S, NEW s \in Seq(S), IsInjective(s), s # <<>>
  PROVE  Tail(s) \in Seq(S) /\ Follows(s, Tail(s), {Head(s)}, {})
<1> DEFINE s2 == Tail(s)
<1>1. /\ s2 \in Seq(S) /\ DOMAIN s2 = 1..(Len(s) - 1) /\ DOMAIN s = 1..Len(s) /\ Len(s) \in Nat \ {0}
      /\ Head(s) = s[1] /\ \A n \in DOMAIN s2 : n + 1 \in DOMAIN s /\ s2[n] = s[n + 1]
  OBVIOUS
<1> HIDE DEF s2
<1>2. \A n \in DOMAIN s : n = 1 \/ (n - 1 \in DOMAIN s2 /\ s2[n - 1] = s[n])
  BY <1>1
<1>3. IsInjective(s2)
  BY <1>1 DEF IsInjective
<1>4. ToSet(s2) = (ToSet(s) \ {Head(s)}) \cup {}
  <2>1. ASSUME NEW n \in DOMAIN s2 PROVE s2[n] \in ToSet(s) /\ s2[n] # Head(s)
    BY <1>1, <2>1 DEF ToSet, IsInjective
  <2>2. ASSUME NEW n \in DOMAIN s, s[n] # Head(s) PROVE s[n] \in ToSet(s2)
    BY <1>1, <1>2, <2>2 DEF ToSet
  <2> QED BY <2>1, <2>2 DEF ToSet
<1>5. ASSUME NEW i, NEW k, Precedes(s, i, k), i # Head(s) PROVE Precedes(s2, i, k)
  <2>1. PICK m, n \in DOMAIN s : m < n /\ s[m] = i /\ s[n] = k
    BY <1>5 DEF Precedes
  <2>2. m # 1 /\ n # 1
    BY <1>1, <1>5, <2>1
  <2> QED BY <1>1, <1>2, <2>1, <2>2 DEF Precedes
<1> QED BY <1>1, <1>3, <1>4, <1>5 DEF Follows, s2

\* The first n of a queue leave it.
LEMMA Skips ==
  ASSUME NEW S, NEW s \in Seq(S), IsInjective(s), NEW n \in 0..Len(s)
  PROVE  /\ SubSeq(s, n + 1, Len(s)) \in Seq(S)
         /\ Follows(s, SubSeq(s, n + 1, Len(s)), ToSet(SubSeq(s, 1, n)), {})
         /\ SubSeq(s, 1, n) \in Seq(S) /\ IsInjective(SubSeq(s, 1, n))
         /\ \A i : i \in ToSet(SubSeq(s, 1, n)) <=> \E m \in 1..n : s[m] = i
         /\ ToSet(SubSeq(s, 1, n)) \subseteq ToSet(s)
         /\ \A i, k : k \in ToSet(SubSeq(s, 1, n)) /\ Precedes(s, i, k) =>
              i \in ToSet(SubSeq(s, 1, n)) /\ Precedes(SubSeq(s, 1, n), i, k)
         /\ Len(SubSeq(s, n + 1, Len(s))) = Len(s) - n /\ Len(SubSeq(s, 1, n)) = n
<1> DEFINE p == SubSeq(s, 1, n)
           q == SubSeq(s, n + 1, Len(s))
<1>1. /\ Len(s) \in Nat /\ n \in Nat /\ n <= Len(s) /\ DOMAIN s = 1..Len(s)
      /\ p \in Seq(S) /\ DOMAIN p = 1..n /\ Len(p) = n /\ \A m \in 1..n : p[m] = s[m]
      /\ q \in Seq(S) /\ DOMAIN q = 1..(Len(s) - n) /\ Len(q) = Len(s) - n
      /\ \A m \in 1..(Len(s) - n) : q[m] = s[m + n]
  OBVIOUS
<1> HIDE DEF p, q
<1>a. \A m \in 1..n : m \in DOMAIN s
  BY <1>1
<1>b. \A m \in 1..(Len(s) - n) : m + n \in DOMAIN s
  BY <1>1
<1>2. IsInjective(p) /\ \A i : i \in ToSet(p) <=> \E m \in 1..n : s[m] = i
  <2>1. IsInjective(p)
    BY <1>1, <1>a DEF IsInjective
  <2>2. ASSUME NEW i PROVE i \in ToSet(p) <=> \E m \in 1..n : s[m] = i
    BY <1>1 DEF ToSet
  <2> QED BY <2>1, <2>2
<1>3. ToSet(p) \subseteq ToSet(s)
  BY <1>1 DEF ToSet
<1>4. IsInjective(q)
  <2>1. ASSUME NEW a \in DOMAIN q, NEW b \in DOMAIN q, q[a] = q[b] PROVE a = b
    <3>1. a + n \in DOMAIN s /\ b + n \in DOMAIN s /\ s[a + n] = s[b + n]
      BY <1>1, <1>b, <2>1
    <3>2. a + n = b + n
      BY <3>1 DEF IsInjective
    <3> QED BY <1>1, <3>2
  <2> QED BY <2>1 DEF IsInjective
<1>5. \A m \in DOMAIN s : m \in 1..n \/ (m - n \in DOMAIN q /\ q[m - n] = s[m])
  BY <1>1
<1>6. ToSet(q) = (ToSet(s) \ ToSet(p)) \cup {}
  <2>1. ASSUME NEW m \in DOMAIN q PROVE q[m] \in ToSet(s) /\ q[m] \notin ToSet(p)
    <3>1. m + n \in DOMAIN s /\ q[m] = s[m + n] /\ m + n \notin 1..n
      BY <1>1
    <3> QED BY <1>1, <1>2, <3>1 DEF ToSet, IsInjective
  <2>2. ASSUME NEW m \in DOMAIN s, s[m] \notin ToSet(p) PROVE s[m] \in ToSet(q)
    BY <1>2, <1>5, <2>2 DEF ToSet
  <2> QED BY <2>1, <2>2 DEF ToSet
<1>7. ASSUME NEW i, NEW k, Precedes(s, i, k), i \notin ToSet(p) PROVE Precedes(q, i, k)
  <2>1. PICK a, b \in DOMAIN s : a < b /\ s[a] = i /\ s[b] = k
    BY <1>7 DEF Precedes
  <2>2. a \notin 1..n /\ b \notin 1..n
    BY <1>1, <1>2, <1>7, <2>1
  <2>3. a - n \in DOMAIN q /\ b - n \in DOMAIN q /\ a - n < b - n /\ q[a - n] = i /\ q[b - n] = k
    BY <1>1, <1>5, <2>1, <2>2
  <2> QED BY <2>3 DEF Precedes
<1>8. ASSUME NEW i, NEW k, k \in ToSet(p), Precedes(s, i, k)
      PROVE  i \in ToSet(p) /\ Precedes(p, i, k)
  <2>1. PICK a, b \in DOMAIN s : a < b /\ s[a] = i /\ s[b] = k
    BY <1>8 DEF Precedes
  <2>2. b \in 1..n
    <3>1. PICK m \in 1..n : s[m] = k
      BY <1>2, <1>8
    <3>2. m \in DOMAIN s
      BY <1>a
    <3> QED BY <2>1, <3>1, <3>2 DEF IsInjective
  <2>3. a \in 1..n
    BY <1>1, <2>1, <2>2
  <2>4. a \in DOMAIN p /\ b \in DOMAIN p /\ p[a] = i /\ p[b] = k
    BY <1>1, <2>1, <2>2, <2>3
  <2>5. i \in ToSet(p)
    BY <2>4 DEF ToSet
  <2>6. Precedes(p, i, k)
    BY <2>1, <2>4 DEF Precedes
  <2> QED BY <2>5, <2>6
<1>9. Follows(s, q, ToSet(p), {})
  BY <1>4, <1>6, <1>7 DEF Follows
<1> QED BY <1>1, <1>2, <1>3, <1>8, <1>9 DEF p, q

LEMMA Concatenates ==
  ASSUME NEW S, NEW s \in Seq(S), IsInjective(s), NEW t \in Seq(S), IsInjective(t),
         ToSet(s) \cap ToSet(t) = {}
  PROVE  /\ s \o t \in Seq(S) /\ Follows(s, s \o t, {}, ToSet(t))
         /\ \A i, k : Precedes(t, i, k) => Precedes(s \o t, i, k)
         /\ s \o t = <<>> => s = <<>> /\ t = <<>>
<1> DEFINE u == s \o t
<1>1. /\ u \in Seq(S) /\ Len(s) \in Nat /\ Len(t) \in Nat
      /\ DOMAIN u = 1..(Len(s) + Len(t)) /\ DOMAIN s = 1..Len(s) /\ DOMAIN t = 1..Len(t)
      /\ Len(u) = Len(s) + Len(t)
      /\ \A n \in DOMAIN s : u[n] = s[n]
      /\ \A n \in DOMAIN t : u[Len(s) + n] = t[n]
  OBVIOUS
<1> HIDE DEF u
<1>2. \A n \in DOMAIN u : n \in DOMAIN s \/ (n - Len(s) \in DOMAIN t /\ u[n] = t[n - Len(s)])
  BY <1>1
<1>a. \A n \in DOMAIN t : Len(s) + n \in DOMAIN u
  BY <1>1
<1>b. \A n \in DOMAIN s : n \in DOMAIN u
  BY <1>1
<1>3. \A m \in DOMAIN s, n \in DOMAIN t : s[m] # t[n]
  BY DEF ToSet
<1>4. IsInjective(u)
  <2> SUFFICES ASSUME NEW m \in DOMAIN u, NEW n \in DOMAIN u, u[m] = u[n] PROVE m = n
    BY DEF IsInjective
  <2>1. CASE m \in DOMAIN s /\ n \in DOMAIN s
    BY <1>1, <2>1 DEF IsInjective
  <2>2. CASE m \notin DOMAIN s /\ n \notin DOMAIN s
    <3>1. m - Len(s) = n - Len(s)
      BY <1>2, <2>2 DEF IsInjective
    <3> QED BY <1>1, <3>1
  <2>3. CASE (m \in DOMAIN s /\ n \notin DOMAIN s) \/ (m \notin DOMAIN s /\ n \in DOMAIN s)
    BY <1>1, <1>2, <1>3, <2>3
  <2> QED BY <2>1, <2>2, <2>3
<1>5. ToSet(u) = (ToSet(s) \ {}) \cup ToSet(t)
  BY <1>1, <1>2, <1>a, <1>b DEF ToSet
<1>6. \A i, k : Precedes(s, i, k) => Precedes(u, i, k)
  BY <1>1, <1>b DEF Precedes
<1>7. ASSUME NEW i, NEW k, Precedes(t, i, k) PROVE Precedes(u, i, k)
  <2>1. PICK a, b \in DOMAIN t : a < b /\ t[a] = i /\ t[b] = k
    BY <1>7 DEF Precedes
  <2>2. Len(s) + a < Len(s) + b /\ u[Len(s) + a] = i /\ u[Len(s) + b] = k
    BY <1>1, <2>1
  <2> QED BY <1>a, <2>2 DEF Precedes
<1>8. ASSUME NEW a \in DOMAIN s, NEW b \in DOMAIN t PROVE Precedes(u, s[a], t[b])
  <2>1. a < Len(s) + b /\ u[a] = s[a] /\ u[Len(s) + b] = t[b]
    BY <1>1
  <2> QED BY <1>a, <1>b, <2>1 DEF Precedes
<1>9. \A i \in ToSet(s), k \in ToSet(t) : Precedes(u, i, k)
  BY <1>8 DEF ToSet
<1>c. Follows(s, u, {}, ToSet(t))
  BY <1>4, <1>5, <1>6, <1>9 DEF Follows
<1>d. u = <<>> => s = <<>> /\ t = <<>>
  BY <1>1
<1> QED BY <1>1, <1>7, <1>c, <1>d DEF u

\* Two changes of a queue, one after the other.
LEMMA Composes ==
  ASSUME NEW s, NEW s2, NEW s3, NEW gone, NEW come, NEW come2,
         Follows(s, s2, gone, come), Follows(s2, s3, {}, come2), come2 \cap ToSet(s) = {}
  PROVE  Follows(s, s3, gone, come \cup come2)
BY DEF Follows

\* Who is not in the queue may be counted among the gone.
LEMMA Widens ==
  ASSUME NEW s, NEW s2, NEW gone, NEW come, NEW gone2,
         Follows(s, s2, gone, come), gone \subseteq gone2,
         gone2 \cap ToSet(s) \subseteq gone
  PROVE  Follows(s, s2, gone2, come)
BY DEF Follows

-----------------------------------------------------------------------------
(* The inductive invariant.                                                *)

Awaits(i, x) == \/ at[i] = "wait_first" /\ x = SourceOf[i]
                \/ at[i] = "wait_second" /\ x = Global
Due == {i \in Tasks : at[i] \in {"spawned", "woken_first", "woken_second"}}

\* The queues hold those whose point says so, once.
QueuesMatch ==
  /\ \A x \in Sems : IsInjective(waiters[x]) /\ ToSet(waiters[x]) = {i \in Tasks : Awaits(i, x)}
  /\ IsInjective(ready) /\ ToSet(ready) = Due

\* A permit that is free while somebody waits for it is on its way: whoever was
\* woken last wakes the next.
NothingSpare == \A x \in Sems : waiters[x] # <<>> /\ value[x] # 0 => Woken(x) # {}

Conserved ==
  \A x \in Sems : IsFiniteSet(Holders(x)) /\ value[x] + Cardinality(Holders(x)) = Bound(x)

\* How far a task is on its way to the permits; on a par, the queue decides.
Rank == [wait_first |-> 0, woken_first |-> 1, wait_second |-> 2, woken_second |-> 3,
         running |-> 4, done |-> 4]
Line(i) == IF at[i] = "wait_first" THEN waiters[SourceOf[i]]
           ELSE IF at[i] = "wait_second" THEN waiters[Global] ELSE ready
Ahead(i, k) ==
  \/ Rank[at[i]] > Rank[at[k]]
  \/ Passed(i) /\ Passed(k)
  \/ at[i] = at[k] /\ Precedes(Line(i), i, k)
Started(i) == at[i] \notin {"new", "spawned"}
InOrder ==
  /\ IsInjective(begun) /\ \A n \in DOMAIN begun : Started(begun[n])
  /\ \A m, n \in DOMAIN begun :
       m < n /\ SourceOf[begun[m]] = SourceOf[begun[n]] => Ahead(begun[m], begun[n])

SInv == SchedulerTypeOK /\ QueuesMatch /\ NothingSpare /\ Conserved /\ InOrder

-----------------------------------------------------------------------------
LEMMA Permits ==
  ASSUME SchedulerAssumption, NEW j \in Tasks
  PROVE  /\ First(j) = SourceOf[j] /\ Second(j) = Global
         /\ First(j) \in Sems /\ Second(j) \in Sems /\ First(j) # Second(j)
BY DEF SchedulerAssumption, First, Second, Order, Sems

LEMMA Bounds ==
  ASSUME SchedulerAssumption, NEW x \in Sems
  PROVE  Bound(x) \in Nat \ {0}
BY DEF SchedulerAssumption, Sems, Bound, PerSourceBound

\* A step of the task j, in which the tasks in woken get the permit they wait for.
Moved(j, q, woken) ==
  /\ at' = [i \in Tasks |-> IF i = j THEN q ELSE IF i \in woken THEN WokenPoint[at[i]] ELSE at[i]]
  /\ woken \subseteq {i \in Tasks \ {j} : at[i] \in {"wait_first", "wait_second"}}
  /\ \A x \in Sems :
       Follows(waiters[x], waiters'[x], woken,
         IF (q = "wait_first" /\ x = SourceOf[j]) \/ (q = "wait_second" /\ x = Global)
         THEN {j} ELSE {})
  /\ Follows(ready, ready', {j}, woken \cup (IF q = "spawned" THEN {j} ELSE {}))
  /\ \A x \in Sems : \A i, k :
       k \in woken /\ Precedes(waiters[x], i, k) => i \in woken /\ Precedes(ready', i, k)

\* Where everybody is after such a step.
LEMMA Places ==
  ASSUME SchedulerTypeOK, NEW j \in Tasks, NEW q, NEW woken, Moved(j, q, woken)
  PROVE  /\ at'[j] = q /\ j \notin woken
         /\ \A i \in woken : \/ at[i] = "wait_first" /\ at'[i] = "woken_first"
                             \/ at[i] = "wait_second" /\ at'[i] = "woken_second"
         /\ \A i \in Tasks \ {j} : i \notin woken => at'[i] = at[i]
BY DEF Moved, WokenPoint

LEMMA MatchKept ==
  ASSUME SchedulerTypeOK, SchedulerAssumption, QueuesMatch, NEW j \in Tasks,
         NEW q \in {"spawned", "wait_first", "wait_second", "running", "done"},
         NEW woken, Moved(j, q, woken), at[j] \notin {"wait_first", "wait_second"}
  PROVE  QueuesMatch'
<1>0. woken \subseteq Tasks
  BY DEF Moved
<1>1. /\ at'[j] = q /\ j \notin woken
      /\ \A i \in woken : \/ at[i] = "wait_first" /\ at'[i] = "woken_first"
                          \/ at[i] = "wait_second" /\ at'[i] = "woken_second"
      /\ \A i \in Tasks \ {j} : i \notin woken => at'[i] = at[i]
  BY Places
<1>2. ASSUME NEW x \in Sems
      PROVE  IsInjective(waiters'[x]) /\ ToSet(waiters'[x]) = {i \in Tasks : Awaits(i, x)'}
  <2> DEFINE come == IF (q = "wait_first" /\ x = SourceOf[j]) \/ (q = "wait_second" /\ x = Global)
                     THEN {j} ELSE {}
  <2>1. /\ IsInjective(waiters'[x]) /\ ToSet(waiters'[x]) = (ToSet(waiters[x]) \ woken) \cup come
        /\ ToSet(waiters[x]) = {i \in Tasks : Awaits(i, x)}
    BY DEF Moved, Follows, QueuesMatch
  <2>2. ASSUME NEW i \in Tasks
        PROVE  Awaits(i, x)' <=> i \in (ToSet(waiters[x]) \ woken) \cup come
    <3>1. CASE i = j
      BY <1>1, <2>1, <3>1 DEF Awaits
    <3>2. CASE i \in woken
      BY <1>1, <2>1, <3>2 DEF Awaits
    <3>3. CASE i # j /\ i \notin woken
      BY <1>1, <2>1, <3>3 DEF Awaits
    <3> QED BY <3>1, <3>2, <3>3
  <2>3. (ToSet(waiters[x]) \ woken) \cup come \subseteq Tasks
    BY <2>1
  <2> QED BY <2>1, <2>2, <2>3
<1>3. IsInjective(ready') /\ ToSet(ready') = Due'
  <2>1. /\ IsInjective(ready')
        /\ ToSet(ready') = (Due \ {j}) \cup (woken \cup (IF q = "spawned" THEN {j} ELSE {}))
    BY DEF Moved, Follows, QueuesMatch
  <2> QED BY <1>0, <1>1, <2>1 DEF Due
<1> QED BY <1>2, <1>3 DEF QueuesMatch

\* Whoever is ahead stays ahead while another task moves.
LEMMA AheadKept ==
  ASSUME SchedulerTypeOK, SchedulerAssumption, QueuesMatch, NEW j \in Tasks, NEW q, NEW woken,
         Moved(j, q, woken),
         NEW i \in Tasks \ {j}, NEW k \in Tasks \ {j}, SourceOf[i] = SourceOf[k],
         Started(i), Started(k), Ahead(i, k)
  PROVE  Ahead(i, k)'
<1>1. /\ \A h \in woken : \/ at[h] = "wait_first" /\ at'[h] = "woken_first"
                          \/ at[h] = "wait_second" /\ at'[h] = "woken_second"
      /\ \A h \in Tasks \ {j} : h \notin woken => at'[h] = at[h]
  BY Places
<1>2. {at[i], at[k], at'[i], at'[k]} \subseteq
        {"wait_first", "woken_first", "wait_second", "woken_second", "running", "done"}
  BY <1>1 DEF SchedulerTypeOK, Points, Started
<1>3. SourceOf[i] \in Sems /\ Global \in Sems
  BY DEF SchedulerAssumption, Sems
<1>4. CASE Passed(i) /\ Passed(k)
  BY <1>1, <1>4 DEF Passed, Ahead
<1>5. CASE Rank[at[i]] > Rank[at[k]]
  <2>1. CASE k \notin woken \/ Rank[at'[i]] > Rank[at'[k]]
    BY <1>1, <1>2, <1>5, <2>1 DEF Rank, Ahead
  <2>2. CASE k \in woken /\ ~(Rank[at'[i]] > Rank[at'[k]])
    <3>1. at'[i] = at'[k] /\ at'[i] = at[i] /\ at[i] \in {"woken_first", "woken_second"}
      BY <1>1, <1>2, <1>5, <2>2 DEF Rank
    <3>2. i \in ToSet(ready) \ {j}
      BY <3>1 DEF QueuesMatch, Due
    <3>3. Precedes(ready', i, k)
      BY <2>2, <3>2 DEF Moved, Follows
    <3> QED BY <3>1, <3>3 DEF Ahead, Line
  <2> QED BY <2>1, <2>2
<1>6. CASE at[i] = at[k] /\ Precedes(Line(i), i, k)
  <2>1. CASE k \in woken
    <3>1. \E x \in Sems : Precedes(waiters[x], i, k)
      BY <1>1, <1>3, <1>6, <2>1 DEF Line
    <3>2. i \in woken /\ Precedes(ready', i, k)
      BY <2>1, <3>1 DEF Moved
    <3> QED BY <1>1, <1>6, <2>1, <3>2 DEF Ahead, Line
  <2>2. CASE k \notin woken /\ i \in woken
    BY <1>1, <1>6, <2>2 DEF Ahead, Rank
  <2>3. CASE k \notin woken /\ i \notin woken
    <3>1. at'[i] = at[i] /\ at'[k] = at[k]
      BY <1>1, <2>3
    <3>2. CASE at[i] \in {"wait_first", "wait_second"}
      <4>1. PICK x \in Sems : Line(i) = waiters[x] /\ Line(i)' = waiters'[x]
        BY <1>3, <3>1, <3>2 DEF Line
      <4>2. Precedes(waiters'[x], i, k)
        BY <1>6, <2>3, <4>1 DEF Moved, Follows
      <4> QED BY <1>6, <3>1, <4>1, <4>2 DEF Ahead
    <3>3. CASE at[i] \notin {"wait_first", "wait_second"}
      <4>1. Precedes(ready', i, k)
        BY <1>6, <3>3 DEF Moved, Follows, Line
      <4> QED BY <1>6, <3>1, <3>3, <4>1 DEF Ahead, Line
    <3> QED BY <3>2, <3>3
  <2> QED BY <2>1, <2>2, <2>3
<1> QED BY <1>4, <1>5, <1>6 DEF Ahead

\* The order of those that have begun, when it is not changed itself.
LEMMA OrderKept ==
  ASSUME SchedulerTypeOK, SchedulerTypeOK', SchedulerAssumption, QueuesMatch, InOrder, NEW j \in Tasks,
         NEW q, NEW woken, Moved(j, q, woken), begun' = begun,
         Started(j) =>
           /\ q \notin {"new", "spawned"}
           /\ \A i \in Tasks \ {j} :
                Started(i) /\ SourceOf[i] = SourceOf[j] /\ Ahead(i, j) => Ahead(i, j)'
           /\ \A k \in Tasks \ {j} :
                Started(k) /\ SourceOf[k] = SourceOf[j] /\ Ahead(j, k) => Ahead(j, k)'
  PROVE  InOrder'
<1>1. /\ at'[j] = q /\ j \notin woken
      /\ \A i \in woken : \/ at[i] = "wait_first" /\ at'[i] = "woken_first"
                          \/ at[i] = "wait_second" /\ at'[i] = "woken_second"
      /\ \A i \in Tasks \ {j} : i \notin woken => at'[i] = at[i]
  BY Places
<1>2. \A n \in DOMAIN begun : begun[n] \in Tasks /\ Started(begun[n])
  BY DEF InOrder, SchedulerTypeOK
<1>3. ASSUME NEW n \in DOMAIN begun PROVE Started(begun[n])'
  BY <1>1, <1>2 DEF Started
<1>4. ASSUME NEW m \in DOMAIN begun, NEW n \in DOMAIN begun, m < n,
             SourceOf[begun[m]] = SourceOf[begun[n]]
      PROVE  Ahead(begun[m], begun[n])'
  <2>1. begun[m] # begun[n] /\ Ahead(begun[m], begun[n])
    <3>1. m # n
      BY <1>4 DEF SchedulerTypeOK
    <3> QED BY <1>4, <3>1 DEF InOrder, IsInjective
  <2>2. CASE begun[n] = j
    BY <1>2, <1>4, <2>1, <2>2
  <2>3. CASE begun[m] = j
    BY <1>2, <1>4, <2>1, <2>3
  <2>4. CASE begun[m] # j /\ begun[n] # j
    BY <1>2, <1>4, <2>1, <2>4, AheadKept
  <2> QED BY <2>2, <2>3, <2>4
<1> QED BY <1>3, <1>4 DEF InOrder

\* The order of those that have begun, with one more at its end.
LEMMA OrderGrows ==
  ASSUME SchedulerTypeOK, SchedulerTypeOK', SchedulerAssumption, QueuesMatch, InOrder, NEW j \in Tasks,
         NEW q, NEW woken, Moved(j, q, woken), begun' = Append(begun, j),
         at[j] = "spawned", q \notin {"new", "spawned"},
         \A i \in Tasks \ {j} : Started(i) /\ SourceOf[i] = SourceOf[j] => Ahead(i, j)'
  PROVE  InOrder'
<1>1. /\ at'[j] = q /\ j \notin woken
      /\ \A i \in woken : \/ at[i] = "wait_first" /\ at'[i] = "woken_first"
                          \/ at[i] = "wait_second" /\ at'[i] = "woken_second"
      /\ \A i \in Tasks \ {j} : i \notin woken => at'[i] = at[i]
  BY Places
<1>2. /\ Len(begun) \in Nat /\ DOMAIN begun = 1..Len(begun) /\ DOMAIN begun' = 1..(Len(begun) + 1)
      /\ begun'[Len(begun) + 1] = j
      /\ \A n \in DOMAIN begun : /\ begun'[n] = begun[n] /\ begun[n] \in Tasks \ {j}
                                 /\ Started(begun[n])
  <2>1. begun \in Seq(Tasks) /\ \A n \in DOMAIN begun : Started(begun[n])
    BY DEF SchedulerTypeOK, InOrder
  <2> QED BY <2>1 DEF Started
<1>3. \A n \in DOMAIN begun' : n \in DOMAIN begun \/ n = Len(begun) + 1
  BY <1>2
<1>4. ASSUME NEW n \in DOMAIN begun', NEW i, i = begun'[n] PROVE Started(i)'
  BY <1>1, <1>2, <1>3, <1>4 DEF Started
<1>5. IsInjective(begun')
  <2>1. IsInjective(begun)
    BY DEF InOrder
  <2> QED BY <1>2, <1>3, <2>1 DEF IsInjective
<1>6. ASSUME NEW m \in DOMAIN begun', NEW n \in DOMAIN begun', m < n,
             NEW i, NEW k, i = begun'[m], k = begun'[n], SourceOf[i] = SourceOf[k]
      PROVE  Ahead(i, k)'
  <2>1. m \in DOMAIN begun /\ i = begun[m] /\ i \in Tasks \ {j} /\ Started(i)
    BY <1>2, <1>3, <1>6
  <2>2. CASE n \in DOMAIN begun
    <3>1. k = begun[n] /\ k \in Tasks \ {j} /\ Started(k)
      BY <1>2, <1>6, <2>2
    <3>2. Ahead(i, k)
      BY <1>6, <2>1, <2>2, <3>1 DEF InOrder
    <3> QED BY <1>6, <2>1, <3>1, <3>2, AheadKept
  <2>3. CASE n = Len(begun) + 1
    BY <1>2, <1>6, <2>1, <2>3
  <2> QED BY <1>3, <2>2, <2>3
<1> QED BY <1>4, <1>5, <1>6 DEF InOrder

-----------------------------------------------------------------------------
(* The steps are of that form.                                             *)

\* Whoever is at the head of the loop is in front of everybody that is due.
LEMMA Heads ==
  ASSUME SchedulerTypeOK, SchedulerAssumption, QueuesMatch, NEW j \in Tasks, NEW p, Resumes(j, p)
  PROVE  /\ at[j] = p /\ ready # <<>>
         /\ Tail(ready) \in Seq(Tasks) /\ Follows(ready, Tail(ready), {j}, {})
         /\ \A i : ~Precedes(ready, i, j)
<1>1. ready \in Seq(Tasks) /\ IsInjective(ready) /\ ready # <<>> /\ Head(ready) = j /\ at[j] = p
  BY DEF SchedulerTypeOK, QueuesMatch, Resumes
<1>2. Tail(ready) \in Seq(Tasks) /\ Follows(ready, Tail(ready), {j}, {})
  BY <1>1, Leaves
<1>3. ASSUME NEW i, Precedes(ready, i, j) PROVE FALSE
  <2>1. PICK m, n \in DOMAIN ready : m < n /\ ready[n] = j
    BY <1>3 DEF Precedes
  <2>2. DOMAIN ready = 1..Len(ready) /\ Len(ready) \in Nat /\ ready[1] = j
    BY <1>1
  <2>3. 1 \in DOMAIN ready /\ n # 1
    BY <2>1, <2>2
  <2> QED BY <1>1, <2>1, <2>2, <2>3 DEF IsInjective
<1> QED BY <1>1, <1>2, <1>3

LEMMA QueueIs ==
  ASSUME SchedulerTypeOK, QueuesMatch, NEW x \in Sems
  PROVE  /\ waiters[x] \in Seq(Tasks) /\ IsInjective(waiters[x])
         /\ \A i : i \in ToSet(waiters[x]) <=> i \in Tasks /\ Awaits(i, x)
         /\ Follows(waiters[x], waiters[x], {}, {})
         /\ \A i \in Tasks : Awaits(i, x) => waiters[x] # <<>>
<1>1. waiters[x] \in Seq(Tasks) /\ IsInjective(waiters[x])
  BY DEF SchedulerTypeOK, QueuesMatch
<1>2. ToSet(waiters[x]) = {i \in Tasks : Awaits(i, x)}
  BY DEF QueuesMatch
<1>3. ASSUME NEW i \in Tasks, Awaits(i, x) PROVE waiters[x] # <<>>
  <2>1. i \in ToSet(waiters[x])
    BY <1>2, <1>3
  <2> QED BY <2>1 DEF ToSet
<1> QED BY <1>1, <1>2, <1>3, Stays

\* A task that waits for nothing can join a queue.
LEMMA Waits ==
  ASSUME SchedulerTypeOK, SchedulerAssumption, QueuesMatch, NEW j \in Tasks,
         at[j] \notin {"wait_first", "wait_second"},
         NEW x \in Sems, NEW p \in {"wait_first", "wait_second"},
         p = "wait_first" => x = SourceOf[j], p = "wait_second" => x = Global,
         waiters' = [waiters EXCEPT ![x] = Append(@, j)]
  PROVE  /\ waiters' \in [Sems -> Seq(Tasks)]
         /\ \A y \in Sems :
              Follows(waiters[y], waiters'[y], {},
                IF (p = "wait_first" /\ y = SourceOf[j]) \/ (p = "wait_second" /\ y = Global)
                THEN {j} ELSE {})
<1>1. j \notin ToSet(waiters[x])
  BY QueueIs DEF Awaits
<1>2. Append(waiters[x], j) \in Seq(Tasks) /\ Follows(waiters[x], Append(waiters[x], j), {}, {j})
  BY <1>1, QueueIs, Joins
<1>3. waiters'[x] = Append(waiters[x], j) /\ \A y \in Sems \ {x} : waiters'[y] = waiters[y]
  BY DEF SchedulerTypeOK
<1>4. waiters' \in [Sems -> Seq(Tasks)]
  BY <1>2 DEF SchedulerTypeOK
<1>5. ASSUME NEW y \in Sems
      PROVE  Follows(waiters[y], waiters'[y], {},
               IF (p = "wait_first" /\ y = SourceOf[j]) \/ (p = "wait_second" /\ y = Global)
               THEN {j} ELSE {})
  <2>1. CASE y = x
    BY <1>2, <1>3, <2>1
  <2>2. CASE y # x
    <3>1. Follows(waiters[y], waiters'[y], {}, {})
      BY <1>3, <2>2, QueueIs
    <3> QED BY <2>2, <3>1
  <2> QED BY <2>1, <2>2
<1> QED BY <1>4, <1>5

\* Nobody waits: the queues stay.
LEMMA NobodyJoins ==
  ASSUME SchedulerTypeOK, QueuesMatch, NEW j, NEW q, q \notin {"wait_first", "wait_second"},
         waiters' = waiters
  PROVE  \A y \in Sems :
           Follows(waiters[y], waiters'[y], {},
             IF (q = "wait_first" /\ y = SourceOf[j]) \/ (q = "wait_second" /\ y = Global)
             THEN {j} ELSE {})
BY QueueIs

\* A step that wakes nobody.
LEMMA LoneMove ==
  ASSUME SchedulerTypeOK, QueuesMatch, NEW j \in Tasks, NEW q,
         at' = [at EXCEPT ![j] = q], Follows(ready, ready', {j}, IF q = "spawned" THEN {j} ELSE {}),
         \A y \in Sems :
           Follows(waiters[y], waiters'[y], {},
             IF (q = "wait_first" /\ y = SourceOf[j]) \/ (q = "wait_second" /\ y = Global)
             THEN {j} ELSE {})
  PROVE  Moved(j, q, {})
<1>1. at' = [i \in Tasks |-> IF i = j THEN q ELSE IF i \in {} THEN WokenPoint[at[i]] ELSE at[i]]
  BY DEF SchedulerTypeOK
<1> QED BY <1>1 DEF Moved

Kept == SchedulerTypeOK' /\ QueuesMatch' /\ InOrder'

LEMMA SpawnMoves ==
  ASSUME SchedulerTypeOK, SchedulerAssumption, QueuesMatch, InOrder, NEW j \in Tasks, Spawn(j)
  PROVE  Kept /\ Moved(j, "spawned", {})
<1>1. j \notin ToSet(ready) /\ ready \in Seq(Tasks) /\ IsInjective(ready)
  BY DEF Spawn, QueuesMatch, Due, SchedulerTypeOK
<1>2. ready' \in Seq(Tasks) /\ Follows(ready, ready', {}, {j})
  BY <1>1, Joins DEF Spawn
<1>3. Follows(ready, ready', {j}, {j})
  BY <1>1, <1>2, Widens
<1>4. Moved(j, "spawned", {})
  BY <1>3, LoneMove, NobodyJoins DEF Spawn
<1>5. SchedulerTypeOK'
  BY <1>2 DEF Spawn, SchedulerTypeOK, Points
<1>6. QueuesMatch'
  BY <1>4, MatchKept DEF Spawn
<1>7. InOrder'
  BY <1>4, <1>5, OrderKept DEF Spawn, Started
<1> QED BY <1>4, <1>5, <1>6, <1>7 DEF Kept

LEMMA DropMoves ==
  ASSUME SchedulerTypeOK, SchedulerAssumption, QueuesMatch, InOrder, NEW j \in Tasks, Drop(j)
  PROVE  Kept /\ Moved(j, "done", {})
<1>1. at[j] = "spawned" /\ ready' \in Seq(Tasks) /\ Follows(ready, ready', {j}, {})
  BY Heads DEF Drop
<1>2. Moved(j, "done", {})
  BY <1>1, LoneMove, NobodyJoins DEF Drop
<1>3. SchedulerTypeOK'
  BY <1>1 DEF Drop, SchedulerTypeOK, Points
<1>4. QueuesMatch'
  BY <1>1, <1>2, MatchKept
<1>5. InOrder'
  BY <1>1, <1>2, <1>3, OrderKept DEF Drop, Started
<1> QED BY <1>2, <1>3, <1>4, <1>5 DEF Kept

\* An unlocked semaphore: nobody waits for it or has been woken with it.
LEMMA Unlocked ==
  ASSUME SchedulerTypeOK, SchedulerAssumption, QueuesMatch, NEW x \in Sems, ~Locked(x)
  PROVE  /\ value[x] \in Nat \ {0} /\ Woken(x) = {}
         /\ \A i \in Tasks : ~Awaits(i, x)
         /\ x = Global => \A i \in Tasks : at[i] \notin {"wait_second", "woken_second"}
         /\ \A i \in Tasks : x = SourceOf[i] => at[i] \notin {"wait_first", "woken_first"}
<1>1. /\ value[x] \in Nat \ {0} /\ Woken(x) = {} /\ waiters[x] = <<>>
  BY DEF Locked, SchedulerTypeOK
<1>2. \A i \in Tasks : ~Awaits(i, x)
  BY <1>1, QueueIs
<1>3. \A i \in Tasks : First(i) = SourceOf[i] /\ Second(i) = Global
  BY Permits
<1> QED BY <1>1, <1>2, <1>3 DEF Awaits, Woken

LEMMA QueueFirstMoves ==
  ASSUME SchedulerTypeOK, SchedulerAssumption, QueuesMatch, InOrder, NEW j \in Tasks, QueueFirst(j)
  PROVE  Kept /\ Moved(j, "wait_first", {})
<1> DEFINE x == SourceOf[j]
<1>0. x = First(j) /\ x \in Sems /\ Global # x
  BY Permits
<1>1. at[j] = "spawned" /\ ready' \in Seq(Tasks) /\ Follows(ready, ready', {j}, {})
  BY Heads DEF QueueFirst
<1>2. /\ waiters' \in [Sems -> Seq(Tasks)]
      /\ \A y \in Sems :
           Follows(waiters[y], waiters'[y], {},
             IF ("wait_first" = "wait_first" /\ y = SourceOf[j]) \/ ("wait_first" = "wait_second" /\ y = Global)
             THEN {j} ELSE {})
  BY <1>0, <1>1, Waits DEF QueueFirst, Wait
<1>3. Moved(j, "wait_first", {})
  BY <1>1, <1>2, LoneMove DEF QueueFirst, Wait
<1>4. SchedulerTypeOK'
  BY <1>1, <1>2 DEF QueueFirst, Wait, SchedulerTypeOK, Points
<1>5. QueuesMatch'
  BY <1>1, <1>3, MatchKept
<1>6. ASSUME NEW i \in Tasks \ {j}, Started(i), SourceOf[i] = SourceOf[j] PROVE Ahead(i, j)'
  <2>1. at'[j] = "wait_first" /\ at'[i] = at[i]
    BY <1>3, Places
  <2>2. CASE at[i] = "wait_first"
    <3>1. i \in ToSet(waiters[x])
      BY <1>0, <1>6, <2>2, QueueIs DEF Awaits
    <3>2. Precedes(waiters'[x], i, j)
      BY <1>0, <1>2, <3>1 DEF Follows
    <3> QED BY <1>6, <2>1, <2>2, <3>2 DEF Ahead, Line
  <2>3. CASE at[i] # "wait_first"
    BY <1>6, <2>1, <2>3 DEF Ahead, Rank, Started, SchedulerTypeOK, Points
  <2> QED BY <2>2, <2>3
<1>7. InOrder'
  BY <1>1, <1>3, <1>4, <1>6, OrderGrows DEF QueueFirst
<1> QED BY <1>3, <1>4, <1>5, <1>7 DEF Kept

LEMMA QueueSecondMoves ==
  ASSUME SchedulerTypeOK, SchedulerAssumption, QueuesMatch, InOrder, NEW j \in Tasks, QueueSecond(j)
  PROVE  Kept /\ Moved(j, "wait_second", {})
<1> DEFINE x == SourceOf[j]
<1>0. x = First(j) /\ x \in Sems /\ Global # x /\ Global = Second(j) /\ Global \in Sems
  BY Permits
<1>1. at[j] = "spawned" /\ ready' \in Seq(Tasks) /\ Follows(ready, ready', {j}, {})
  BY Heads DEF QueueSecond
<1>2. /\ waiters' \in [Sems -> Seq(Tasks)]
      /\ \A y \in Sems :
           Follows(waiters[y], waiters'[y], {},
             IF ("wait_second" = "wait_first" /\ y = SourceOf[j]) \/ ("wait_second" = "wait_second" /\ y = Global)
             THEN {j} ELSE {})
  BY <1>0, <1>1, Waits DEF QueueSecond, Wait
<1>3. Moved(j, "wait_second", {})
  BY <1>1, <1>2, LoneMove DEF QueueSecond, Wait
<1>u. /\ value[x] \in Nat \ {0}
      /\ \A i \in Tasks : x = SourceOf[i] => at[i] \notin {"wait_first", "woken_first"}
  BY <1>0, Unlocked DEF QueueSecond
<1>4. SchedulerTypeOK'
  BY <1>0, <1>1, <1>2, <1>u DEF QueueSecond, Wait, SchedulerTypeOK, Points
<1>5. QueuesMatch'
  BY <1>1, <1>3, MatchKept
<1>6. ASSUME NEW i \in Tasks \ {j}, Started(i), SourceOf[i] = SourceOf[j] PROVE Ahead(i, j)'
  <2>1. at'[j] = "wait_second" /\ at'[i] = at[i] /\ at[i] \notin {"wait_first", "woken_first"}
    BY <1>3, <1>6, <1>u, Places
  <2>2. CASE at[i] = "wait_second"
    <3>1. i \in ToSet(waiters[Global])
      BY <1>0, <1>6, <2>2, QueueIs DEF Awaits
    <3>2. Precedes(waiters'[Global], i, j)
      BY <1>0, <1>2, <3>1 DEF Follows
    <3> QED BY <1>6, <2>1, <2>2, <3>2 DEF Ahead, Line
  <2>3. CASE at[i] # "wait_second"
    BY <1>6, <2>1, <2>3 DEF Ahead, Rank, Started, SchedulerTypeOK, Points
  <2> QED BY <2>2, <2>3
<1>7. InOrder'
  BY <1>1, <1>3, <1>4, <1>6, OrderGrows DEF QueueSecond
<1> QED BY <1>3, <1>4, <1>5, <1>7 DEF Kept

LEMMA RunAtOnceMoves ==
  ASSUME SchedulerTypeOK, SchedulerAssumption, QueuesMatch, InOrder, NEW j \in Tasks, RunAtOnce(j)
  PROVE  Kept /\ Moved(j, "running", {})
<1> DEFINE x == SourceOf[j]
<1>0. x = First(j) /\ x \in Sems /\ Global # x /\ Global = Second(j) /\ Global \in Sems
  BY Permits
<1>1. at[j] = "spawned" /\ ready' \in Seq(Tasks) /\ Follows(ready, ready', {j}, {})
  BY Heads DEF RunAtOnce
<1>2. Moved(j, "running", {})
  BY <1>1, LoneMove, NobodyJoins DEF RunAtOnce
<1>u. /\ value[x] \in Nat \ {0} /\ value[Global] \in Nat \ {0}
      /\ \A i \in Tasks : x = SourceOf[i] => at[i] \notin {"wait_first", "woken_first"}
      /\ \A i \in Tasks : at[i] \notin {"wait_second", "woken_second"}
  BY <1>0, Unlocked DEF RunAtOnce
<1>4. SchedulerTypeOK'
  BY <1>0, <1>1, <1>u DEF RunAtOnce, SchedulerTypeOK, Points
<1>5. QueuesMatch'
  BY <1>1, <1>2, MatchKept
<1>6. ASSUME NEW i \in Tasks \ {j}, Started(i), SourceOf[i] = SourceOf[j] PROVE Ahead(i, j)'
  <2>1. at'[j] = "running" /\ at'[i] = at[i]
    BY <1>2, Places
  <2>2. at[i] \in {"running", "done"}
    BY <1>6, <1>u DEF Started, SchedulerTypeOK, Points
  <2> QED BY <2>1, <2>2 DEF Ahead, Passed
<1>7. InOrder'
  BY <1>1, <1>2, <1>4, <1>6, OrderGrows DEF RunAtOnce
<1> QED BY <1>2, <1>4, <1>5, <1>7 DEF Kept
-----------------------------------------------------------------------------
(* The steps that wake others.                                             *)

LEMMA Counts ==
  ASSUME NEW S, NEW s \in Seq(S), IsInjective(s)
  PROVE  IsFiniteSet(ToSet(s)) /\ Cardinality(ToSet(s)) = Len(s)
<1>1. Len(s) \in Nat /\ DOMAIN s = 1..Len(s) /\ s \in [1..Len(s) -> ToSet(s)]
  BY DEF ToSet
<1>2. s \in Injection(1..Len(s), ToSet(s))
  BY <1>1 DEF Injection
<1>3. s \in Surjection(1..Len(s), ToSet(s))
  BY <1>1 DEF Surjection, ToSet
<1>4. IsFiniteSet(1..Len(s)) /\ Cardinality(1..Len(s)) = Len(s)
  BY <1>1, FS_Interval
<1> QED BY <1>2, <1>3, <1>4, FS_Surjection

\* The first n waiters of x, and the queue without them.
LEMMA Wakes ==
  ASSUME SchedulerTypeOK, QueuesMatch, NEW x \in Sems, NEW n \in 0..Len(waiters[x]),
         NEW woken, woken = ToSet(FirstWaiters(x, n))
  PROVE  /\ FirstWaiters(x, n) \in Seq(Tasks) /\ IsInjective(FirstWaiters(x, n))
         /\ WithoutFirst(x, n) \in Seq(Tasks)
         /\ Follows(waiters[x], WithoutFirst(x, n), woken, {})
         /\ \A i : IsFirstWaiter(i, x, n) <=> i \in woken
         /\ \A i \in woken : i \in Tasks /\ Awaits(i, x)
         /\ \A i, k : k \in woken /\ Precedes(waiters[x], i, k) =>
              i \in woken /\ Precedes(FirstWaiters(x, n), i, k)
         /\ IsFiniteSet(woken) /\ Cardinality(woken) = n
         /\ n = Len(waiters[x]) => WithoutFirst(x, n) = <<>>
         /\ n # 0 => woken # {}
<1> DEFINE s == waiters[x]
<1>1. s \in Seq(Tasks) /\ IsInjective(s) /\ \A i : i \in ToSet(s) <=> i \in Tasks /\ Awaits(i, x)
  BY QueueIs
<1>2. n \in 0..Len(s)
  OBVIOUS
<1> HIDE DEF s
<1>3. /\ SubSeq(s, n + 1, Len(s)) \in Seq(Tasks)
      /\ Follows(s, SubSeq(s, n + 1, Len(s)), ToSet(SubSeq(s, 1, n)), {})
      /\ SubSeq(s, 1, n) \in Seq(Tasks) /\ IsInjective(SubSeq(s, 1, n))
      /\ \A i : i \in ToSet(SubSeq(s, 1, n)) <=> \E m \in 1..n : s[m] = i
      /\ ToSet(SubSeq(s, 1, n)) \subseteq ToSet(s)
      /\ \A i, k : k \in ToSet(SubSeq(s, 1, n)) /\ Precedes(s, i, k) =>
           i \in ToSet(SubSeq(s, 1, n)) /\ Precedes(SubSeq(s, 1, n), i, k)
      /\ Len(SubSeq(s, n + 1, Len(s))) = Len(s) - n /\ Len(SubSeq(s, 1, n)) = n
  BY <1>1, <1>2, Skips
<1>4. IsFiniteSet(ToSet(SubSeq(s, 1, n))) /\ Cardinality(ToSet(SubSeq(s, 1, n))) = n
  BY <1>3, Counts
<1>5. n = Len(s) => SubSeq(s, n + 1, Len(s)) = <<>>
  BY <1>1, <1>3
<1>6. n # 0 => ToSet(SubSeq(s, 1, n)) # {}
  BY <1>4, FS_EmptySet
<1>7. FirstWaiters(x, n) = SubSeq(s, 1, n) /\ WithoutFirst(x, n) = SubSeq(s, n + 1, Len(s))
  BY DEF s, FirstWaiters, WithoutFirst
<1>8. woken = ToSet(SubSeq(s, 1, n))
  BY <1>7
<1>9. \A i : IsFirstWaiter(i, x, n) <=> i \in woken
  BY <1>3, <1>8 DEF s, IsFirstWaiter
<1>10. \A i \in woken : i \in Tasks /\ Awaits(i, x)
  BY <1>1, <1>3, <1>8
<1>11. \A i, k : k \in woken /\ Precedes(s, i, k) => i \in woken /\ Precedes(FirstWaiters(x, n), i, k)
  BY <1>3, <1>7, <1>8
<1>12. Follows(s, WithoutFirst(x, n), woken, {})
  BY <1>3, <1>7, <1>8
<1>13. /\ FirstWaiters(x, n) \in Seq(Tasks) /\ IsInjective(FirstWaiters(x, n))
       /\ WithoutFirst(x, n) \in Seq(Tasks)
       /\ IsFiniteSet(woken) /\ Cardinality(woken) = n
       /\ n = Len(s) => WithoutFirst(x, n) = <<>>
       /\ n # 0 => woken # {}
  BY <1>3, <1>4, <1>5, <1>6, <1>7, <1>8
<1> QED BY <1>9, <1>10, <1>11, <1>12, <1>13 DEF s

\* The task at the head of the loop goes on to q, and the first n waiters of x
\* come to the end of the loop.
LEMMA WakeMoves ==
  ASSUME SchedulerTypeOK, SchedulerAssumption, QueuesMatch, NEW j \in Tasks,
         NEW p \in {"woken_first", "woken_second"}, Resumes(j, p),
         NEW q \in {"wait_second", "running"},
         NEW x \in Sems, q = "wait_second" => x # Global,
         NEW n \in 0..Len(waiters[x]), NEW woken, woken = ToSet(FirstWaiters(x, n)),
         at' = [i \in Tasks |-> IF i = j THEN q
                  ELSE IF IsFirstWaiter(i, x, n) THEN WokenPoint[at[i]] ELSE at[i]],
         waiters'[x] = WithoutFirst(x, n),
         \A y \in Sems \ {x} : Follows(waiters[y], waiters'[y], {},
           IF q = "wait_second" /\ y = Global THEN {j} ELSE {}),
         ready' = Tail(ready) \o FirstWaiters(x, n)
  PROVE  ready' \in Seq(Tasks) /\ Moved(j, q, woken)
<1>1. /\ FirstWaiters(x, n) \in Seq(Tasks) /\ IsInjective(FirstWaiters(x, n))
      /\ Follows(waiters[x], WithoutFirst(x, n), woken, {})
      /\ \A i : IsFirstWaiter(i, x, n) <=> i \in woken
      /\ \A i \in woken : i \in Tasks /\ Awaits(i, x)
      /\ \A i, k : k \in woken /\ Precedes(waiters[x], i, k) =>
           i \in woken /\ Precedes(FirstWaiters(x, n), i, k)
  BY Wakes
<1>2. at[j] = p /\ Tail(ready) \in Seq(Tasks) /\ Follows(ready, Tail(ready), {j}, {})
  BY Heads
<1>3. at' = [i \in Tasks |-> IF i = j THEN q ELSE IF i \in woken THEN WokenPoint[at[i]] ELSE at[i]]
  BY <1>1
<1>4. woken \subseteq {i \in Tasks \ {j} : at[i] \in {"wait_first", "wait_second"}}
  BY <1>1, <1>2 DEF Awaits
<1>5. ASSUME NEW y \in Sems
      PROVE  Follows(waiters[y], waiters'[y], woken,
               IF (q = "wait_first" /\ y = SourceOf[j]) \/ (q = "wait_second" /\ y = Global)
               THEN {j} ELSE {})
  <2>1. CASE y = x
    BY <1>1, <2>1
  <2>2. CASE y # x
    <3>1. woken \cap ToSet(waiters[y]) = {}
      <4>1. ASSUME NEW i \in woken PROVE i \notin ToSet(waiters[y])
        <5>1. Awaits(i, x)
          BY <1>1
        <5>2. ~Awaits(i, y)
          BY <2>2, <5>1 DEF Awaits
        <5> QED BY <5>2, QueueIs
      <4> QED BY <4>1
    <3>2. Follows(waiters[y], waiters'[y], {}, IF q = "wait_second" /\ y = Global THEN {j} ELSE {})
      BY <2>2
    <3>3. Follows(waiters[y], waiters'[y], woken, IF q = "wait_second" /\ y = Global THEN {j} ELSE {})
      BY <3>1, <3>2, Widens
    <3> QED BY <3>3
  <2> QED BY <2>1, <2>2
<1>6. ToSet(ready) = Due /\ woken \cap ToSet(ready) = {}
  BY <1>4 DEF QueuesMatch, Due
<1>7. IsInjective(Tail(ready)) /\ ToSet(Tail(ready)) \cap woken = {}
  BY <1>2, <1>6 DEF Follows
<1>8. /\ ready' \in Seq(Tasks) /\ Follows(Tail(ready), ready', {}, woken)
      /\ \A i, k : Precedes(FirstWaiters(x, n), i, k) => Precedes(ready', i, k)
  BY <1>1, <1>2, <1>7, Concatenates
<1>9. Follows(ready, ready', {j}, {} \cup woken)
  BY <1>2, <1>6, <1>8, Composes
<1>10. Follows(ready, ready', {j}, woken \cup (IF q = "spawned" THEN {j} ELSE {}))
  <2>1. {} \cup woken = woken \cup (IF q = "spawned" THEN {j} ELSE {})
    OBVIOUS
  <2> QED BY <1>9, <2>1
<1>11. ASSUME NEW y \in Sems, NEW i, NEW k, k \in woken, Precedes(waiters[y], i, k)
       PROVE  i \in woken /\ Precedes(ready', i, k)
  <2>1. k \in ToSet(waiters[y])
    BY <1>11 DEF Precedes, ToSet
  <2>2. y = x
    BY <1>1, <1>11, <2>1, QueueIs DEF Awaits
  <2> QED BY <1>1, <1>8, <1>11, <2>2
<1> QED BY <1>3, <1>4, <1>5, <1>8, <1>10, <1>11 DEF Moved

LEMMA PointsKept ==
  ASSUME SchedulerTypeOK, NEW j \in Tasks, NEW q \in Points, NEW woken, Moved(j, q, woken)
  PROVE  at' \in [Tasks -> Points]
<1>1. at \in [Tasks -> Points]
  BY DEF SchedulerTypeOK
<1>2. {"woken_first", "woken_second"} \subseteq Points
  BY DEF Points
<1>3. \A i \in Tasks : at'[i] \in Points
  BY <1>1, <1>2, Places
<1> QED BY <1>3 DEF Moved

LEMMA Spares ==
  ASSUME SchedulerTypeOK, NEW x \in Sems
  PROVE  /\ Spare(x) \in 0..Len(waiters[x]) /\ Spare(x) <= value[x]
         /\ Spare(x) = Len(waiters[x]) \/ Spare(x) = value[x]
         /\ Relieved(x) \in 0..Len(waiters[x]) /\ Relieved(x) <= 1
         /\ Relieved(x) = Len(waiters[x]) \/ Relieved(x) = 1
<1>1. value[x] \in Nat /\ Len(waiters[x]) \in Nat
  BY DEF SchedulerTypeOK
<1> QED BY <1>1 DEF Spare, Relieved, Least

LEMMA WakeFirstMoves ==
  ASSUME SchedulerTypeOK, SchedulerAssumption, QueuesMatch, InOrder, NEW j \in Tasks, WakeFirst(j),
         NEW x, x = First(j), NEW woken, woken = ToSet(FirstWaiters(x, Spare(x))),
         NEW q, q = IF Locked(Second(j)) THEN "wait_second" ELSE "running"
  PROVE  Kept /\ Moved(j, q, woken)
<1> DEFINE n == Spare(x)
<1>0. x = SourceOf[j] /\ x \in Sems /\ Global # x /\ Global = Second(j) /\ Global \in Sems
  BY Permits
<1>1. /\ Resumes(j, "woken_first")
      /\ at' = [i \in Tasks |->
               IF i = j THEN q ELSE IF IsFirstWaiter(i, x, n) THEN WokenPoint[at[i]] ELSE at[i]]
      /\ value' = [y \in Sems |->
               IF y = x THEN value[y] - n
               ELSE IF y = Second(j) /\ ~Locked(Second(j)) THEN value[y] - 1 ELSE value[y]]
      /\ waiters' = [y \in Sems |->
               IF y = x THEN WithoutFirst(y, n)
               ELSE IF y = Second(j) /\ Locked(Second(j)) THEN Append(waiters[y], j)
               ELSE waiters[y]]
      /\ ready' = Tail(ready) \o FirstWaiters(x, n)
      /\ begun' = begun
  BY DEF WakeFirst
<1>2. n \in 0..Len(waiters[x]) /\ n <= value[x]
  BY <1>0, Spares
<1> HIDE DEF n
<1>3. at[j] = "woken_first" /\ \A i : ~Precedes(ready, i, j)
  BY <1>1, Heads
<1>4. ASSUME NEW y \in Sems \ {x}
      PROVE  /\ waiters'[y] \in Seq(Tasks)
             /\ Follows(waiters[y], waiters'[y], {},
                        IF q = "wait_second" /\ y = Global THEN {j} ELSE {})
  <2>1. CASE q = "wait_second" /\ y = Global
    <3>1. waiters'[y] = Append(waiters[y], j)
      BY <1>0, <1>1, <2>1
    <3>2. j \notin ToSet(waiters[y]) /\ waiters[y] \in Seq(Tasks) /\ IsInjective(waiters[y])
      BY <1>3, QueueIs DEF Awaits
    <3> QED BY <2>1, <3>1, <3>2, Joins
  <2>2. CASE ~(q = "wait_second" /\ y = Global)
    <3>1. waiters'[y] = waiters[y]
      BY <1>0, <1>1, <2>2
    <3> QED BY <2>2, <3>1, QueueIs
  <2> QED BY <2>1, <2>2
<1>5. waiters'[x] = WithoutFirst(x, n)
  BY <1>0, <1>1
<1>6. q \in {"wait_second", "running"}
  OBVIOUS
<1>7. woken = ToSet(FirstWaiters(x, n))
  BY DEF n
<1>8. ready' \in Seq(Tasks) /\ Moved(j, q, woken)
  BY <1>0, <1>1, <1>2, <1>4, <1>5, <1>6, <1>7, WakeMoves
<1>9. SchedulerTypeOK'
  <2>1. at' \in [Tasks -> Points]
    BY <1>6, <1>8, PointsKept DEF Points
  <2>2. WithoutFirst(x, n) \in Seq(Tasks)
    BY <1>0, <1>2, <1>7, Wakes
  <2>3. waiters' \in [Sems -> Seq(Tasks)]
    <3>1. \A y \in Sems : waiters'[y] \in Seq(Tasks)
      BY <1>4, <1>5, <2>2
    <3> QED BY <1>1, <3>1
  <2>4. value' \in [Sems -> Nat]
    <3>1. Locked(Second(j)) \/ value[Global] \in Nat \ {0}
      BY <1>0, Unlocked
    <3> QED BY <1>0, <1>1, <1>2, <3>1 DEF SchedulerTypeOK
  <2> QED BY <1>1, <1>8, <2>1, <2>3, <2>4 DEF SchedulerTypeOK
<1>10. QueuesMatch'
  BY <1>3, <1>6, <1>8, MatchKept
<1>11. at'[j] = q /\ \A i \in Tasks \ {j} :
          IF i \in woken THEN at[i] = "wait_first" /\ at'[i] = "woken_first" ELSE at'[i] = at[i]
  <2>1. \A i \in woken : Awaits(i, x)
    BY <1>0, <1>2, <1>7, Wakes
  <2> QED BY <1>0, <1>8, <2>1, Places DEF Awaits
<1>12. ASSUME NEW i \in Tasks \ {j}, Started(i), SourceOf[i] = SourceOf[j], Ahead(i, j)
       PROVE  Ahead(i, j)'
  <2>1. at[i] \in {"wait_second", "woken_second", "running", "done"}
    BY <1>3, <1>12 DEF Ahead, Rank, Passed, Line, Started, SchedulerTypeOK, Points
  <2>2. at'[i] = at[i]
    BY <1>11, <2>1
  <2>3. CASE q = "wait_second" /\ at[i] = "wait_second"
    <3>1. i \in ToSet(waiters[Global])
      BY <1>0, <2>3, QueueIs DEF Awaits
    <3>2. Follows(waiters[Global], waiters'[Global], {}, {j})
      BY <1>0, <1>4, <2>3
    <3>3. Precedes(waiters'[Global], i, j)
      BY <3>1, <3>2 DEF Follows
    <3> QED BY <1>11, <2>2, <2>3, <3>3 DEF Ahead, Line
  <2>4. CASE q = "wait_second" /\ at[i] # "wait_second"
    BY <1>11, <2>1, <2>2, <2>4 DEF Ahead, Rank
  <2>5. CASE q = "running"
    <3>1. at[i] \notin {"wait_second", "woken_second"}
      BY <1>0, <2>5, Unlocked
    <3> QED BY <1>11, <2>1, <2>2, <2>5, <3>1 DEF Ahead, Passed
  <2> QED BY <1>6, <2>3, <2>4, <2>5
<1>13. ASSUME NEW k \in Tasks \ {j}, Started(k), SourceOf[k] = SourceOf[j], Ahead(j, k)
       PROVE  Ahead(j, k)'
  <2>1. at[k] \in {"wait_first", "woken_first"}
    BY <1>3, <1>13 DEF Ahead, Rank, Passed, Started, SchedulerTypeOK, Points
  <2>2. at'[k] \in {"wait_first", "woken_first"}
    BY <1>11, <2>1
  <2> QED BY <1>6, <1>11, <2>2 DEF Ahead, Rank
<1>14. InOrder'
  BY <1>1, <1>6, <1>8, <1>9, <1>12, <1>13, OrderKept
<1> QED BY <1>8, <1>9, <1>10, <1>14 DEF Kept
LEMMA WakeSecondMoves ==
  ASSUME SchedulerTypeOK, SchedulerAssumption, QueuesMatch, InOrder, NEW j \in Tasks, WakeSecond(j),
         NEW woken, woken = ToSet(FirstWaiters(Global, Spare(Global)))
  PROVE  Kept /\ Moved(j, "running", woken)
<1> DEFINE n == Spare(Global)
<1>0. Global = Second(j) /\ Global \in Sems
  BY Permits
<1>1. /\ Resumes(j, "woken_second")
      /\ at' = [i \in Tasks |->
               IF i = j THEN "running"
               ELSE IF IsFirstWaiter(i, Global, n) THEN WokenPoint[at[i]] ELSE at[i]]
      /\ value' = [value EXCEPT ![Global] = @ - n]
      /\ waiters' = [waiters EXCEPT ![Global] = WithoutFirst(Global, n)]
      /\ ready' = Tail(ready) \o FirstWaiters(Global, n)
      /\ begun' = begun
  BY <1>0 DEF WakeSecond
<1>2. n \in 0..Len(waiters[Global]) /\ n <= value[Global]
  BY <1>0, Spares
<1>7. woken = ToSet(FirstWaiters(Global, n))
  OBVIOUS
<1> HIDE DEF n
<1>3. at[j] = "woken_second" /\ \A i : ~Precedes(ready, i, j)
  BY <1>1, Heads
<1>4. /\ waiters'[Global] = WithoutFirst(Global, n)
      /\ \A y \in Sems \ {Global} : waiters'[y] = waiters[y]
  BY <1>0, <1>1 DEF SchedulerTypeOK
<1>5. \A y \in Sems \ {Global} : Follows(waiters[y], waiters'[y], {},
        IF "running" = "wait_second" /\ y = Global THEN {j} ELSE {})
  BY <1>4, QueueIs
<1>8. ready' \in Seq(Tasks) /\ Moved(j, "running", woken)
  BY <1>0, <1>1, <1>2, <1>4, <1>5, <1>7, WakeMoves
<1>9. SchedulerTypeOK'
  <2>1. at' \in [Tasks -> Points]
    BY <1>8, PointsKept DEF Points
  <2>2. WithoutFirst(Global, n) \in Seq(Tasks)
    BY <1>0, <1>2, <1>7, Wakes
  <2>3. waiters' \in [Sems -> Seq(Tasks)]
    BY <1>1, <2>2 DEF SchedulerTypeOK
  <2>4. value' \in [Sems -> Nat]
    BY <1>0, <1>1, <1>2 DEF SchedulerTypeOK
  <2> QED BY <1>1, <1>8, <2>1, <2>3, <2>4 DEF SchedulerTypeOK
<1>10. QueuesMatch'
  BY <1>3, <1>8, MatchKept
<1>11. at'[j] = "running" /\ \A i \in Tasks \ {j} :
          IF i \in woken THEN at[i] = "wait_second" /\ at'[i] = "woken_second" ELSE at'[i] = at[i]
  <2>1. \A i \in woken : Awaits(i, Global)
    BY <1>0, <1>2, <1>7, Wakes
  <2>2. \A i \in Tasks : SourceOf[i] # Global
    BY Permits
  <2> QED BY <1>8, <2>1, <2>2, Places DEF Awaits
<1>12. ASSUME NEW i \in Tasks \ {j}, Started(i), SourceOf[i] = SourceOf[j], Ahead(i, j)
       PROVE  Ahead(i, j)'
  <2>1. at[i] \in {"running", "done"}
    BY <1>3, <1>12 DEF Ahead, Rank, Passed, Line, Started, SchedulerTypeOK, Points
  <2> QED BY <1>11, <2>1 DEF Ahead, Passed
<1>13. ASSUME NEW k \in Tasks \ {j}, Started(k), SourceOf[k] = SourceOf[j], Ahead(j, k)
       PROVE  Ahead(j, k)'
  <2>1. at[k] \in {"wait_first", "woken_first", "wait_second", "woken_second"}
    BY <1>3, <1>13 DEF Ahead, Rank, Passed, Started, SchedulerTypeOK, Points
  <2>2. at'[k] \in {"wait_first", "woken_first", "wait_second", "woken_second"}
    BY <1>11, <2>1
  <2> QED BY <1>11, <2>2 DEF Ahead, Rank
<1>14. InOrder'
  BY <1>1, <1>8, <1>9, <1>12, <1>13, OrderKept
<1> QED BY <1>8, <1>9, <1>10, <1>14 DEF Kept

\* Two batches come to the end of the loop.
LEMMA FinishReady ==
  ASSUME NEW S, NEW s \in Seq(S), IsInjective(s), NEW t \in Seq(S), IsInjective(t),
         NEW u \in Seq(S), IsInjective(u), NEW j, j \notin ToSet(s),
         ToSet(s) \cap ToSet(t) = {}, ToSet(s) \cap ToSet(u) = {}, ToSet(t) \cap ToSet(u) = {}
  PROVE  /\ s \o t \o u \in Seq(S) /\ Follows(s, s \o t \o u, {j}, ToSet(t) \cup ToSet(u))
         /\ \A i, k : Precedes(t, i, k) \/ Precedes(u, i, k) => Precedes(s \o t \o u, i, k)
<1> DEFINE v == s \o t
<1>1. /\ v \in Seq(S) /\ Follows(s, v, {}, ToSet(t))
      /\ \A i, k : Precedes(t, i, k) => Precedes(v, i, k)
  BY Concatenates
<1> HIDE DEF v
<1>2. IsInjective(v) /\ ToSet(v) = ToSet(s) \cup ToSet(t)
  BY <1>1 DEF Follows
<1>3. ToSet(v) \cap ToSet(u) = {}
  BY <1>2
<1>4. /\ v \o u \in Seq(S) /\ Follows(v, v \o u, {}, ToSet(u))
      /\ \A i, k : Precedes(u, i, k) => Precedes(v \o u, i, k)
  BY <1>1, <1>2, <1>3, Concatenates
<1>5. \A i, k : Precedes(v, i, k) => Precedes(v \o u, i, k)
  BY <1>4 DEF Follows
<1>6. Follows(s, v \o u, {}, ToSet(t) \cup ToSet(u))
  BY <1>1, <1>4, Composes
<1>7. Follows(s, v \o u, {j}, ToSet(t) \cup ToSet(u))
  BY <1>6, Widens
<1> QED BY <1>1, <1>4, <1>5, <1>7 DEF v

LEMMA FinishMoves ==
  ASSUME SchedulerTypeOK, SchedulerAssumption, QueuesMatch, InOrder, NEW j \in Tasks, Finish(j),
         NEW x, x = SourceOf[j],
         NEW w1, w1 = ToSet(FirstWaiters(x, Relieved(x))),
         NEW w2, w2 = ToSet(FirstWaiters(Global, Relieved(Global)))
  PROVE  Kept /\ Moved(j, "done", w1 \cup w2)
<1> DEFINE n == Relieved(x)
           m == Relieved(Global)
           woken == w1 \cup w2
<1>0. x = First(j) /\ x \in Sems /\ Global # x /\ Global = Second(j) /\ Global \in Sems
  BY Permits
<1>1. /\ at[j] = "running"
      /\ at' = [i \in Tasks |->
              IF i = j THEN "done"
              ELSE IF IsFirstWaiter(i, x, n) \/ IsFirstWaiter(i, Global, m)
                THEN WokenPoint[at[i]] ELSE at[i]]
      /\ value' = [y \in Sems |-> IF y \in {x, Global} THEN value[y] + 1 - Relieved(y) ELSE value[y]]
      /\ waiters' = [y \in Sems |->
              IF y \in {x, Global} THEN WithoutFirst(y, Relieved(y)) ELSE waiters[y]]
      /\ ready' = ready \o FirstWaiters(Global, m) \o FirstWaiters(x, n)
      /\ begun' = begun
  <2>1. \A i : (\E y \in {First(j), Second(j)} : IsFirstWaiter(i, y, Relieved(y)))
                 <=> IsFirstWaiter(i, x, n) \/ IsFirstWaiter(i, Global, m)
    BY <1>0
  <2> QED BY <1>0, <2>1 DEF Finish
<1>2. /\ n \in 0..Len(waiters[x]) /\ n <= 1
      /\ m \in 0..Len(waiters[Global]) /\ m <= 1
  BY <1>0, Spares
<1>7. w1 = ToSet(FirstWaiters(x, n)) /\ w2 = ToSet(FirstWaiters(Global, m))
  OBVIOUS
<1>w. /\ waiters'[x] = WithoutFirst(x, n) /\ waiters'[Global] = WithoutFirst(Global, m)
      /\ \A y \in Sems \ {x, Global} : waiters'[y] = waiters[y]
  BY <1>0, <1>1
<1>v. \A y \in Sems : value'[y] \in Nat
  BY <1>0, <1>1, <1>2 DEF SchedulerTypeOK
<1> HIDE DEF n, m
<1>3. /\ FirstWaiters(x, n) \in Seq(Tasks) /\ IsInjective(FirstWaiters(x, n))
      /\ WithoutFirst(x, n) \in Seq(Tasks)
      /\ Follows(waiters[x], WithoutFirst(x, n), w1, {})
      /\ \A i : IsFirstWaiter(i, x, n) <=> i \in w1
      /\ \A i \in w1 : i \in Tasks /\ Awaits(i, x)
      /\ \A i, k : k \in w1 /\ Precedes(waiters[x], i, k) =>
           i \in w1 /\ Precedes(FirstWaiters(x, n), i, k)
  BY <1>0, <1>2, <1>7, Wakes
<1>4. /\ FirstWaiters(Global, m) \in Seq(Tasks) /\ IsInjective(FirstWaiters(Global, m))
      /\ WithoutFirst(Global, m) \in Seq(Tasks)
      /\ Follows(waiters[Global], WithoutFirst(Global, m), w2, {})
      /\ \A i : IsFirstWaiter(i, Global, m) <=> i \in w2
      /\ \A i \in w2 : i \in Tasks /\ Awaits(i, Global)
      /\ \A i, k : k \in w2 /\ Precedes(waiters[Global], i, k) =>
           i \in w2 /\ Precedes(FirstWaiters(Global, m), i, k)
  BY <1>0, <1>2, <1>7, Wakes
<1>5. (\A i \in w1 : at[i] = "wait_first") /\ \A i \in w2 : at[i] = "wait_second"
  <2>1. \A i \in Tasks : SourceOf[i] # Global
    BY Permits
  <2> QED BY <1>0, <1>3, <1>4, <2>1 DEF Awaits
<1>6. at' = [i \in Tasks |->
        IF i = j THEN "done" ELSE IF i \in woken THEN WokenPoint[at[i]] ELSE at[i]]
  BY <1>1, <1>3, <1>4
<1>8. woken \subseteq {i \in Tasks \ {j} : at[i] \in {"wait_first", "wait_second"}}
  BY <1>1, <1>3, <1>4, <1>5
<1>9. ready \in Seq(Tasks) /\ IsInjective(ready) /\ ToSet(ready) = Due
  BY DEF SchedulerTypeOK, QueuesMatch
<1>10. j \notin ToSet(ready) /\ ToSet(ready) \cap w1 = {} /\ ToSet(ready) \cap w2 = {} /\ w1 \cap w2 = {}
  BY <1>1, <1>5, <1>9 DEF Due
<1>11. /\ ready' \in Seq(Tasks) /\ Follows(ready, ready', {j}, w2 \cup w1)
       /\ \A i, k : Precedes(FirstWaiters(Global, m), i, k) \/ Precedes(FirstWaiters(x, n), i, k)
                      => Precedes(ready', i, k)
  <2> DEFINE t == FirstWaiters(Global, m)
             u == FirstWaiters(x, n)
  <2>1. /\ t \in Seq(Tasks) /\ IsInjective(t) /\ u \in Seq(Tasks) /\ IsInjective(u)
        /\ w2 = ToSet(t) /\ w1 = ToSet(u) /\ ready' = ready \o t \o u
    BY <1>1, <1>3, <1>4, <1>7
  <2> HIDE DEF t, u
  <2>2. ToSet(ready) \cap ToSet(t) = {} /\ ToSet(ready) \cap ToSet(u) = {} /\ ToSet(t) \cap ToSet(u) = {}
    BY <1>10, <2>1
  <2>3. /\ ready \o t \o u \in Seq(Tasks)
        /\ Follows(ready, ready \o t \o u, {j}, ToSet(t) \cup ToSet(u))
        /\ \A i, k : Precedes(t, i, k) \/ Precedes(u, i, k) => Precedes(ready \o t \o u, i, k)
    BY <1>9, <1>10, <2>1, <2>2, FinishReady
  <2> QED BY <2>1, <2>3 DEF t, u
<1>12. Follows(ready, ready', {j}, woken \cup (IF "done" = "spawned" THEN {j} ELSE {}))
  <2>1. w2 \cup w1 = woken \cup (IF "done" = "spawned" THEN {j} ELSE {})
    OBVIOUS
  <2> QED BY <1>11, <2>1
<1>13. ASSUME NEW y \in Sems
       PROVE  Follows(waiters[y], waiters'[y], woken,
                IF ("done" = "wait_first" /\ y = SourceOf[j]) \/ ("done" = "wait_second" /\ y = Global)
                THEN {j} ELSE {})
  <2>1. \A i \in ToSet(waiters[y]) : Awaits(i, y)
    BY QueueIs
  <2>2. Follows(waiters[y], waiters'[y], woken, {})
    <3>1. CASE y = x
      <4>1. woken \cap ToSet(waiters[y]) \subseteq w1
        BY <1>0, <1>5, <2>1, <3>1 DEF Awaits
      <4>2. Follows(waiters[y], waiters'[y], w1, {})
        BY <1>3, <1>w, <3>1
      <4> QED BY <4>1, <4>2, Widens
    <3>2. CASE y = Global
      <4>1. \A i \in Tasks : SourceOf[i] # Global
        BY Permits
      <4>2. woken \cap ToSet(waiters[y]) \subseteq w2
        BY <1>5, <1>8, <2>1, <3>2, <4>1 DEF Awaits
      <4>3. Follows(waiters[y], waiters'[y], w2, {})
        BY <1>4, <1>w, <3>2
      <4> QED BY <4>2, <4>3, Widens
    <3>3. CASE y # x /\ y # Global
      <4>1. ASSUME NEW i \in woken PROVE i \notin ToSet(waiters[y])
        BY <1>3, <1>4, <1>5, <2>1, <3>3 DEF Awaits
      <4>2. woken \cap ToSet(waiters[y]) \subseteq {}
        BY <4>1
      <4>3. Follows(waiters[y], waiters'[y], {}, {})
        BY <1>w, <3>3, QueueIs
      <4> QED BY <4>2, <4>3, Widens
    <3> QED BY <3>1, <3>2, <3>3
  <2> QED BY <2>2
<1>14. ASSUME NEW y \in Sems, NEW i, NEW k, k \in woken, Precedes(waiters[y], i, k)
       PROVE  i \in woken /\ Precedes(ready', i, k)
  <2>1. k \in Tasks /\ Awaits(k, y)
    <3>1. k \in ToSet(waiters[y])
      BY <1>14 DEF Precedes, ToSet
    <3> QED BY <3>1, QueueIs
  <2>2. CASE k \in w1
    <3>1. y = x
      BY <1>3, <1>5, <2>1, <2>2 DEF Awaits
    <3> QED BY <1>3, <1>11, <1>14, <2>2, <3>1
  <2>3. CASE k \in w2
    <3>1. y = Global
      BY <1>4, <1>5, <2>1, <2>3 DEF Awaits
    <3> QED BY <1>4, <1>11, <1>14, <2>3, <3>1
  <2> QED BY <1>14, <2>2, <2>3
<1> HIDE DEF woken
<1>15. Moved(j, "done", woken)
  BY <1>6, <1>8, <1>12, <1>13, <1>14 DEF Moved
<1>16. SchedulerTypeOK'
  <2>1. at' \in [Tasks -> Points]
    BY <1>15, PointsKept DEF Points
  <2>2. \A y \in Sems : waiters'[y] \in Seq(Tasks)
    BY <1>3, <1>4, <1>w DEF SchedulerTypeOK
  <2>3. waiters' \in [Sems -> Seq(Tasks)] /\ value' \in [Sems -> Nat]
    BY <1>1, <1>v, <2>2
  <2> QED BY <1>1, <1>11, <2>1, <2>3 DEF SchedulerTypeOK
<1>17. QueuesMatch'
  BY <1>1, <1>15, MatchKept
<1>18. /\ at'[j] = "done" /\ j \notin woken
       /\ \A i \in Tasks \ {j} :
            \/ at'[i] = at[i]
            \/ at[i] = "wait_first" /\ at'[i] = "woken_first"
            \/ at[i] = "wait_second" /\ at'[i] = "woken_second"
  BY <1>15, Places
<1>19. ASSUME NEW i \in Tasks \ {j}, Started(i), SourceOf[i] = SourceOf[j], Ahead(i, j)
       PROVE  Ahead(i, j)'
  <2>1. at[i] \in {"running", "done"}
    BY <1>1, <1>19 DEF Ahead, Rank, Passed, Started, SchedulerTypeOK, Points
  <2> QED BY <1>18, <2>1 DEF Ahead, Passed
<1>20. ASSUME NEW k \in Tasks \ {j}, Started(k), SourceOf[k] = SourceOf[j], Ahead(j, k)
       PROVE  Ahead(j, k)'
  <2>1. at'[k] \in {"wait_first", "woken_first", "wait_second", "woken_second", "running", "done"}
    BY <1>18, <1>20 DEF Started, SchedulerTypeOK, Points
  <2> QED BY <1>18, <2>1 DEF Ahead, Rank, Passed
<1>21. InOrder'
  BY <1>1, <1>15, <1>16, <1>19, <1>20, OrderKept
<1> QED BY <1>15, <1>16, <1>17, <1>21 DEF Kept, woken
-----------------------------------------------------------------------------
(* The permits.                                                            *)

Has(j, p, x) == \/ p \in PastFirst /\ x = SourceOf[j]
                \/ p \in {"woken_second", "running"} /\ x = Global
Share(j, p, x) == IF Has(j, p, x) THEN 1 ELSE 0
Given(woken, x) == {i \in woken : Awaits(i, x)}

\* Who holds a permit after a step, and who has just got it.
LEMMA HoldersMove ==
  ASSUME SchedulerTypeOK, SchedulerAssumption, NEW j \in Tasks, NEW q, NEW woken, Moved(j, q, woken),
         NEW x \in Sems
  PROVE  /\ \A i \in Tasks : i \in Holders(x) <=> Has(i, at[i], x)
         /\ \A i \in Tasks \ {j} : i \in Holders(x)' <=> i \in Holders(x) \/ i \in Given(woken, x)
         /\ j \in Holders(x)' <=> Has(j, q, x)
         /\ Given(woken, x) \subseteq Tasks \ {j} /\ Given(woken, x) \cap Holders(x) = {}
         /\ \A i \in Tasks \ {j} : i \in Woken(x) \/ i \in Given(woken, x) => i \in Woken(x)'
<1>0. woken \subseteq Tasks
  BY DEF Moved
<1>1. /\ at'[j] = q /\ j \notin woken /\ woken \subseteq Tasks
      /\ \A i \in woken : \/ at[i] = "wait_first" /\ at'[i] = "woken_first"
                          \/ at[i] = "wait_second" /\ at'[i] = "woken_second"
      /\ \A i \in Tasks \ {j} : i \notin woken => at'[i] = at[i]
  BY <1>0, Places
<1>2. \A i \in Tasks : First(i) = SourceOf[i] /\ Second(i) = Global /\ SourceOf[i] # Global
  BY Permits
<1>3. /\ \A i \in Tasks : i \in Holders(x) <=> Has(i, at[i], x)
      /\ \A i \in Tasks : i \in Holders(x)' <=> Has(i, at'[i], x)
  BY <1>2 DEF Holders, Has, PastFirst, First, Second, Order
<1>4. ASSUME NEW i \in Tasks \ {j}
      PROVE  i \in Holders(x)' <=> i \in Holders(x) \/ i \in Given(woken, x)
  BY <1>1, <1>2, <1>3 DEF Has, PastFirst, Given, Awaits
<1>5. j \in Holders(x)' <=> Has(j, q, x)
  BY <1>1, <1>3
<1>6. ASSUME NEW i \in Given(woken, x) PROVE i \in Tasks \ {j} /\ i \notin Holders(x)
  BY <1>1, <1>2, <1>3, <1>6 DEF Has, PastFirst, Given, Awaits
<1>7. ASSUME NEW i \in Tasks \ {j}, i \in Woken(x) \/ i \in Given(woken, x) PROVE i \in Woken(x)'
  BY <1>1, <1>2, <1>7 DEF Woken, Given, Awaits, First, Second, Order
<1> QED BY <1>3, <1>4, <1>5, <1>6, <1>7

LEMMA PermitsKept ==
  ASSUME SchedulerTypeOK, SchedulerAssumption, Conserved, NEW j \in Tasks, NEW q, NEW woken,
         Moved(j, q, woken),
         \A x \in Sems :
           /\ IsFiniteSet(Given(woken, x))
           /\ value'[x] = value[x] + Share(j, at[j], x) - Share(j, q, x) - Cardinality(Given(woken, x))
  PROVE  Conserved'
<1> SUFFICES ASSUME NEW x \in Sems
             PROVE  IsFiniteSet(Holders(x)') /\ value'[x] + Cardinality(Holders(x)') = Bound(x)
  BY DEF Conserved, Sems, Bound, PerSourceBound
<1> DEFINE H == Holders(x)
           H2 == Holders(x)'
           G == Given(woken, x)
<1>1. /\ H \subseteq Tasks /\ H2 \subseteq Tasks
      /\ \A i \in Tasks : i \in H <=> Has(i, at[i], x)
      /\ \A i \in Tasks \ {j} : i \in H2 <=> i \in H \/ i \in G
      /\ j \in H2 <=> Has(j, q, x)
      /\ G \subseteq Tasks \ {j} /\ G \cap H = {}
  BY HoldersMove DEF Holders
<1>2. /\ IsFiniteSet(H) /\ value[x] + Cardinality(H) = Bound(x) /\ IsFiniteSet(G)
      /\ value'[x] = value[x] + Share(j, at[j], x) - Share(j, q, x) - Cardinality(G)
  BY DEF Conserved
<1>3. Bound(x) \in Nat /\ value[x] \in Nat
  BY Bounds DEF SchedulerTypeOK
<1>s. Share(j, at[j], x) = (IF j \in H THEN 1 ELSE 0) /\ Share(j, q, x) = (IF j \in H2 THEN 1 ELSE 0)
  BY <1>1 DEF Share
<1> HIDE DEF H, H2, G
<1> DEFINE K == H \ {j}
           L == K \cup G
<1>4. IsFiniteSet(K) /\ Cardinality(K) = (IF j \in H THEN Cardinality(H) - 1 ELSE Cardinality(H))
  BY <1>2, FS_RemoveElement
<1>5. Cardinality(H) \in Nat /\ Cardinality(G) \in Nat /\ Cardinality(K) \in Nat
  BY <1>2, <1>4, FS_CardinalityType
<1>6. IsFiniteSet(L) /\ Cardinality(L) = Cardinality(K) + Cardinality(G)
  <2>1. K \cap G = {}
    BY <1>1
  <2>2. Cardinality(K \cap G) = 0
    BY <2>1, FS_EmptySet
  <2>3. IsFiniteSet(L) /\ Cardinality(L) = Cardinality(K) + Cardinality(G) - Cardinality(K \cap G)
    BY <1>2, <1>4, FS_Union
  <2> QED BY <1>5, <2>2, <2>3
<1>7. IsFiniteSet(H2) /\ Cardinality(H2) = Cardinality(L) + (IF j \in H2 THEN 1 ELSE 0)
  <2>0. j \notin L
    BY <1>1
  <2>1. CASE j \in H2
    <3>1. H2 = L \cup {j}
      BY <1>1, <2>1
    <3> HIDE DEF L
    <3> QED BY <1>6, <2>0, <2>1, <3>1, FS_AddElement
  <2>2. CASE j \notin H2
    <3>1. H2 = L
      BY <1>1, <2>2
    <3>2. Cardinality(L) \in Nat
      BY <1>5, <1>6
    <3> QED BY <1>6, <2>2, <3>1, <3>2
  <2> QED BY <2>1, <2>2
<1>8. value'[x] + Cardinality(H2) = Bound(x)
  BY <1>2, <1>3, <1>4, <1>5, <1>6, <1>7, <1>s
<1> QED BY <1>7, <1>8 DEF H2

\* A free permit that somebody waits for is on its way to somebody else than j, or
\* has just been given to somebody.
LEMMA SpareKept ==
  ASSUME SchedulerTypeOK, SchedulerAssumption, NEW j \in Tasks, NEW q, NEW woken, Moved(j, q, woken),
         \A x \in Sems : waiters'[x] # <<>> /\ value'[x] # 0 =>
           (\E i \in Woken(x) : i # j) \/ Given(woken, x) # {}
  PROVE  NothingSpare'
<1> SUFFICES ASSUME NEW x \in Sems, waiters'[x] # <<>>, value'[x] # 0 PROVE Woken(x)' # {}
  BY DEF NothingSpare, Sems
<1>1. PICK i \in Tasks \ {j} : i \in Woken(x) \/ i \in Given(woken, x)
  BY HoldersMove DEF Woken
<1> QED BY <1>1, HoldersMove

\* The steps of a task that wakes nobody.
LEMMA NobodyGiven ==
  ASSUME NEW x
  PROVE  IsFiniteSet(Given({}, x)) /\ Cardinality(Given({}, x)) = 0
<1>1. Given({}, x) = {}
  BY DEF Given
<1> QED BY <1>1, FS_EmptySet

LEMMA StillWoken ==
  ASSUME SchedulerTypeOK, SchedulerAssumption, NothingSpare, NEW j \in Tasks, NEW x \in Sems,
         j \notin Woken(x), waiters[x] # <<>>, value[x] # 0
  PROVE  \E i \in Woken(x) : i # j
BY DEF NothingSpare

LEMMA SpawnKeeps ==
  ASSUME SInv, SchedulerAssumption, NEW j \in Tasks, Spawn(j)
  PROVE  SInv'
<1>1. Kept /\ Moved(j, "spawned", {})
  BY SpawnMoves DEF SInv
<1>2. /\ at[j] = "new" /\ value' = value /\ waiters' = waiters
  BY DEF Spawn
<1>3. \A x \in Sems : /\ Share(j, at[j], x) = 0 /\ Share(j, "spawned", x) = 0 /\ j \notin Woken(x)
  BY <1>2 DEF Share, Has, PastFirst, Woken
<1>4. Conserved'
  <2>1. \A x \in Sems :
           /\ IsFiniteSet(Given({}, x))
           /\ value'[x] = value[x] + Share(j, at[j], x) - Share(j, "spawned", x) - Cardinality(Given({}, x))
    BY <1>2, <1>3, NobodyGiven DEF SInv, SchedulerTypeOK
  <2> QED BY <1>1, <2>1, PermitsKept DEF SInv
<1>5. NothingSpare'
  BY <1>1, <1>2, <1>3, StillWoken, SpareKept DEF SInv
<1> QED BY <1>1, <1>4, <1>5 DEF SInv, Kept

LEMMA DropKeeps ==
  ASSUME SInv, SchedulerAssumption, NEW j \in Tasks, Drop(j)
  PROVE  SInv'
<1>1. Kept /\ Moved(j, "done", {})
  BY DropMoves DEF SInv
<1>2. /\ at[j] = "spawned" /\ value' = value /\ waiters' = waiters
  BY DEF Drop, Resumes
<1>3. \A x \in Sems : /\ Share(j, at[j], x) = 0 /\ Share(j, "done", x) = 0 /\ j \notin Woken(x)
  BY <1>2 DEF Share, Has, PastFirst, Woken
<1>4. Conserved'
  <2>1. \A x \in Sems :
           /\ IsFiniteSet(Given({}, x))
           /\ value'[x] = value[x] + Share(j, at[j], x) - Share(j, "done", x) - Cardinality(Given({}, x))
    BY <1>2, <1>3, NobodyGiven DEF SInv, SchedulerTypeOK
  <2> QED BY <1>1, <2>1, PermitsKept DEF SInv
<1>5. NothingSpare'
  BY <1>1, <1>2, <1>3, StillWoken, SpareKept DEF SInv
<1> QED BY <1>1, <1>4, <1>5 DEF SInv, Kept

\* Who queues finds the semaphore locked: no permit is free, or it is promised.
LEMMA Promised ==
  ASSUME SchedulerTypeOK, SchedulerAssumption, NothingSpare, NEW j \in Tasks, NEW x \in Sems,
         j \notin Woken(x), Locked(x), value[x] # 0
  PROVE  \E i \in Woken(x) : i # j
BY DEF NothingSpare, Locked

LEMMA QueueFirstKeeps ==
  ASSUME SInv, SchedulerAssumption, NEW j \in Tasks, QueueFirst(j)
  PROVE  SInv'
<1>1. Kept /\ Moved(j, "wait_first", {})
  BY QueueFirstMoves DEF SInv
<1>2. /\ at[j] = "spawned" /\ value' = value /\ Locked(First(j)) /\ First(j) \in Sems
      /\ \A y \in Sems \ {First(j)} : waiters'[y] = waiters[y]
  BY Permits DEF QueueFirst, Resumes, Wait, SInv, SchedulerTypeOK
<1>3. \A x \in Sems : /\ Share(j, at[j], x) = 0 /\ Share(j, "wait_first", x) = 0 /\ j \notin Woken(x)
  BY <1>2 DEF Share, Has, PastFirst, Woken
<1>4. Conserved'
  <2>1. \A x \in Sems :
           /\ IsFiniteSet(Given({}, x))
           /\ value'[x] = value[x] + Share(j, at[j], x) - Share(j, "wait_first", x) - Cardinality(Given({}, x))
    BY <1>2, <1>3, NobodyGiven DEF SInv, SchedulerTypeOK
  <2> QED BY <1>1, <2>1, PermitsKept DEF SInv
<1>5. NothingSpare'
  <2>1. ASSUME NEW x \in Sems, waiters'[x] # <<>>, value'[x] # 0
        PROVE  \E i \in Woken(x) : i # j
    BY <1>2, <1>3, <2>1, StillWoken, Promised DEF SInv
  <2> QED BY <1>1, <2>1, SpareKept DEF SInv
<1> QED BY <1>1, <1>4, <1>5 DEF SInv, Kept

LEMMA QueueSecondKeeps ==
  ASSUME SInv, SchedulerAssumption, NEW j \in Tasks, QueueSecond(j)
  PROVE  SInv'
<1>0. First(j) = SourceOf[j] /\ First(j) \in Sems /\ Second(j) = Global /\ Global \in Sems /\ First(j) # Global
  BY Permits
<1>1. Kept /\ Moved(j, "wait_second", {})
  BY QueueSecondMoves DEF SInv
<1>2. /\ at[j] = "spawned" /\ ~Locked(First(j)) /\ Locked(Global)
      /\ value'[First(j)] = value[First(j)] - 1
      /\ \A y \in Sems \ {First(j)} : value'[y] = value[y]
      /\ \A y \in Sems \ {Global} : waiters'[y] = waiters[y]
  BY <1>0 DEF QueueSecond, Resumes, Wait, SInv, SchedulerTypeOK
<1>3. \A x \in Sems : /\ Share(j, at[j], x) = 0 /\ j \notin Woken(x)
                      /\ Share(j, "wait_second", x) = IF x = First(j) THEN 1 ELSE 0
  BY <1>0, <1>2 DEF Share, Has, PastFirst, Woken
<1>4. Conserved'
  <2>1. ASSUME NEW x \in Sems
        PROVE  /\ IsFiniteSet(Given({}, x))
               /\ value'[x] = value[x] + Share(j, at[j], x) - Share(j, "wait_second", x) - Cardinality(Given({}, x))
    <3>1. value[x] \in Nat
      BY DEF SInv, SchedulerTypeOK
    <3> QED BY <1>2, <1>3, <3>1, NobodyGiven
  <2> QED BY <1>1, <2>1, PermitsKept DEF SInv
<1>5. NothingSpare'
  <2>1. ASSUME NEW x \in Sems, waiters'[x] # <<>>, value'[x] # 0
        PROVE  \E i \in Woken(x) : i # j
    <3>1. CASE x = First(j)
      <4>1. waiters[x] = <<>>
        BY <1>2, <3>1 DEF Locked
      <4> QED BY <1>0, <1>2, <2>1, <3>1, <4>1
    <3>2. CASE x # First(j)
      BY <1>0, <1>2, <1>3, <2>1, <3>2, StillWoken, Promised DEF SInv
    <3> QED BY <3>1, <3>2
  <2> QED BY <1>1, <2>1, SpareKept DEF SInv
<1> QED BY <1>1, <1>4, <1>5 DEF SInv, Kept

LEMMA RunAtOnceKeeps ==
  ASSUME SInv, SchedulerAssumption, NEW j \in Tasks, RunAtOnce(j)
  PROVE  SInv'
<1>0. First(j) = SourceOf[j] /\ First(j) \in Sems /\ Second(j) = Global /\ Global \in Sems /\ First(j) # Global
  BY Permits
<1>1. Kept /\ Moved(j, "running", {})
  BY RunAtOnceMoves DEF SInv
<1>2. /\ at[j] = "spawned" /\ ~Locked(First(j)) /\ ~Locked(Global) /\ waiters' = waiters
      /\ \A y \in Sems : value'[y] = IF y \in {First(j), Global} THEN value[y] - 1 ELSE value[y]
  BY <1>0 DEF RunAtOnce, Resumes
<1>3. \A x \in Sems : /\ Share(j, at[j], x) = 0 /\ j \notin Woken(x)
                      /\ Share(j, "running", x) = IF x \in {First(j), Global} THEN 1 ELSE 0
  BY <1>0, <1>2 DEF Share, Has, PastFirst, Woken
<1>4. Conserved'
  <2>1. ASSUME NEW x \in Sems
        PROVE  /\ IsFiniteSet(Given({}, x))
               /\ value'[x] = value[x] + Share(j, at[j], x) - Share(j, "running", x) - Cardinality(Given({}, x))
    <3>1. value[x] \in Nat
      BY DEF SInv, SchedulerTypeOK
    <3> QED BY <1>2, <1>3, <3>1, NobodyGiven
  <2> QED BY <1>1, <2>1, PermitsKept DEF SInv
<1>5. NothingSpare'
  <2>1. ASSUME NEW x \in Sems, waiters'[x] # <<>>, value'[x] # 0
        PROVE  \E i \in Woken(x) : i # j
    <3>1. x \notin {First(j), Global}
      BY <1>2, <2>1 DEF Locked
    <3> QED BY <1>2, <1>3, <2>1, <3>1, StillWoken DEF SInv
  <2> QED BY <1>1, <2>1, SpareKept DEF SInv
<1> QED BY <1>1, <1>4, <1>5 DEF SInv, Kept
\* What the first n waiters of x are given is one permit of x each.
LEMMA GivenTo ==
  ASSUME SchedulerTypeOK, SchedulerAssumption, QueuesMatch, NEW x \in Sems,
         NEW n \in 0..Len(waiters[x]), NEW woken, woken = ToSet(FirstWaiters(x, n)), NEW y \in Sems
  PROVE  /\ Given(woken, y) = IF y = x THEN woken ELSE {}
         /\ IsFiniteSet(Given(woken, y)) /\ Cardinality(Given(woken, y)) = IF y = x THEN n ELSE 0
         /\ n # 0 => woken # {}
<1>1. /\ \A i \in woken : i \in Tasks /\ Awaits(i, x)
      /\ IsFiniteSet(woken) /\ Cardinality(woken) = n /\ (n # 0 => woken # {})
  BY Wakes
<1>2. Given(woken, y) = IF y = x THEN woken ELSE {}
  BY <1>1 DEF Given, Awaits
<1>3. CASE y = x
  BY <1>1, <1>2, <1>3
<1>4. CASE y # x
  <2>1. Given(woken, y) = {}
    BY <1>2, <1>4
  <2> QED BY <1>1, <1>4, <2>1, FS_EmptySet
<1> QED BY <1>3, <1>4

LEMMA WakeFirstKeeps ==
  ASSUME SInv, SchedulerAssumption, NEW j \in Tasks, WakeFirst(j)
  PROVE  SInv'
<1> DEFINE x == First(j)
           n == Spare(x)
           woken == ToSet(FirstWaiters(x, n))
           q == IF Locked(Second(j)) THEN "wait_second" ELSE "running"
<1>0. x = SourceOf[j] /\ x \in Sems /\ Second(j) = Global /\ Global \in Sems /\ x # Global
  BY Permits
<1>1. Kept /\ Moved(j, q, woken)
  BY WakeFirstMoves DEF SInv
<1>2. /\ at[j] = "woken_first" /\ q = IF Locked(Global) THEN "wait_second" ELSE "running"
      /\ \A y \in Sems : value'[y] =
           IF y = x THEN value[y] - n
           ELSE IF y = Global /\ ~Locked(Global) THEN value[y] - 1 ELSE value[y]
      /\ \A y \in Sems \ {x} : y # Global \/ ~Locked(Global) => waiters'[y] = waiters[y]
      /\ waiters'[x] = WithoutFirst(x, n)
  BY <1>0 DEF WakeFirst, Resumes
<1>3. /\ n \in 0..Len(waiters[x]) /\ (n = Len(waiters[x]) \/ n = value[x])
      /\ n \in Nat
  BY <1>0, Spares DEF SInv, SchedulerTypeOK
<1>w. woken = ToSet(FirstWaiters(x, n))
  OBVIOUS
<1> HIDE DEF n, q, woken
<1>4. \A y \in Sems : /\ IsFiniteSet(Given(woken, y))
                      /\ Cardinality(Given(woken, y)) = IF y = x THEN n ELSE 0
  BY <1>0, <1>3, <1>w, GivenTo DEF SInv
<1>5. \A y \in Sems : /\ Share(j, at[j], y) = IF y = x THEN 1 ELSE 0
                      /\ Share(j, q, y) = IF y = x \/ (y = Global /\ ~Locked(Global)) THEN 1 ELSE 0
                      /\ j \in Woken(y) => y = x
  BY <1>0, <1>2 DEF Share, Has, PastFirst, Woken
<1> HIDE DEF x
<1>6. Conserved'
  <2>1. ASSUME NEW y \in Sems
        PROVE  /\ IsFiniteSet(Given(woken, y))
               /\ value'[y] = value[y] + Share(j, at[j], y) - Share(j, q, y) - Cardinality(Given(woken, y))
    <3>1. value[y] \in Nat
      BY DEF SInv, SchedulerTypeOK
    <3> QED BY <1>0, <1>2, <1>3, <1>4, <1>5, <3>1
  <2> QED BY <1>1, <2>1, PermitsKept DEF SInv
<1>7. NothingSpare'
  <2>1. ASSUME NEW y \in Sems, waiters'[y] # <<>>, value'[y] # 0
        PROVE  \E i \in Woken(y) : i # j
    <3>1. CASE y = x
      <4>1. n # Len(waiters[x])
        <5>1. n = Len(waiters[x]) => WithoutFirst(x, n) = <<>>
          BY <1>0, <1>3, Wakes DEF SInv
        <5> QED BY <1>2, <2>1, <3>1, <5>1
      <4>2. value'[x] = 0
        BY <1>0, <1>2, <1>3, <4>1
      <4> QED BY <2>1, <3>1, <4>2
    <3>2. CASE y # x /\ y = Global /\ ~Locked(Global)
      BY <1>2, <2>1, <3>2 DEF Locked
    <3>3. CASE y # x /\ y = Global /\ Locked(Global)
      BY <1>2, <1>5, <2>1, <3>3, Promised DEF SInv
    <3>4. CASE y # x /\ y # Global
      BY <1>2, <1>5, <2>1, <3>4, StillWoken DEF SInv
    <3> QED BY <3>1, <3>2, <3>3, <3>4
  <2> QED BY <1>1, <2>1, SpareKept DEF SInv
<1> QED BY <1>1, <1>6, <1>7 DEF SInv, Kept

LEMMA WakeSecondKeeps ==
  ASSUME SInv, SchedulerAssumption, NEW j \in Tasks, WakeSecond(j)
  PROVE  SInv'
<1> DEFINE n == Spare(Global)
           woken == ToSet(FirstWaiters(Global, n))
<1>0. First(j) = SourceOf[j] /\ Second(j) = Global /\ Global \in Sems /\ SourceOf[j] # Global
  BY Permits
<1>1. Kept /\ Moved(j, "running", woken)
  BY WakeSecondMoves DEF SInv
<1>2. /\ at[j] = "woken_second"
      /\ value'[Global] = value[Global] - n /\ waiters'[Global] = WithoutFirst(Global, n)
      /\ \A y \in Sems \ {Global} : value'[y] = value[y] /\ waiters'[y] = waiters[y]
  BY <1>0 DEF WakeSecond, Resumes, SInv, SchedulerTypeOK
<1>3. /\ n \in 0..Len(waiters[Global]) /\ (n = Len(waiters[Global]) \/ n = value[Global])
      /\ n \in Nat
  BY <1>0, Spares DEF SInv, SchedulerTypeOK
<1>w. woken = ToSet(FirstWaiters(Global, n))
  OBVIOUS
<1> HIDE DEF n, woken
<1>4. \A y \in Sems : /\ IsFiniteSet(Given(woken, y))
                      /\ Cardinality(Given(woken, y)) = IF y = Global THEN n ELSE 0
  BY <1>0, <1>3, <1>w, GivenTo DEF SInv
<1>5. \A y \in Sems : /\ Share(j, at[j], y) = Share(j, "running", y) /\ Share(j, at[j], y) \in {0, 1}
                      /\ j \in Woken(y) => y = Global
  BY <1>0, <1>2 DEF Share, Has, PastFirst, Woken
<1>6. Conserved'
  <2>1. ASSUME NEW y \in Sems
        PROVE  /\ IsFiniteSet(Given(woken, y))
               /\ value'[y] = value[y] + Share(j, at[j], y) - Share(j, "running", y) - Cardinality(Given(woken, y))
    <3>1. value[y] \in Nat
      BY DEF SInv, SchedulerTypeOK
    <3> QED BY <1>2, <1>3, <1>4, <1>5, <3>1
  <2> QED BY <1>1, <2>1, PermitsKept DEF SInv
<1>7. NothingSpare'
  <2>1. ASSUME NEW y \in Sems, waiters'[y] # <<>>, value'[y] # 0
        PROVE  \E i \in Woken(y) : i # j
    <3>1. CASE y = Global
      <4>1. n # Len(waiters[Global])
        <5>1. n = Len(waiters[Global]) => WithoutFirst(Global, n) = <<>>
          BY <1>0, <1>3, Wakes DEF SInv
        <5> QED BY <1>2, <2>1, <3>1, <5>1
      <4>2. value'[Global] = 0
        BY <1>2, <1>3, <4>1
      <4> QED BY <2>1, <3>1, <4>2
    <3>2. CASE y # Global
      BY <1>2, <1>5, <2>1, <3>2, StillWoken DEF SInv
    <3> QED BY <3>1, <3>2
  <2> QED BY <1>1, <2>1, SpareKept DEF SInv
<1> QED BY <1>1, <1>6, <1>7 DEF SInv, Kept

LEMMA FinishKeeps ==
  ASSUME SInv, SchedulerAssumption, NEW j \in Tasks, Finish(j)
  PROVE  SInv'
<1> DEFINE x == SourceOf[j]
           w1 == ToSet(FirstWaiters(x, Relieved(x)))
           w2 == ToSet(FirstWaiters(Global, Relieved(Global)))
           woken == w1 \cup w2
<1>0. First(j) = x /\ x \in Sems /\ Second(j) = Global /\ Global \in Sems /\ x # Global
  BY Permits
<1>1. Kept /\ Moved(j, "done", woken)
  BY FinishMoves DEF SInv
<1>2. /\ at[j] = "running"
      /\ \A y \in {x, Global} : /\ value'[y] = value[y] + 1 - Relieved(y)
                                /\ waiters'[y] = WithoutFirst(y, Relieved(y))
      /\ \A y \in Sems \ {x, Global} : value'[y] = value[y] /\ waiters'[y] = waiters[y]
  BY <1>0 DEF Finish
<1>3. \A y \in Sems : /\ Relieved(y) \in 0..Len(waiters[y])
                      /\ Relieved(y) = Len(waiters[y]) \/ Relieved(y) = 1
                      /\ Relieved(y) \in Nat
  BY <1>0, Spares DEF SInv, SchedulerTypeOK
<1>4. ASSUME NEW y \in Sems
      PROVE  /\ Given(w1, y) = IF y = x THEN w1 ELSE {}
             /\ Given(w2, y) = IF y = Global THEN w2 ELSE {}
             /\ IsFiniteSet(Given(w1, y)) /\ Cardinality(Given(w1, y)) = IF y = x THEN Relieved(x) ELSE 0
             /\ IsFiniteSet(Given(w2, y))
             /\ Cardinality(Given(w2, y)) = IF y = Global THEN Relieved(Global) ELSE 0
             /\ Relieved(x) # 0 => w1 # {}
             /\ Relieved(Global) # 0 => w2 # {}
  <2>1. /\ Relieved(x) \in 0..Len(waiters[x]) /\ w1 = ToSet(FirstWaiters(x, Relieved(x)))
        /\ Relieved(Global) \in 0..Len(waiters[Global])
        /\ w2 = ToSet(FirstWaiters(Global, Relieved(Global)))
    BY <1>0, <1>3
  <2> HIDE DEF w1, w2, x
  <2>2. /\ Given(w1, y) = IF y = x THEN w1 ELSE {}
        /\ IsFiniteSet(Given(w1, y)) /\ Cardinality(Given(w1, y)) = IF y = x THEN Relieved(x) ELSE 0
        /\ Relieved(x) # 0 => w1 # {}
    BY <1>0, <2>1, GivenTo DEF SInv
  <2>3. /\ Given(w2, y) = IF y = Global THEN w2 ELSE {}
        /\ IsFiniteSet(Given(w2, y))
        /\ Cardinality(Given(w2, y)) = IF y = Global THEN Relieved(Global) ELSE 0
        /\ Relieved(Global) # 0 => w2 # {}
    BY <1>0, <2>1, GivenTo DEF SInv
  <2> QED BY <2>2, <2>3
<1> HIDE DEF w1, w2
<1>5. ASSUME NEW y \in Sems
      PROVE  /\ Given(woken, y) = IF y = x THEN w1 ELSE IF y = Global THEN w2 ELSE {}
             /\ IsFiniteSet(Given(woken, y))
             /\ Cardinality(Given(woken, y)) = IF y \in {x, Global} THEN Relieved(y) ELSE 0
  <2>1. Given(woken, y) = Given(w1, y) \cup Given(w2, y)
    BY DEF Given
  <2>2. Given(woken, y) = IF y = x THEN w1 ELSE IF y = Global THEN w2 ELSE {}
    BY <1>0, <1>4, <2>1
  <2>3. Given(woken, y) = IF y = x THEN Given(w1, y) ELSE Given(w2, y)
    BY <1>0, <1>4, <2>2
  <2> QED BY <1>0, <1>4, <2>2, <2>3
<1> HIDE DEF woken
<1>6. \A y \in Sems : /\ Share(j, at[j], y) = IF y \in {x, Global} THEN 1 ELSE 0
                      /\ Share(j, "done", y) = 0
                      /\ j \notin Woken(y)
  BY <1>0, <1>2 DEF Share, Has, PastFirst, Woken
<1> HIDE DEF x
<1>7. Conserved'
  <2>1. ASSUME NEW y \in Sems
        PROVE  /\ IsFiniteSet(Given(woken, y))
               /\ value'[y] = value[y] + Share(j, at[j], y) - Share(j, "done", y) - Cardinality(Given(woken, y))
    <3>1. value[y] \in Nat /\ Relieved(y) \in Nat
      BY <1>3 DEF SInv, SchedulerTypeOK
    <3> QED BY <1>2, <1>5, <1>6, <3>1
  <2> QED BY <1>1, <2>1, PermitsKept DEF SInv
<1>8. NothingSpare'
  <2>1. ASSUME NEW y \in Sems, waiters'[y] # <<>>, value'[y] # 0
        PROVE  (\E i \in Woken(y) : i # j) \/ Given(woken, y) # {}
    <3>1. CASE y \in {x, Global}
      <4>1. Relieved(y) = Len(waiters[y]) => WithoutFirst(y, Relieved(y)) = <<>>
        <5> DEFINE n == Relieved(y)
                   w == ToSet(FirstWaiters(y, n))
        <5>1. n \in 0..Len(waiters[y])
          BY <1>3
        <5> HIDE DEF n
        <5>2. n = Len(waiters[y]) => WithoutFirst(y, n) = <<>>
          BY <5>1, Wakes DEF SInv
        <5> QED BY <5>2 DEF n
      <4>2. Relieved(y) # 0
        BY <1>2, <1>3, <2>1, <3>1, <4>1
      <4> QED BY <1>0, <1>4, <1>5, <3>1, <4>2
    <3>2. CASE y \notin {x, Global}
      BY <1>2, <1>6, <2>1, <3>2, StillWoken DEF SInv
    <3> QED BY <3>1, <3>2
  <2> QED BY <1>1, <2>1, SpareKept DEF SInv
<1> QED BY <1>1, <1>7, <1>8 DEF SInv, Kept

-----------------------------------------------------------------------------
\* SInv holds of every reachable state (JobManager._spawn, _run_guarded and the
\* two semaphores they take).
THEOREM SchedulerInductive == SchedulerSpec => []SInv
<1>1. SchedulerInit => SInv
  <2> SUFFICES ASSUME SchedulerInit PROVE SInv
    OBVIOUS
  <2>1. SchedulerTypeOK
    BY AdmissionAssumption, Bounds DEF SchedulerInit, SchedulerTypeOK, Points
  <2>2. QueuesMatch
    BY DEF SchedulerInit, QueuesMatch, Awaits, Due, IsInjective, ToSet
  <2>3. NothingSpare
    BY DEF SchedulerInit, NothingSpare
  <2>4. Conserved
    <3>1. ASSUME NEW x \in Sems PROVE Holders(x) = {}
      BY DEF SchedulerInit, Holders, PastFirst
    <3>2. \A x \in Sems : value[x] = Bound(x) /\ Bound(x) \in Nat
      BY AdmissionAssumption, Bounds DEF SchedulerInit
    <3>3. \A x \in Sems : IsFiniteSet(Holders(x)) /\ Cardinality(Holders(x)) = 0
      BY <3>1, FS_EmptySet
    <3>4. \A x \in Sems : value[x] + 0 = Bound(x)
      BY <3>2
    <3> QED BY <3>3, <3>4 DEF Conserved
  <2>5. InOrder
    BY DEF SchedulerInit, InOrder, IsInjective
  <2> QED BY <2>1, <2>2, <2>3, <2>4, <2>5 DEF SInv
<1>2. SInv /\ [SchedulerNext]_schedulerVars => SInv'
  <2> SUFFICES ASSUME SInv, [SchedulerNext]_schedulerVars PROVE SInv'
    OBVIOUS
  <2>1. CASE UNCHANGED schedulerVars
    BY <2>1 DEF schedulerVars, SInv, SchedulerTypeOK, QueuesMatch, Awaits, Due, NothingSpare, Woken,
                Conserved, Holders, InOrder, Started, Ahead, Passed, Line
  <2>2. CASE SchedulerNext
    BY <2>2, AdmissionAssumption, SpawnKeeps, DropKeeps, QueueFirstKeeps, QueueSecondKeeps,
       RunAtOnceKeeps, WakeFirstKeeps, WakeSecondKeeps, FinishKeeps DEF SchedulerNext, Turn
  <2> QED BY <2>1, <2>2
<1> QED BY <1>1, <1>2, PTL DEF SchedulerSpec

\* What the docstring of _run_guarded and the comments on D-30 and #267 promise: no
\* more engines run than the bounds allow, no job sits on a global permit while it
\* waits for its source, no wakeup is lost, and the jobs of a source start in order.
THEOREM AdmissionSound == SchedulerSpec => []AdmissionIsSound
<1>1. SInv => AdmissionIsSound
  <2> SUFFICES ASSUME SInv PROVE AdmissionIsSound
    OBVIOUS
  <2>1. PermitsConserved
    BY DEF SInv, Conserved, PermitsConserved
  <2>2. NoSquatting
    <3>1. \A i \in Tasks : First(i) # Global /\ Second(i) = Global
      BY Permits, AdmissionAssumption
    <3>2. Holders(Global) = {i \in Tasks : at[i] \in {"woken_second", "running"}}
      BY <3>1 DEF Holders
    <3>3. Global \in Sems /\ Bound(Global) = MaxConcurrentChapters
      BY DEF Sems, Bound
    <3> QED BY <2>1, <3>2, <3>3 DEF PermitsConserved, NoSquatting
  <2>3. WorkConserving
    <3> SUFFICES ASSUME ready = <<>>, NEW x \in Sems, waiters[x] # <<>> PROVE value[x] = 0
      BY DEF WorkConserving
    <3>1. Due = {}
      BY DEF SInv, QueuesMatch, ToSet
    <3>2. Woken(x) = {}
      BY <3>1 DEF Woken, Due
    <3> QED BY <3>2 DEF SInv, NothingSpare
  <2>4. StartInOrder
    <3> SUFFICES ASSUME NEW m \in DOMAIN begun, NEW n \in DOMAIN begun, m < n,
                        SourceOf[begun[m]] = SourceOf[begun[n]], Passed(begun[n])
                 PROVE  Passed(begun[m])
      BY DEF StartInOrder
    <3>1. Ahead(begun[m], begun[n]) /\ Started(begun[m]) /\ begun[m] \in Tasks
      BY DEF SInv, InOrder, SchedulerTypeOK
    <3> QED BY <3>1 DEF Ahead, Rank, Passed, Started, SInv, SchedulerTypeOK, Points
  <2> QED BY <2>1, <2>2, <2>3, <2>4 DEF SInv, AdmissionIsSound
<1> QED BY <1>1, SchedulerInductive, PTL

-----------------------------------------------------------------------------
(* The size of a set of pages.                                             *)

\* Induction over the naturals, for a set in place of a predicate.
LEMMA AllNaturals ==
  ASSUME NEW T, 0 \in T, \A m \in Nat : m \in T => m + 1 \in T
  PROVE  \A m \in Nat : m \in T
<1> DEFINE Bad == Nat \ T
<1> SUFFICES ASSUME Bad # {} PROVE FALSE
  OBVIOUS
<1>1. PICK m \in Bad : \A y \in Bad : ~(<<y, m>> \in OpToRel(<, Nat))
  <2>1. Bad \subseteq Nat
    OBVIOUS
  <2> HIDE DEF Bad
  <2> QED BY <2>1, NatLessThanWellFounded, WFMin
<1>2. \A y \in Bad : ~(y < m)
  BY <1>1 DEF OpToRel
<1>3. m \in Nat /\ m \notin T
  OBVIOUS
<1>4. m # 0
  BY <1>3
<1>5. m - 1 \in Nat /\ m - 1 < m /\ (m - 1) + 1 = m
  BY <1>3, <1>4
<1>6. m - 1 \in T
  BY <1>2, <1>5
<1> QED BY <1>3, <1>5, <1>6

\* The sizes of the pages of S up to page m.
Sums(S, m, f) ==
  f = [n \in 0..m |-> IF n = 0 THEN 0 ELSE f[n - 1] + (IF n \in S THEN PageSize[n] ELSE 0)]

\* There are such sums, page by page.
LEMMA SumsExist == ASSUME NEW S PROVE \A m \in Nat : \E f : Sums(S, m, f)
<1> DEFINE c(n) == IF n \in S THEN PageSize[n] ELSE 0
           Good == {m \in Nat : \E f : Sums(S, m, f)}
<1>1. 0 \in Good
  <2>1. Sums(S, 0, [n \in 0..0 |-> 0])
    BY DEF Sums
  <2> QED BY <2>1
<1>2. ASSUME NEW k \in Nat, k \in Good PROVE k + 1 \in Good
  <2>1. PICK f : Sums(S, k, f)
    BY <1>2
  <2> DEFINE g == [n \in 0..(k + 1) |-> IF n = k + 1 THEN f[k] + c(k + 1) ELSE f[n]]
  <2>2. ASSUME NEW n \in 0..(k + 1) PROVE g[n] = IF n = 0 THEN 0 ELSE g[n - 1] + c(n)
    <3> HIDE DEF c
    <3>1. CASE n = k + 1
      BY <3>1
    <3>2. CASE n # k + 1
      <4>1. n \in 0..k /\ g[n] = f[n] /\ (n # 0 => n - 1 \in 0..(k + 1) /\ n - 1 # k + 1 /\ g[n - 1] = f[n - 1])
        BY <3>2
      <4>2. f[n] = IF n = 0 THEN 0 ELSE f[n - 1] + c(n)
        BY <4>1, <2>1 DEF Sums, c
      <4> HIDE DEF g
      <4> QED BY <4>1, <4>2
    <3> QED BY <3>1, <3>2
  <2>3. g = [n \in 0..(k + 1) |-> IF n = 0 THEN 0 ELSE g[n - 1] + c(n)]
    <3>1. g = [n \in 0..(k + 1) |-> g[n]]
      OBVIOUS
    <3> HIDE DEF g, c
    <3> QED BY <2>2, <3>1
  <2>4. Sums(S, k + 1, g)
    BY <2>3 DEF Sums
  <2> HIDE DEF g
  <2> QED BY <2>4
<1>3. \A m \in Nat : m \in Good
  <2> HIDE DEF Good
  <2> QED BY <1>1, <1>2, AllNaturals
<1> QED BY <1>3

LEMMA BytesAre == ASSUME NEW S PROVE \E f : Sums(S, MaxPages, f) /\ BytesOf(S) = f[MaxPages]
<1> DEFINE h == CHOOSE f : Sums(S, MaxPages, f)
<1>1. Sums(S, MaxPages, h)
  BY SumsExist, PageFetchAssumption
<1>2. BytesOf(S) = h[MaxPages]
  BY DEF Sums, BytesOf
<1> HIDE DEF h
<1> QED BY <1>1, <1>2

\* The equation, page by page; the sums are naturals.
SumsUp(S, f) ==
  /\ f[0] = 0
  /\ \A n \in Pages : f[n] = f[n - 1] + (IF n \in S THEN PageSize[n] ELSE 0)
  /\ \A n \in Nat : n <= MaxPages => f[n] \in Nat

LEMMA SumsAre ==
  ASSUME NEW S \in SUBSET Pages, NEW f, Sums(S, MaxPages, f)
  PROVE  SumsUp(S, f)
<1> USE PageFetchAssumption
<1>1. f[0] = 0
  BY DEF Sums
<1>2. ASSUME NEW n \in Pages PROVE f[n] = f[n - 1] + (IF n \in S THEN PageSize[n] ELSE 0)
  <2>1. n \in 0..MaxPages /\ n # 0
    BY DEF Pages
  <2> QED BY <2>1 DEF Sums
<1>3. \A n \in Pages : PageSize[n] \in Nat
  BY DEF Pages
<1> DEFINE Good == {m \in Nat : m <= MaxPages => f[m] \in Nat}
<1>4. ASSUME NEW k \in Nat, k \in Good, k + 1 <= MaxPages PROVE f[k + 1] \in Nat
  <2>1. k + 1 \in Pages /\ f[k] \in Nat /\ (k + 1) - 1 = k
    BY <1>4 DEF Pages
  <2>2. f[k + 1] = f[k] + (IF k + 1 \in S THEN PageSize[k + 1] ELSE 0) /\ PageSize[k + 1] \in Nat
    BY <1>2, <1>3, <2>1
  <2> HIDE DEF Good
  <2> QED BY <2>1, <2>2
<1>5. \A m \in Nat : m \in Good
  <2>1. 0 \in Good /\ \A k \in Nat : k \in Good => k + 1 \in Good
    BY <1>1, <1>4
  <2> HIDE DEF Good
  <2> QED BY <2>1, AllNaturals
<1> QED BY <1>1, <1>2, <1>5 DEF SumsUp

\* The bytes of a set of pages are such a sum.
LEMMA BytesBy ==
  ASSUME NEW S \in SUBSET Pages
  PROVE  \E f : BytesOf(S) = f[MaxPages] /\ SumsUp(S, f)
BY BytesAre, SumsAre

\* No pages have no bytes, and one page more adds its own.
LEMMA NoBytes == ASSUME NEW S \in SUBSET Pages, \A n \in Pages : n \notin S PROVE BytesOf(S) = 0
<1> USE PageFetchAssumption
<1>1. PICK f : BytesOf(S) = f[MaxPages] /\ SumsUp(S, f)
  BY BytesBy
<1>2. /\ f[0] = 0 /\ \A n \in Pages : f[n] = f[n - 1] + (IF n \in S THEN PageSize[n] ELSE 0)
  BY <1>1 DEF SumsUp
<1>3. f[0] = 0 /\ \A n \in Pages : f[n] = f[n - 1] + 0
  BY <1>2
<1> DEFINE Good == {m \in Nat : m <= MaxPages => f[m] = 0}
<1>4. ASSUME NEW k \in Nat, k \in Good, k + 1 <= MaxPages PROVE f[k + 1] = 0
  <2>1. k + 1 \in Pages /\ f[k] = 0 /\ (k + 1) - 1 = k
    BY <1>4 DEF Pages
  <2>2. f[k + 1] = f[k] + 0
    BY <1>3, <2>1
  <2> QED BY <2>1, <2>2
<1>5. \A m \in Nat : m \in Good
  <2>1. 0 \in Good /\ \A k \in Nat : k \in Good => k + 1 \in Good
    BY <1>3, <1>4
  <2> HIDE DEF Good
  <2> QED BY <2>1, AllNaturals
<1> QED BY <1>1, <1>5

LEMMA Regroups ==
  ASSUME NEW u \in Nat, NEW v \in Nat, NEW w \in Nat, NEW x \in Nat, NEW y \in Nat, w + v = x + y
  PROVE  (u + v) + w = (u + x) + y
OBVIOUS

LEMMA OnePageMore ==
  ASSUME NEW S \in SUBSET Pages, NEW p \in Pages, p \notin S
  PROVE  BytesOf(S \cup {p}) = BytesOf(S) + PageSize[p]
<1> USE PageFetchAssumption
<1> DEFINE T == S \cup {p}
<1>0. T \in SUBSET Pages
  OBVIOUS
<1>1. PICK f : BytesOf(S) = f[MaxPages] /\ SumsUp(S, f)
  BY BytesBy
<1>2. PICK g : BytesOf(T) = g[MaxPages] /\ SumsUp(T, g)
  BY <1>0, BytesBy
<1> DEFINE a == [n \in Pages |-> IF n \in S THEN PageSize[n] ELSE 0]
           b == [n \in Pages |-> IF n \in T THEN PageSize[n] ELSE 0]
           d == [n \in 0..MaxPages |-> IF p <= n THEN PageSize[p] ELSE 0]
<1>3. f[0] = 0 /\ (\A n \in Pages : f[n] = f[n - 1] + a[n]) /\ \A n \in Nat : n <= MaxPages => f[n] \in Nat
  BY <1>1 DEF SumsUp
<1>4. g[0] = 0 /\ \A n \in Pages : g[n] = g[n - 1] + b[n]
  BY <1>2 DEF SumsUp
<1>5. ASSUME NEW n \in Pages
      PROVE  /\ a[n] \in Nat /\ b[n] \in Nat /\ d[n] \in Nat /\ d[n - 1] \in Nat
             /\ b[n] + d[n - 1] = a[n] + d[n] /\ f[n - 1] \in Nat
  <2>1. /\ n \in Nat /\ p \in Nat /\ PageSize[n] \in Nat /\ PageSize[p] \in Nat
        /\ n \in 0..MaxPages /\ n - 1 \in 0..MaxPages
    BY DEF Pages
  <2>2. f[n - 1] \in Nat
    BY <1>3, <2>1
  <2>3. CASE n = p
    BY <2>1, <2>2, <2>3
  <2>4. CASE n # p
    BY <2>1, <2>2, <2>4
  <2> QED BY <2>3, <2>4
<1>6. g[0] = f[0] + d[0] /\ d[MaxPages] = PageSize[p] /\ MaxPages \in Nat
  BY <1>3, <1>4 DEF Pages
<1>7. g[MaxPages] = f[MaxPages] + d[MaxPages]
  <2> HIDE DEF a, b, d
  <2> DEFINE Good == {m \in Nat : m <= MaxPages => g[m] = f[m] + d[m]}
  <2>1. ASSUME NEW k \in Nat, k \in Good, k + 1 <= MaxPages PROVE g[k + 1] = f[k + 1] + d[k + 1]
    <3>1. k + 1 \in Pages /\ (k + 1) - 1 = k /\ g[k] = f[k] + d[k]
      BY <2>1 DEF Pages
    <3>2. f[k + 1] = f[k] + a[k + 1] /\ g[k + 1] = g[k] + b[k + 1]
      BY <1>3, <1>4, <3>1
    <3>3. /\ a[k + 1] \in Nat /\ b[k + 1] \in Nat /\ d[k + 1] \in Nat /\ d[k] \in Nat
          /\ b[k + 1] + d[k] = a[k + 1] + d[k + 1] /\ f[k] \in Nat
      BY <1>5, <3>1
    <3>4. g[k + 1] = (f[k] + d[k]) + b[k + 1]
      BY <3>1, <3>2
    <3>5. (f[k] + d[k]) + b[k + 1] = (f[k] + a[k + 1]) + d[k + 1]
      BY ONLY <3>3, Regroups
    <3> QED BY <3>2, <3>4, <3>5
  <2>2. 0 \in Good /\ \A k \in Nat : k \in Good => k + 1 \in Good
    BY <1>6, <2>1
  <2>3. \A m \in Nat : m \in Good
    <3> HIDE DEF Good
    <3> QED BY <2>2, AllNaturals
  <2> QED BY <1>6, <2>3
<1> QED BY <1>1, <1>2, <1>6, <1>7

-----------------------------------------------------------------------------
(* The fetch of the pages of a job.                                        *)

Runs == stage \in {"fetching", "aborting", "archiving"}

\* A pass has a manifest and a page has tries left while it goes on; between
\* two passes no page is kept; a page that did not come has raised something.
PassFits ==
  /\ Runs => length # 0
  /\ stage = "resolving" => \A p \in Pages : page[p] = "unused"
  /\ \A p \in Manifest : page[p] \in {"waiting", "sleeping"} => tries[p] < Attempts
  /\ Runs /\ errors = {} => stage # "aborting" /\ \A p \in Manifest : page[p] \notin {"lost", "cancelled"}

FInv == FetchTypeOK /\ PassFits /\ AllOrNothing /\ ProgressIsThisPass

\* The progress after a step, in the sizes of the constants.
LEMMA NextProgress ==
  ASSUME NEW S, InState("ok")' = S, downloaded_pages' = Cardinality(S), downloaded_bytes' = BytesOf(S)
  PROVE  ProgressIsThisPass'
BY DEF ProgressIsThisPass

LEMMA FetchInitInv == FetchInit => FInv
<1> SUFFICES ASSUME FetchInit PROVE FInv
  OBVIOUS
<1> USE PageFetchAssumption DEF FetchInit
<1>1. FetchTypeOK
  BY DEF FetchTypeOK, Stages, PageStates, MaxManifestReresolves, ErrorKinds
<1>2. PassFits /\ AllOrNothing
  BY DEF PassFits, AllOrNothing, Manifest, Runs
<1>3. ProgressIsThisPass
  <2>1. InState("ok") = {}
    BY DEF InState, Manifest
  <2>2. Cardinality({}) = 0
    BY FS_EmptySet
  <2>3. BytesOf(InState("ok")) = 0
    BY <2>1, NoBytes
  <2> QED BY <2>1, <2>2, <2>3 DEF ProgressIsThisPass
<1> QED BY <1>1, <1>2, <1>3 DEF FInv

\* A pass begins with what there is to show of it, nothing.
LEMMA ResolveKeeps ==
  ASSUME FInv, NEW n \in Pages, ResolveManifest(n)
  PROVE  FInv'
<1> USE PageFetchAssumption
<1>1. /\ stage = "resolving" /\ stage' = "fetching" /\ length' = n /\ errors' = {}
      /\ page' = [p \in Pages |-> IF p <= n THEN "waiting" ELSE "unused"]
      /\ tries' = [p \in Pages |-> 0] /\ reresolves' = reresolves
  BY DEF ResolveManifest, BeginPass
<1>2. InState("ok") = {} /\ InState("ok")' = {}
  <2>1. InState("ok") = {}
    BY <1>1 DEF FInv, PassFits, InState, Manifest, Pages, FetchTypeOK
  <2>2. InState("ok")' = {}
    BY <1>1 DEF InState, Manifest, Pages
  <2> QED BY <2>1, <2>2
<1>3. downloaded_pages = 0 /\ downloaded_bytes = 0
  <2>1. Cardinality({}) = 0 /\ BytesOf(InState("ok")) = 0
    BY <1>2, FS_EmptySet, NoBytes
  <2> QED BY <1>2, <2>1 DEF FInv, ProgressIsThisPass
<1>4. /\ downloaded_pages' = 0 /\ downloaded_bytes' = 0
      /\ total_pages' \in 0..MaxPages
  BY <1>3 DEF ResolveManifest, counters, FInv, FetchTypeOK, Pages
<1>5. FetchTypeOK'
  BY <1>1, <1>4 DEF FInv, FetchTypeOK, Stages, PageStates, ErrorKinds, Pages
<1>6. PassFits' /\ AllOrNothing'
  BY <1>1 DEF PassFits, AllOrNothing, Manifest, Runs, Pages
<1>7. ProgressIsThisPass'
  <2>1. Cardinality({}) = 0 /\ BytesOf(InState("ok")')  = 0
    BY <1>2, FS_EmptySet, NoBytes
  <2> QED BY <1>2, <1>4, <2>1 DEF ProgressIsThisPass, BytesOf
<1> QED BY <1>5, <1>6, <1>7 DEF FInv

\* A page moves, and is not kept.
LEMMA MoveKeeps ==
  ASSUME FInv, NEW p \in Manifest, NEW s \in PageStates \ {"ok"}, Move(p, s),
         stage \in {"fetching", "aborting"}, page[p] \notin Ended,
         stage' \in {stage, "aborting"}, UNCHANGED <<reresolves, length, counters>>,
         tries' \in [Pages -> 0..Attempts], \A q \in Pages \ {p} : tries'[q] = tries[q],
         s \in {"waiting", "sleeping"} => tries'[p] < Attempts,
         errors \subseteq errors', errors' \subseteq ErrorKinds,
         s \in {"lost", "cancelled"} \/ stage' = "aborting" => errors' # {}
  PROVE  FInv'
<1> USE PageFetchAssumption
<1>1. /\ p \in Pages /\ page \in [Pages -> PageStates] /\ page' = [page EXCEPT ![p] = s] /\ length \in 0..MaxPages
  BY DEF Move, FInv, FetchTypeOK, Manifest, Pages
<1>2. page' \in [Pages -> PageStates] /\ page'[p] = s /\ \A q \in Pages \ {p} : page'[q] = page[q]
  BY <1>1
<1>3. UNCHANGED <<reresolves, length, total_pages, downloaded_pages, downloaded_bytes>>
  BY DEF counters
<1>4. FetchTypeOK'
  BY <1>2, <1>3 DEF FInv, FetchTypeOK, Stages
<1>5. Manifest' = Manifest /\ Manifest \subseteq Pages
  BY <1>1, <1>3 DEF Manifest, Pages
<1>6. PassFits'
  <2>1. Runs' => length' # 0
    BY <1>3 DEF FInv, PassFits, Runs
  <2>2. stage' # "resolving"
    OBVIOUS
  <2>3. ASSUME NEW q \in Manifest, page'[q] \in {"waiting", "sleeping"} PROVE tries'[q] < Attempts
    BY <1>2, <1>5, <2>3 DEF FInv, PassFits
  <2>4. ASSUME errors' = {} PROVE stage' # "aborting" /\ \A q \in Manifest : page'[q] \notin {"lost", "cancelled"}
    BY <1>2, <1>5, <2>4 DEF FInv, PassFits, Runs
  <2> QED BY <1>5, <2>1, <2>2, <2>3, <2>4 DEF PassFits
<1>7. AllOrNothing'
  BY DEF AllOrNothing
<1>8. InState("ok")' = InState("ok")
  BY <1>2, <1>5 DEF InState, Ended
<1>9. ProgressIsThisPass'
  BY <1>3, <1>8, NextProgress DEF FInv, ProgressIsThisPass
<1> QED BY <1>4, <1>6, <1>7, <1>9 DEF FInv

\* A page is kept, and counted.
LEMMA KeepKeeps ==
  ASSUME FInv, NEW p \in Pages, KeepPage(p)
  PROVE  FInv'
<1> USE PageFetchAssumption
<1>1. /\ stage \in {"fetching", "aborting"} /\ p \in Manifest /\ page[p] = "checking"
      /\ page' = [page EXCEPT ![p] = "ok"] /\ page \in [Pages -> PageStates]
      /\ downloaded_pages' = downloaded_pages + 1 /\ downloaded_bytes' = downloaded_bytes + PageSize[p]
      /\ UNCHANGED <<stage, reresolves, length, tries, errors, total_pages>>
  BY DEF KeepPage, PageRuns, Move, FInv, FetchTypeOK
<1>2. page' \in [Pages -> PageStates] /\ page'[p] = "ok" /\ \A q \in Pages \ {p} : page'[q] = page[q]
  BY <1>1 DEF PageStates, Ended
<1>3. FetchTypeOK'
  <2>1. PageSize[p] \in Nat
    BY DEF Pages
  <2> QED BY <1>1, <1>2, <2>1 DEF FInv, FetchTypeOK
<1>4. Manifest' = Manifest /\ Manifest \subseteq Pages
  BY <1>1 DEF Manifest, Pages, FInv, FetchTypeOK
<1>5. PassFits'
  BY <1>1, <1>2, <1>4 DEF FInv, PassFits, Runs
<1>6. AllOrNothing'
  BY <1>1 DEF AllOrNothing
<1>7. InState("ok")' = InState("ok") \cup {p} /\ p \notin InState("ok") /\ InState("ok") \in SUBSET Pages
  BY <1>1, <1>2, <1>4 DEF InState
<1>8. IsFiniteSet(InState("ok")) /\ downloaded_pages = Cardinality(InState("ok")) /\ downloaded_bytes = BytesOf(InState("ok"))
  <2>1. IsFiniteSet(Pages)
    BY FS_Interval DEF Pages
  <2>2. IsFiniteSet(InState("ok"))
    BY <1>7, <2>1, FS_Subset
  <2> QED BY <2>2 DEF FInv, ProgressIsThisPass
<1>9. ProgressIsThisPass'
  <2> DEFINE S == InState("ok")
             T == InState("ok")'
  <2>1. T = S \cup {p} /\ p \notin S /\ S \in SUBSET Pages /\ IsFiniteSet(S)
        /\ downloaded_pages' = Cardinality(S) + 1 /\ downloaded_bytes' = BytesOf(S) + PageSize[p]
    BY <1>1, <1>7, <1>8
  <2>2. downloaded_pages' = Cardinality(T) /\ downloaded_bytes' = BytesOf(T)
    <3> HIDE DEF S, T
    <3> QED BY <2>1, FS_AddElement, OnePageMore
  <2> QED BY <2>2 DEF ProgressIsThisPass, BytesOf
<1> QED BY <1>3, <1>5, <1>6, <1>9 DEF FInv

LEMMA PageKeeps == ASSUME FInv, NEW p \in Pages, PageStep(p) PROVE FInv'
<1> USE PageFetchAssumption
<1>0. /\ stage \in Stages /\ page \in [Pages -> PageStates] /\ tries \in [Pages -> 0..Attempts]
      /\ errors \subseteq ErrorKinds /\ Attempts \in Nat
      /\ stage = "aborting" => errors # {}
      /\ p \in Manifest /\ page[p] \in {"waiting", "sleeping"} => tries[p] < Attempts
  BY DEF FInv, FetchTypeOK, PassFits, Runs
<1>1. CASE StartFetch(p)
  <2>1. /\ stage \in {"fetching", "aborting"} /\ p \in Manifest /\ page[p] = "waiting" /\ Move(p, "fetching")
        /\ tries' = [tries EXCEPT ![p] = @ + 1] /\ UNCHANGED <<stage, reresolves, length, errors, counters>>
    BY <1>1 DEF StartFetch, PageRuns
  <2>2. tries' \in [Pages -> 0..Attempts] /\ \A q \in Pages \ {p} : tries'[q] = tries[q]
    <3>1. tries[p] + 1 \in 0..Attempts
      BY <1>0, <2>1
    <3> QED BY <1>0, <2>1, <3>1
  <2> QED BY <1>0, <2>1, <2>2, MoveKeeps DEF PageStates, Ended
<1>2. CASE FetchAnswers(p)
  BY <1>0, <1>2, MoveKeeps DEF FetchAnswers, PageRuns, PageStates, Ended
<1>3. ASSUME NEW k \in ErrorKinds, LosePage(p, k), PageRuns(p, "fetching") \/ PageRuns(p, "checking") PROVE FInv'
  BY <1>0, <1>3, MoveKeeps DEF LosePage, PageRuns, PageStates, Ended
<1>4. CASE FetchRaises(p)
  BY <1>3, <1>4 DEF FetchRaises
<1>5. CASE KeepPage(p)
  BY <1>5, KeepKeeps
<1>6. CASE RejectPage(p)
  <2>1. CASE tries[p] < Attempts /\ Move(p, "sleeping") /\ UNCHANGED <<stage, reresolves, length, tries, errors, counters>>
    BY <1>0, <1>6, <2>1, MoveKeeps DEF RejectPage, PageRuns, PageStates, Ended
  <2>2. CASE LosePage(p, "source")
    BY <1>3, <1>6, <2>2 DEF RejectPage, ErrorKinds
  <2> QED BY <1>6, <2>1, <2>2 DEF RejectPage
<1>7. CASE WakePage(p)
  BY <1>0, <1>7, MoveKeeps DEF WakePage, PageRuns, PageStates, Ended
<1>8. CASE CancelPage(p)
  BY <1>0, <1>8, MoveKeeps DEF CancelPage, PageStates, Ended
<1> QED BY <1>1, <1>2, <1>4, <1>5, <1>6, <1>7, <1>8 DEF PageStep

\* The group ends, or the source does not answer.
LEMMA EndKeeps == ASSUME FInv, ResolveFails \/ AllFetched \/ FetchFails PROVE FInv'
<1>1. /\ stage' \in {"archiving", "failed"} /\ UNCHANGED <<reresolves, length, page, tries, errors, counters>>
      /\ stage' = "archiving" => stage \in {"fetching", "aborting"} /\ errors = {} /\ \A p \in Manifest : page[p] \in Ended
  BY DEF ResolveFails, AllFetched, FetchFails, GroupDone
<1>2. Manifest' = Manifest /\ InState("ok")' = InState("ok")
  BY <1>1 DEF Manifest, InState
<1>3. FetchTypeOK' /\ PassFits'
  BY <1>1, <1>2 DEF FInv, FetchTypeOK, PassFits, Runs, Stages, counters
<1>4. AllOrNothing'
  BY <1>1, <1>2 DEF FInv, PassFits, AllOrNothing, Runs, Ended
<1>5. ProgressIsThisPass'
  BY <1>1, <1>2, NextProgress DEF FInv, ProgressIsThisPass, counters
<1> QED BY <1>3, <1>4, <1>5 DEF FInv

\* A new manifest is asked for, and the progress begins again.
LEMMA AgainKeeps == ASSUME FInv, Reresolve PROVE FInv'
<1> USE PageFetchAssumption
<1>1. /\ reresolves < MaxManifestReresolves /\ reresolves' = reresolves + 1 /\ stage' = "resolving"
      /\ downloaded_pages' = 0 /\ downloaded_bytes' = 0 /\ page' = [p \in Pages |-> "unused"]
      /\ UNCHANGED <<length, tries, errors, total_pages>>
  BY DEF Reresolve, ResetCounters
<1>2. FetchTypeOK'
  BY <1>1 DEF FInv, FetchTypeOK, Stages, PageStates, MaxManifestReresolves
<1>3. Manifest' \subseteq Pages
  BY <1>1 DEF Manifest, Pages, FInv, FetchTypeOK
<1>4. PassFits' /\ AllOrNothing'
  BY <1>1, <1>3 DEF PassFits, AllOrNothing, Runs
<1>5. InState("ok")' = {}
  BY <1>1, <1>3 DEF InState
<1>6. ProgressIsThisPass'
  <2>1. Cardinality({}) = 0 /\ BytesOf(InState("ok")') = 0
    BY <1>5, FS_EmptySet, NoBytes
  <2> QED BY <1>1, <1>5, <2>1 DEF ProgressIsThisPass, BytesOf
<1> QED BY <1>2, <1>4, <1>6 DEF FInv

\* FInv holds of every reachable state (JobEngine._fetch_all_pages).
THEOREM FetchInductive == FetchSpec => []FInv
<1>1. FInv /\ [FetchNext]_fetchVars => FInv'
  <2> SUFFICES ASSUME FInv, [FetchNext]_fetchVars PROVE FInv'
    OBVIOUS
  <2>1. CASE UNCHANGED fetchVars
    BY <2>1 DEF fetchVars, counters, FInv, FetchTypeOK, PassFits, AllOrNothing, ProgressIsThisPass, Runs,
                Manifest, InState, BytesOf
  <2>2. CASE FetchNext
    BY <2>2, ResolveKeeps, PageKeeps, EndKeeps, AgainKeeps DEF FetchNext, GroupStep
  <2> QED BY <2>1, <2>2
<1> QED BY <1>1, FetchInitInv, PTL DEF FetchSpec

LEMMA Rounds ==
  ASSUME NEW b \in Nat, NEW n \in Nat \ {0}
  PROVE  (2 * b * n + n) \div (2 * n) = b
<1> DEFINE d == 2 * n
           x == 2 * b * n + n
           q == x \div d
<1>1. d \in Nat \ {0} /\ x \in Nat /\ x = d * b + n /\ n < d
  OBVIOUS
<1> HIDE DEF d, x
<1>2. q \in Int /\ d * q <= x /\ x < d * (q + 1)
  BY <1>1
<1> HIDE DEF q
<1>3. ~(q < b)
  <2> SUFFICES ASSUME q < b PROVE FALSE
    OBVIOUS
  <2>1. q + 1 <= b
    BY <1>2
  <2>2. d * (q + 1) <= d * b
    BY <1>1, <1>2, <2>1
  <2> QED BY <1>1, <1>2, <2>2
<1>4. ~(q > b)
  <2> SUFFICES ASSUME q > b PROVE FALSE
    OBVIOUS
  <2>1. d * q >= d * (b + 1)
    BY <1>1, <1>2
  <2>2. d * (b + 1) = d * b + d
    BY <1>1
  <2> QED BY <1>1, <1>2, <2>1, <2>2
<1>5. q = b
  BY <1>2, <1>3, <1>4
<1> QED BY <1>5 DEF q, x, d

\* A manifest is packaged with every page of the pass that fetched it; the progress
\* counts the pages of this pass; the estimate is exact when the pages are in: for
\* any pages, sizes, attempts and any order of tasks, failures and cancellations.
THEOREM PassesAreWhole == FetchSpec => []PassIsWhole
<1>1. FInv => PassIsWhole
  <2> SUFFICES ASSUME FInv PROVE EstimateExactAtArchiving
    BY DEF FInv, PassIsWhole
  <2> SUFFICES ASSUME stage = "archiving", length = total_pages PROVE EstimatedTotal = downloaded_bytes
    BY DEF EstimateExactAtArchiving
  <2>1. InState("ok") = 1..length /\ length \in Nat /\ length # 0
    BY PageFetchAssumption DEF FInv, FetchTypeOK, PassFits, AllOrNothing, InState, Manifest, Runs
  <2>2. downloaded_pages = length
    BY <2>1, FS_Interval DEF FInv, ProgressIsThisPass
  <2>3. downloaded_bytes \in Nat
    BY DEF FInv, FetchTypeOK
  <2> QED BY <2>1, <2>2, <2>3, Rounds DEF EstimatedTotal
<1> QED BY <1>1, FetchInductive, PTL
=============================================================================
