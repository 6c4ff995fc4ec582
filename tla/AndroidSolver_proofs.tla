------------------------ MODULE AndroidSolver_proofs ------------------------
(* The device of the Android client is never waited for in vain, the        *)
(* foreground solves of a source are one at a time, a lease keeps the       *)
(* device, and a block serves what is still valid.                          *)
EXTENDS AndroidSolver, FiniteSetTheorems, TLAPS

(* Queues without repetition: the lock and the calls that await a solve. *)

\* RemoveFirst takes one element out and closes the gap.
LEMMA RemoveFirstIs ==
  ASSUME NEW S, NEW s \in Seq(S), NEW e, NEW j \in 1..Len(s), s[j] = e,
         \A n \in 1..Len(s) : s[n] = e => n = j
  PROVE  /\ RemoveFirst(s, e) \in Seq(S) /\ Len(RemoveFirst(s, e)) = Len(s) - 1
         /\ \A n \in 1..(Len(s) - 1) :
              RemoveFirst(s, e)[n] = IF n < j THEN s[n] ELSE s[n + 1]
<1>1. SelectInSeq(s, LAMBDA v : v = e) = j
  <2>1. {i \in 1..Len(s) : s[i] = e} = {j}
    OBVIOUS
  <2>2. Min({j}) = j
    BY DEF Min
  <2> QED BY <2>1, <2>2 DEF SelectInSeq
<1>2. RemoveFirst(s, e) = RemoveAt(s, j)
  BY <1>1 DEF RemoveFirst
<1>3. Len(s) \in Nat
  OBVIOUS
<1>4. SubSeq(s, 1, j - 1) \in Seq(S) /\ Len(SubSeq(s, 1, j - 1)) = j - 1
      /\ \A n \in 1..(j - 1) : SubSeq(s, 1, j - 1)[n] = s[n]
  BY <1>3
<1>5. SubSeq(s, j + 1, Len(s)) \in Seq(S) /\ Len(SubSeq(s, j + 1, Len(s))) = Len(s) - j
      /\ \A n \in 1..(Len(s) - j) : SubSeq(s, j + 1, Len(s))[n] = s[n + j]
  BY <1>3
<1> DEFINE a == SubSeq(s, 1, j - 1)
           b == SubSeq(s, j + 1, Len(s))
<1>6. a \in Seq(S) /\ b \in Seq(S) /\ Len(a) = j - 1 /\ Len(b) = Len(s) - j
  BY <1>4, <1>5
<1>7. \A n \in 1..(j - 1) : a[n] = s[n]
  BY <1>4
<1>8. \A n \in 1..(Len(s) - j) : b[n] = s[n + j]
  BY <1>5
<1>9. RemoveAt(s, j) = a \o b
  BY DEF RemoveAt
<1> HIDE DEF a, b
<1>10. a \o b \in Seq(S) /\ Len(a \o b) = Len(s) - 1
  BY <1>3, <1>6
<1>11. \A n \in 1..(Len(s) - 1) : (a \o b)[n] = IF n < j THEN a[n] ELSE b[n - (j - 1)]
  BY <1>3, <1>6
<1> DEFINE c == a \o b
<1> HIDE DEF c
<1>12. \A n \in 1..(Len(s) - 1) : c[n] = IF n < j THEN a[n] ELSE b[n - (j - 1)]
  BY <1>11 DEF c
<1>13. \A n \in 1..(Len(s) - 1) : c[n] = IF n < j THEN s[n] ELSE s[n + 1]
  <2> SUFFICES ASSUME NEW n \in 1..(Len(s) - 1)
               PROVE  c[n] = IF n < j THEN s[n] ELSE s[n + 1]
    OBVIOUS
  <2>1. CASE n < j
    <3>1. n \in 1..(j - 1)
      BY <1>3, <2>1
    <3> QED BY <1>7, <1>12, <2>1, <3>1
  <2>2. CASE n >= j
    <3>1. n - (j - 1) \in 1..(Len(s) - j) /\ (n - (j - 1)) + j = n + 1 /\ ~ (n < j)
      BY <1>3, <2>2
    <3>2. b[n - (j - 1)] = s[n + 1]
      BY <1>8, <3>1
    <3> QED BY <1>12, <3>1, <3>2
  <2> QED BY <2>1, <2>2
<1> QED BY <1>2, <1>9, <1>10, <1>13 DEF c

\* What leaves a queue that holds it once leaves the others in their order.
LEMMA LeavesQueue ==
  ASSUME NEW S, NEW s \in Seq(S), NEW e, IsInjective(s)
  PROVE  /\ RemoveFirst(s, e) \in Seq(S) /\ IsInjective(RemoveFirst(s, e))
         /\ ToSet(RemoveFirst(s, e)) = ToSet(s) \ {e}
         /\ s # <<>> /\ Head(s) # e => RemoveFirst(s, e) # <<>> /\ Head(RemoveFirst(s, e)) = Head(s)
<1> DEFINE r == RemoveFirst(s, e)
<1>1. CASE e \notin ToSet(s)
  <2>1. ~ \E i \in 1..Len(s) : s[i] = e
    BY <1>1 DEF ToSet
  <2>2. r = s
    BY <2>1 DEF RemoveFirst
  <2> QED BY <1>1, <2>2
<1>2. CASE e \in ToSet(s)
  <2>1. PICK j \in 1..Len(s) : s[j] = e
    BY <1>2 DEF ToSet
  <2>2. \A n \in 1..Len(s) : s[n] = e => n = j
    BY <2>1 DEF IsInjective
  <2>3. /\ r \in Seq(S) /\ Len(r) = Len(s) - 1
        /\ \A n \in 1..(Len(s) - 1) : r[n] = IF n < j THEN s[n] ELSE s[n + 1]
    BY <2>1, <2>2, RemoveFirstIs
  <2> HIDE DEF r
  <2>4. Len(s) \in Nat /\ DOMAIN s = 1..Len(s) /\ DOMAIN r = 1..(Len(s) - 1)
    BY <2>3
  <2>5. \A n \in 1..(Len(s) - 1) : r[n] = s[IF n < j THEN n ELSE n + 1]
    BY <2>3
  <2>6. IsInjective(r)
    <3> SUFFICES ASSUME NEW a \in 1..(Len(s) - 1), NEW b \in 1..(Len(s) - 1), r[a] = r[b]
                 PROVE  a = b
      BY <2>4 DEF IsInjective
    <3> DEFINE x == IF a < j THEN a ELSE a + 1
               y == IF b < j THEN b ELSE b + 1
    <3>1. x \in 1..Len(s) /\ y \in 1..Len(s)
      BY <2>4
    <3>2. s[x] = s[y]
      BY <2>5
    <3>3. x = y
      BY <2>4, <3>1, <3>2 DEF IsInjective
    <3> QED BY <2>4, <3>3
  <2>7. \A n \in 1..(Len(s) - 1) : r[n] \in ToSet(s) \ {e}
    <3> SUFFICES ASSUME NEW n \in 1..(Len(s) - 1) PROVE r[n] \in ToSet(s) \ {e}
      OBVIOUS
    <3> DEFINE x == IF n < j THEN n ELSE n + 1
    <3>1. x \in 1..Len(s) /\ x # j
      BY <2>4
    <3>2. r[n] = s[x]
      BY <2>5
    <3> HIDE DEF x
    <3> QED BY <2>2, <2>4, <3>1, <3>2 DEF ToSet
  <2>8. \A v \in ToSet(s) \ {e} : v \in ToSet(r)
    <3> SUFFICES ASSUME NEW v \in ToSet(s), v # e PROVE v \in ToSet(r)
      OBVIOUS
    <3>1. PICK n \in 1..Len(s) : s[n] = v
      BY <2>4 DEF ToSet
    <3>2. n # j
      BY <2>1, <3>1
    <3>3. PICK m \in 1..(Len(s) - 1) : r[m] = v
      <4>1. CASE n < j
        BY <2>4, <2>5, <3>1, <4>1
      <4>2. CASE n > j
        <5>1. n - 1 \in 1..(Len(s) - 1) /\ (n - 1) + 1 = n /\ ~ (n - 1 < j)
          BY <2>4, <4>2
        <5> QED BY <2>3, <3>1, <5>1
      <4> QED BY <3>2, <4>1, <4>2
    <3> QED BY <2>4, <3>3 DEF ToSet
  <2>9. ToSet(r) = ToSet(s) \ {e}
    BY <2>4, <2>7, <2>8 DEF ToSet
  <2>10. s # <<>> /\ Head(s) # e => r # <<>> /\ Head(r) = Head(s)
    <3> SUFFICES ASSUME s # <<>>, Head(s) # e PROVE r # <<>> /\ Head(r) = Head(s)
      OBVIOUS
    <3>1. Head(s) = s[1] /\ j > 1
      BY <2>1, <2>4
    <3>2. r[1] = s[1] /\ 1 \in 1..(Len(s) - 1)
      BY <2>3, <2>4, <3>1
    <3> QED BY <2>3, <2>4, <3>1, <3>2
  <2> QED BY <2>3, <2>6, <2>9, <2>10 DEF r
<1> QED BY <1>1, <1>2

\* What joins a queue that does not hold it comes last.
LEMMA JoinsQueue ==
  ASSUME NEW S, NEW s \in Seq(S), NEW e \in S, IsInjective(s), e \notin ToSet(s)
  PROVE  /\ Append(s, e) \in Seq(S) /\ IsInjective(Append(s, e))
         /\ ToSet(Append(s, e)) = ToSet(s) \cup {e}
         /\ Append(s, e) # <<>> /\ Head(Append(s, e)) = IF s = <<>> THEN e ELSE Head(s)
<1> DEFINE r == Append(s, e)
<1>1. /\ Len(s) \in Nat /\ DOMAIN s = 1..Len(s) /\ r \in Seq(S) /\ Len(r) = Len(s) + 1
      /\ DOMAIN r = 1..(Len(s) + 1) /\ r[Len(s) + 1] = e
  OBVIOUS
<1>2. \A n \in 1..Len(s) : r[n] = s[n]
  OBVIOUS
<1> HIDE DEF r
<1>3. \A n \in 1..Len(s) : s[n] # e /\ s[n] \in ToSet(s)
  BY <1>1 DEF ToSet
<1>4. IsInjective(r)
  <2> SUFFICES ASSUME NEW a \in 1..(Len(s) + 1), NEW b \in 1..(Len(s) + 1), r[a] = r[b]
               PROVE  a = b
    BY <1>1 DEF IsInjective
  <2>1. CASE a \in 1..Len(s) /\ b \in 1..Len(s)
    BY <1>1, <1>2, <2>1 DEF IsInjective
  <2>2. CASE a = Len(s) + 1 \/ b = Len(s) + 1
    BY <1>1, <1>2, <1>3, <2>2
  <2> QED BY <1>1, <2>1, <2>2
<1>5. ToSet(r) = ToSet(s) \cup {e}
  <2>1. \A n \in 1..(Len(s) + 1) : r[n] \in ToSet(s) \cup {e}
    BY <1>1, <1>2, <1>3
  <2>2. \A v \in ToSet(s) : v \in ToSet(r)
    <3> SUFFICES ASSUME NEW v \in ToSet(s) PROVE v \in ToSet(r)
      OBVIOUS
    <3>1. PICK n \in 1..Len(s) : s[n] = v
      BY <1>1 DEF ToSet
    <3> QED BY <1>1, <1>2, <3>1 DEF ToSet
  <2>3. e \in ToSet(r)
    BY <1>1 DEF ToSet
  <2>4. \A v \in ToSet(r) : v \in ToSet(s) \cup {e}
    BY <1>1, <2>1 DEF ToSet
  <2> QED BY <2>2, <2>3, <2>4
<1>6. r # <<>> /\ Head(r) = IF s = <<>> THEN e ELSE Head(s)
  <2>1. r # <<>> /\ Head(r) = r[1]
    BY <1>1
  <2>2. CASE s = <<>>
    BY <1>1, <2>1, <2>2
  <2>3. CASE s # <<>>
    <3>1. 1 \in 1..Len(s) /\ Head(s) = s[1]
      BY <1>1, <2>3
    <3> QED BY <1>2, <2>1, <2>3, <3>1
  <2> QED BY <2>2, <2>3
<1> QED BY <1>1, <1>4, <1>5, <1>6 DEF r

\* The first of a queue leaves it.
LEMMA HeadLeavesQueue ==
  ASSUME NEW S, NEW s \in Seq(S), IsInjective(s), s # <<>>
  PROVE  /\ Tail(s) \in Seq(S) /\ IsInjective(Tail(s)) /\ Head(s) \in ToSet(s)
         /\ ToSet(Tail(s)) = ToSet(s) \ {Head(s)}
         /\ Len(s) = 1 <=> ToSet(s) = {Head(s)}
<1> DEFINE r == Tail(s)
<1>1. /\ Len(s) \in Nat /\ Len(s) > 0 /\ DOMAIN s = 1..Len(s) /\ r \in Seq(S) /\ Len(r) = Len(s) - 1
      /\ DOMAIN r = 1..(Len(s) - 1) /\ Head(s) = s[1]
  OBVIOUS
<1>2. \A n \in 1..(Len(s) - 1) : r[n] = s[n + 1]
  OBVIOUS
<1> HIDE DEF r
<1>3. \A a, b \in 1..Len(s) : s[a] = s[b] => a = b
  BY <1>1 DEF IsInjective
<1>4. IsInjective(r)
  <2> SUFFICES ASSUME NEW a \in 1..(Len(s) - 1), NEW b \in 1..(Len(s) - 1), r[a] = r[b]
               PROVE  a = b
    BY <1>1 DEF IsInjective
  <2>1. a + 1 \in 1..Len(s) /\ b + 1 \in 1..Len(s)
    BY <1>1
  <2>2. a + 1 = b + 1
    BY <1>2, <1>3, <2>1
  <2> QED BY <1>1, <2>2
<1>5. \A n \in 1..(Len(s) - 1) : r[n] \in ToSet(s) \ {s[1]}
  <2> SUFFICES ASSUME NEW n \in 1..(Len(s) - 1) PROVE r[n] \in ToSet(s) \ {s[1]}
    OBVIOUS
  <2>1. n + 1 \in 1..Len(s) /\ n + 1 # 1 /\ 1 \in 1..Len(s)
    BY <1>1
  <2>2. s[n + 1] # s[1]
    BY <1>3, <2>1
  <2> QED BY <1>1, <1>2, <2>1, <2>2 DEF ToSet
<1>6. \A v \in ToSet(s) \ {s[1]} : v \in ToSet(r)
  <2> SUFFICES ASSUME NEW v \in ToSet(s), v # s[1] PROVE v \in ToSet(r)
    OBVIOUS
  <2>1. PICK n \in 1..Len(s) : s[n] = v
    BY <1>1 DEF ToSet
  <2>2. n - 1 \in 1..(Len(s) - 1) /\ (n - 1) + 1 = n
    BY <1>1, <2>1
  <2>3. r[n - 1] = v
    BY <1>2, <2>1, <2>2
  <2> QED BY <1>1, <2>2, <2>3 DEF ToSet
<1>7. ToSet(r) = ToSet(s) \ {s[1]}
  BY <1>1, <1>5, <1>6 DEF ToSet
<1>8. s[1] \in ToSet(s)
  BY <1>1 DEF ToSet
<1>9. Len(s) = 1 <=> ToSet(s) = {s[1]}
  <2>1. ASSUME Len(s) = 1 PROVE ToSet(s) = {s[1]}
    BY <1>1, <2>1 DEF ToSet
  <2>2. ASSUME ToSet(s) = {s[1]}, Len(s) # 1 PROVE FALSE
    <3>1. 1 \in 1..(Len(s) - 1)
      BY <1>1, <2>2
    <3> QED BY <1>5, <2>2, <3>1
  <2> QED BY <2>1, <2>2
<1> QED BY <1>1, <1>4, <1>7, <1>8, <1>9 DEF r

\* A queue is empty when nothing is in it.
LEMMA EmptyQueue ==
  ASSUME NEW S, NEW s \in Seq(S)
  PROVE  /\ s = <<>> <=> ToSet(s) = {}
         /\ s # <<>> => Head(s) \in ToSet(s)
         /\ \A e : e \in ToSet(s) <=> \E i \in DOMAIN s : s[i] = e
         /\ ToSet(s) \subseteq S
<1>1. \A e : e \in ToSet(s) <=> \E i \in DOMAIN s : s[i] = e
  BY DEF ToSet
<1>2. Len(s) \in Nat /\ DOMAIN s = 1..Len(s) /\ (s = <<>> <=> Len(s) = 0)
  OBVIOUS
<1>3. s # <<>> => Head(s) = s[1] /\ 1 \in 1..Len(s)
  BY <1>2
<1>4. s # <<>> => Head(s) \in ToSet(s)
  BY <1>1, <1>2, <1>3
<1>5. s = <<>> => ToSet(s) = {}
  BY <1>1, <1>2
<1>6. ToSet(s) \subseteq S
  BY <1>1, <1>2
<1> QED BY <1>1, <1>4, <1>5, <1>6

----------------------------------------------------------------------------
(* The device. *)

Whats  == {"none", "solve", "eval", "prime"}
Ops    == [what : Whats, key : Keys \cup {None}, left : Nat]
Phases == {"none", "lock", "post", "backoff", "ended", "landed"}
Ready(u) == phase[u] \in {"lock", "post"}
Busy(u)  == phase[u] \in {"lock", "post", "backoff"}

DeviceTypes ==
  /\ op \in [Users -> Ops] /\ phase \in [Users -> Phases]
  /\ DOMAIN result = Users /\ dev \in Seq(Users)

\* Who waits for the device or uses it is in its lock, once; who uses it is
\* the first; and whoever has an operation has it for a source.
DeviceHolds ==
  /\ IsInjective(dev)
  /\ ToSet(dev) = {u \in Users : Ready(u)}
  /\ \A u \in Users :
       /\ phase[u] = "post" => Head(dev) = u
       /\ phase[u] = "none" <=> op[u].what = "none"
       /\ op[u].what # "none" => op[u].key \in Keys

DeviceInv == DeviceTypes /\ DeviceHolds

\* A user without an operation gets one.
LEMMA QueueKeeps ==
  ASSUME DeviceInv, NEW u \in Users, op[u].what = "none",
         NEW what \in Whats \ {"none"}, NEW k \in Keys, Queue(u, Op(what, k)), UNCHANGED result
  PROVE  DeviceInv'
<1> DEFINE o == Op(what, k)
<1>1. o \in Ops /\ o.what = what /\ o.key = k
  BY AndroidAssumption DEF Op, Ops
<1> HIDE DEF o
<1>2. op' = [op EXCEPT ![u] = o] /\ dev' = Append(dev, u)
      /\ phase' = [phase EXCEPT ![u] = IF dev = <<>> THEN "post" ELSE "lock"]
  BY DEF Queue, o
<1>3. op' \in [Users -> Ops] /\ phase' \in [Users -> Phases] /\ DOMAIN result' = Users
  BY <1>1, <1>2 DEF DeviceInv, DeviceTypes, Phases
<1>4. u \notin ToSet(dev) /\ dev \in Seq(Users) /\ IsInjective(dev)
  BY DEF DeviceInv, DeviceTypes, DeviceHolds, Ready
<1>5. /\ dev' \in Seq(Users) /\ IsInjective(dev') /\ ToSet(dev') = ToSet(dev) \cup {u}
      /\ Head(dev') = IF dev = <<>> THEN u ELSE Head(dev)
  BY <1>2, <1>4, JoinsQueue
<1>6. \A v \in Users : v # u => op'[v] = op[v] /\ phase'[v] = phase[v]
  BY <1>2 DEF DeviceInv, DeviceTypes
<1>7. op'[u] = o /\ phase'[u] = IF dev = <<>> THEN "post" ELSE "lock"
  BY <1>2 DEF DeviceInv, DeviceTypes
<1>8. ToSet(dev') = {v \in Users : Ready(v)'}
  BY <1>5, <1>6, <1>7 DEF DeviceInv, DeviceHolds, Ready
<1>9. ASSUME NEW v \in Users
      PROVE  /\ phase'[v] = "post" => Head(dev') = v
             /\ phase'[v] = "none" <=> op'[v].what = "none"
             /\ op'[v].what # "none" => op'[v].key \in Keys
  <2>1. CASE v = u
    BY <1>1, <1>5, <1>7, <2>1
  <2>2. CASE v # u
    <3>1. phase[v] = "post" => dev # <<>>
      <4>1. phase[v] = "post" => v \in ToSet(dev)
        BY DEF DeviceInv, DeviceHolds, Ready
      <4> QED BY <1>4, <4>1, EmptyQueue
    <3> QED BY <1>5, <1>6, <2>2, <3>1 DEF DeviceInv, DeviceHolds
  <2> QED BY <2>1, <2>2
<1> QED BY <1>3, <1>5, <1>8, <1>9 DEF DeviceInv, DeviceTypes, DeviceHolds

\* The step of a user at the device: it gets the lock, leaves it, to pause
\* or for good, or waits once more; a solve stays a solve.
Moves(u) ==
  /\ Busy(u)
  /\ \E w \in Whats \ {"none"}, n \in Nat :
       /\ op' = [op EXCEPT ![u] = [what |-> w, key |-> op[u].key, left |-> n]]
       /\ w = "solve" <=> op[u].what = "solve"
  /\ \/ phase' = [phase EXCEPT ![u] = "post"] /\ Head(dev) = u /\ phase[u] = "lock"
        /\ UNCHANGED dev /\ (Deferrable(u) => Leased = {})
     \/ Ready(u) /\ (\E p \in {"backoff", "ended"} : phase' = [phase EXCEPT ![u] = p])
        /\ dev' = RemoveFirst(dev, u)
     \/ Ready(u) /\ phase' = [phase EXCEPT ![u] = "lock"] /\ dev' = Append(RemoveFirst(dev, u), u)
     \/ ~ Ready(u) /\ phase' = [phase EXCEPT ![u] = "lock"] /\ dev' = Append(dev, u)
  /\ DOMAIN result' = DOMAIN result

LEMMA DeviceMoves ==
  ASSUME DeviceInv, NEW u \in Users, Device(u)
  PROVE  /\ Moves(u) /\ DOMAIN held' = DOMAIN held
         /\ UNCHANGED <<at, call, ans, snap, flight, inflight, awaiting>>
<1> USE DEF DeviceInv, DeviceTypes
<1>1. op[u] \in Ops /\ phase[u] \in Phases
  OBVIOUS
<1>2. op[u] = [what |-> op[u].what, key |-> op[u].key, left |-> op[u].left]
      /\ op[u].what \in Whats /\ op[u].left \in Nat
  BY <1>1 DEF Ops
<1>3. op = [op EXCEPT ![u] = [what |-> op[u].what, key |-> op[u].key, left |-> op[u].left]]
  BY <1>2
<1>4. Ready(u) => Busy(u)
  BY DEF Ready, Busy
<1>5. Busy(u) => op[u].what \in Whats \ {"none"}
  BY <1>2 DEF DeviceHolds, Busy
<1>6. ASSUME NEW r, Ends(u, r), Ready(u) PROVE Moves(u)
  BY <1>2, <1>3, <1>4, <1>5, <1>6 DEF Ends, Leave, Moves
<1>7. ASSUME NEW w \in Whats \ {"none"}, NEW n \in Nat, Requeue(u, w, n), Ready(u), w = "solve" <=> op[u].what = "solve"
      PROVE  Moves(u)
  <2>1. op' = [op EXCEPT ![u] = [what |-> w, key |-> op[u].key, left |-> n]]
    BY <1>7 DEF Requeue
  <2>2. /\ phase' = [phase EXCEPT ![u] = "lock"] /\ dev' = Append(RemoveFirst(dev, u), u)
        /\ DOMAIN result' = DOMAIN result
    BY <1>7 DEF Requeue
  <2> QED BY <1>4, <1>7, <2>1, <2>2 DEF Moves
<1>8. ASSUME BacksOff(u), Ready(u) PROVE Moves(u)
  <2>1. op[u].left - 1 \in Nat /\ op' = [op EXCEPT ![u] = [op[u] EXCEPT !.left = op[u].left - 1]]
    BY <1>2, <1>8 DEF BacksOff
  <2>2. [op[u] EXCEPT !.left = op[u].left - 1] = [what |-> op[u].what, key |-> op[u].key, left |-> op[u].left - 1]
    BY <1>1 DEF Ops
  <2>3. op' = [op EXCEPT ![u] = [what |-> op[u].what, key |-> op[u].key, left |-> op[u].left - 1]]
    BY <2>1, <2>2, Zenon
  <2>4. /\ phase' = [phase EXCEPT ![u] = "backoff"] /\ dev' = RemoveFirst(dev, u)
        /\ DOMAIN result' = DOMAIN result
    BY <1>8 DEF BacksOff, Leave
  <2> QED BY <1>4, <1>5, <1>8, <2>1, <2>3, <2>4 DEF Moves
<1>14. ASSUME Again(u), Ready(u) PROVE Moves(u)
  BY <1>6, <1>8, <1>14 DEF Again
<1>15. ASSUME NEW r, Primed(u, r), Ready(u), op[u].what = "prime" PROVE Moves(u) /\ DOMAIN held' = DOMAIN held
  <2>1. CASE u \in Leased
    <3>1. Requeue(u, "eval", op[u].left)
      BY <1>15, <2>1 DEF Primed
    <3> QED BY <1>2, <1>7, <1>15, <3>1 DEF Primed, Whats
  <2>2. CASE u \notin Leased
    BY <1>6, <1>15, <2>2 DEF Primed
  <2> QED BY <2>1, <2>2
<1>16. CASE Return(u)
  <2>1. Busy(u) /\ ~ Ready(u) /\ UNCHANGED op
    BY <1>16 DEF Return, Busy, Ready
  <2>2. Moves(u)
    BY <1>2, <1>3, <1>5, <1>16, <2>1 DEF Return, Moves
  <2> QED BY <1>16, <2>2 DEF Return, callVars, clearVars
<1>9. CASE Acquire(u)
  <2>1. phase[u] = "lock" /\ Head(dev) = u /\ Ready(u)
        /\ UNCHANGED <<callVars, clearVars, inflight, awaiting, op>>
    BY <1>9 DEF Acquire, Ready
  <2>2. CASE Defers(u)
    BY <1>2, <1>3, <1>4, <1>5, <1>9, <2>1, <2>2 DEF Acquire, Leave, Moves, callVars, clearVars
  <2>3. CASE ~ Defers(u)
    BY <1>2, <1>3, <1>4, <1>5, <1>9, <2>1, <2>3 DEF Acquire, Defers, Moves, callVars, clearVars
  <2> QED BY <2>2, <2>3
<1>10. CASE LockTimeout(u)
  <2>1. Ready(u)
    BY <1>10 DEF LockTimeout, Ready
  <2>2. Moves(u) /\ DOMAIN held' = DOMAIN held
    <3>1. CASE op[u].what = "solve" /\ Again(u) /\ UNCHANGED held
      BY <1>14, <2>1, <3>1
    <3>2. CASE op[u].what = "eval" /\ Ends(u, Failed) /\ UNCHANGED held
      BY <1>6, <2>1, <3>2
    <3>3. CASE op[u].what = "prime" /\ Primed(u, Nothing)
      BY <1>15, <2>1, <3>3
    <3> QED BY <1>10, <3>1, <3>2, <3>3 DEF LockTimeout
  <2> QED BY <1>10, <2>2 DEF LockTimeout, callVars
<1>11. CASE SolvePosted(u)
  <2>1. Ready(u) /\ op[u].what = "solve"
    BY <1>11 DEF SolvePosted, Ready
  <2>2. (\E r : Ends(u, r)) \/ Again(u)
    BY <1>11 DEF SolvePosted
  <2>3. Moves(u)
    BY <1>6, <1>14, <2>1, <2>2
  <2> QED BY <1>11, <2>3 DEF SolvePosted, callVars
<1>12. CASE EvalPosted(u)
  <2>1. Ready(u) /\ op[u].what = "eval"
    BY <1>12 DEF EvalPosted, Ready
  <2>2. (\E r : Ends(u, r)) \/ BacksOff(u) \/ (op[u].left > 0 /\ Requeue(u, "prime", op[u].left - 1))
    BY <1>12 DEF EvalPosted
  <2>3. ASSUME op[u].left > 0, Requeue(u, "prime", op[u].left - 1) PROVE Moves(u)
    <3>1. op[u].left - 1 \in Nat /\ "prime" \in Whats \ {"none"}
      BY <1>2, <2>3 DEF Whats
    <3> QED BY <1>7, <2>1, <2>3, <3>1
  <2>4. Moves(u)
    BY <1>6, <1>8, <2>1, <2>2, <2>3
  <2> QED BY <1>12, <2>4 DEF EvalPosted, callVars, clearVars
<1>13. CASE PrimePosted(u)
  <2>1. Ready(u) /\ op[u].what = "prime" /\ \E r : Primed(u, r)
    BY <1>13 DEF PrimePosted, Ready
  <2>2. Moves(u) /\ DOMAIN held' = DOMAIN held
    BY <1>15, <2>1
  <2> QED BY <1>13, <2>2 DEF PrimePosted, callVars
<1> QED BY <1>9, <1>10, <1>11, <1>12, <1>13, <1>16 DEF Device

\* What a step at the device leaves of the lock and of the operations.
LEMMA MovesKeep ==
  ASSUME DeviceInv, NEW u \in Users, Moves(u)
  PROVE  /\ DeviceInv'
         /\ \A v \in Users : v # u => op'[v] = op[v] /\ phase'[v] = phase[v]
         /\ op'[u].key = op[u].key /\ op'[u].what # "none"
         /\ op'[u].what = "solve" <=> op[u].what = "solve"
         /\ phase'[u] \in {"lock", "post", "backoff", "ended"}
<1>1. PICK w \in Whats \ {"none"}, n \in Nat :
        /\ op' = [op EXCEPT ![u] = [what |-> w, key |-> op[u].key, left |-> n]]
        /\ w = "solve" <=> op[u].what = "solve"
  BY DEF Moves
<1> DEFINE o == [what |-> w, key |-> op[u].key, left |-> n]
<1>2. o \in Ops /\ o.what = w /\ o.key = op[u].key /\ op[u].what # "none"
  BY DEF Ops, Moves, Busy, DeviceInv, DeviceTypes, DeviceHolds
<1> HIDE DEF o
<1>3. op' = [op EXCEPT ![u] = o]
  BY <1>1 DEF o
<1>4. PICK p \in {"lock", "post", "backoff", "ended"} : phase' = [phase EXCEPT ![u] = p]
  BY DEF Moves
<1>5. op' \in [Users -> Ops] /\ phase' \in [Users -> Phases] /\ DOMAIN result' = Users
  BY <1>2, <1>3, <1>4 DEF DeviceInv, DeviceTypes, Phases, Moves
<1>6. \A v \in Users : v # u => op'[v] = op[v] /\ phase'[v] = phase[v]
  BY <1>3, <1>4 DEF DeviceInv, DeviceTypes
<1>7. op'[u] = o /\ phase'[u] = p
  BY <1>3, <1>4 DEF DeviceInv, DeviceTypes
<1>8. dev \in Seq(Users) /\ IsInjective(dev) /\ (Ready(u) <=> u \in ToSet(dev))
  BY DEF DeviceInv, DeviceTypes, DeviceHolds
<1> DEFINE s == RemoveFirst(dev, u)
<1>9. /\ s \in Seq(Users) /\ IsInjective(s) /\ ToSet(s) = ToSet(dev) \ {u}
      /\ dev # <<>> /\ Head(dev) # u => s # <<>> /\ Head(s) = Head(dev)
  BY <1>8, LeavesQueue
<1> HIDE DEF s
<1>10. /\ Append(s, u) \in Seq(Users) /\ IsInjective(Append(s, u)) /\ ToSet(Append(s, u)) = ToSet(dev) \cup {u}
       /\ dev # <<>> /\ Head(dev) # u => Head(Append(s, u)) = Head(dev)
  <2>1. u \notin ToSet(s) /\ u \in Users
    BY <1>9
  <2>2. /\ Append(s, u) \in Seq(Users) /\ IsInjective(Append(s, u))
        /\ ToSet(Append(s, u)) = ToSet(s) \cup {u}
        /\ Head(Append(s, u)) = IF s = <<>> THEN u ELSE Head(s)
    BY <1>9, <2>1, JoinsQueue
  <2> QED BY <1>9, <2>2
<1>11. ASSUME ~ Ready(u)
       PROVE  /\ Append(dev, u) \in Seq(Users) /\ IsInjective(Append(dev, u))
              /\ ToSet(Append(dev, u)) = ToSet(dev) \cup {u}
              /\ dev # <<>> => Head(Append(dev, u)) = Head(dev)
  <2>1. u \notin ToSet(dev)
    BY <1>8, <1>11
  <2>2. /\ Append(dev, u) \in Seq(Users) /\ IsInjective(Append(dev, u))
        /\ ToSet(Append(dev, u)) = ToSet(dev) \cup {u}
        /\ Head(Append(dev, u)) = IF dev = <<>> THEN u ELSE Head(dev)
    BY <1>8, <2>1, JoinsQueue
  <2> QED BY <2>2
<1>12. /\ dev' \in Seq(Users) /\ IsInjective(dev')
       /\ ToSet(dev') = IF p \in {"backoff", "ended"} THEN ToSet(dev) \ {u} ELSE ToSet(dev) \cup {u}
       /\ dev # <<>> /\ Head(dev) # u => Head(dev') = Head(dev)
       /\ p = "post" => Head(dev') = u
  <2>1. CASE phase' = [phase EXCEPT ![u] = "post"] /\ Head(dev) = u /\ phase[u] = "lock" /\ UNCHANGED dev
    BY <1>7, <1>8, <2>1 DEF DeviceInv, DeviceTypes, Ready
  <2>2. CASE (\E q \in {"backoff", "ended"} : phase' = [phase EXCEPT ![u] = q]) /\ dev' = s
    BY <1>7, <1>9, <2>2 DEF DeviceInv, DeviceTypes
  <2>3. CASE phase' = [phase EXCEPT ![u] = "lock"] /\ dev' = Append(s, u)
    BY <1>7, <1>10, <2>3 DEF DeviceInv, DeviceTypes
  <2>4. CASE ~ Ready(u) /\ phase' = [phase EXCEPT ![u] = "lock"] /\ dev' = Append(dev, u)
    BY <1>7, <1>11, <2>4 DEF DeviceInv, DeviceTypes
  <2> QED BY <2>1, <2>2, <2>3, <2>4 DEF Moves, s
<1>13. ToSet(dev') = {v \in Users : Ready(v)'}
  BY <1>6, <1>7, <1>12 DEF DeviceInv, DeviceHolds, Ready
<1>14. ASSUME NEW v \in Users
       PROVE  /\ phase'[v] = "post" => Head(dev') = v
              /\ phase'[v] = "none" <=> op'[v].what = "none"
              /\ op'[v].what # "none" => op'[v].key \in Keys
  <2>1. CASE v = u
    BY <1>2, <1>7, <1>12, <2>1 DEF DeviceInv, DeviceHolds
  <2>2. CASE v # u
    <3>1. phase[v] = "post" => dev # <<>> /\ Head(dev) = v
      <4>1. phase[v] = "post" => v \in ToSet(dev)
        BY DEF DeviceInv, DeviceHolds, Ready
      <4> QED BY <1>8, <4>1, EmptyQueue DEF DeviceInv, DeviceHolds
    <3> QED BY <1>6, <1>12, <2>2, <3>1 DEF DeviceInv, DeviceHolds
  <2> QED BY <2>1, <2>2
<1>15. DeviceInv'
  BY <1>5, <1>12, <1>13, <1>14 DEF DeviceInv, DeviceTypes, DeviceHolds
<1> QED BY <1>1, <1>2, <1>6, <1>7, <1>15

\* A user whose operation is over, or is left, has none any more.
LEMMA ClearKeeps ==
  ASSUME DeviceInv, NEW u \in Users, Clears(u),
         dev' = RemoveFirst(dev, u) \/ (~ Ready(u) /\ UNCHANGED dev)
  PROVE  /\ DeviceInv'
         /\ \A v \in Users : v # u => op'[v] = op[v] /\ phase'[v] = phase[v]
         /\ op'[u] = Idle /\ phase'[u] = "none"
<1>1. op' = [op EXCEPT ![u] = Idle] /\ phase' = [phase EXCEPT ![u] = "none"]
      /\ result' = [result EXCEPT ![u] = None]
  BY DEF Clears
<1>2. Idle \in Ops /\ Idle.what = "none"
  BY DEF Idle, Ops, Whats
<1>3. op' \in [Users -> Ops] /\ phase' \in [Users -> Phases] /\ DOMAIN result' = Users
  BY <1>1, <1>2 DEF DeviceInv, DeviceTypes, Phases
<1>4. \A v \in Users : v # u => op'[v] = op[v] /\ phase'[v] = phase[v]
  BY <1>1 DEF DeviceInv, DeviceTypes
<1>5. op'[u] = Idle /\ phase'[u] = "none"
  BY <1>1 DEF DeviceInv, DeviceTypes
<1>6. dev \in Seq(Users) /\ IsInjective(dev)
  BY DEF DeviceInv, DeviceTypes, DeviceHolds
<1>7. /\ dev' \in Seq(Users) /\ IsInjective(dev') /\ ToSet(dev') = ToSet(dev) \ {u}
      /\ dev # <<>> /\ Head(dev) # u => Head(dev') = Head(dev)
  <2>1. CASE dev' = RemoveFirst(dev, u)
    BY <1>6, <2>1, LeavesQueue
  <2>2. CASE ~ Ready(u) /\ UNCHANGED dev
    BY <1>6, <2>2 DEF DeviceInv, DeviceHolds
  <2> QED BY <2>1, <2>2
<1>8. ToSet(dev') = {v \in Users : Ready(v)'}
  BY <1>4, <1>5, <1>7 DEF DeviceInv, DeviceHolds, Ready
<1>9. ASSUME NEW v \in Users
      PROVE  /\ phase'[v] = "post" => Head(dev') = v
             /\ phase'[v] = "none" <=> op'[v].what = "none"
             /\ op'[v].what # "none" => op'[v].key \in Keys
  <2>1. CASE v = u
    BY <1>2, <1>5, <2>1
  <2>2. CASE v # u
    <3>1. phase[v] = "post" => dev # <<>> /\ Head(dev) = v
      <4>1. phase[v] = "post" => v \in ToSet(dev)
        BY DEF DeviceInv, DeviceHolds, Ready
      <4> QED BY <1>6, <4>1, EmptyQueue DEF DeviceInv, DeviceHolds
    <3> QED BY <1>4, <1>7, <2>2, <3>1 DEF DeviceInv, DeviceHolds
  <2> QED BY <2>1, <2>2
<1>10. DeviceInv'
  BY <1>3, <1>7, <1>8, <1>9 DEF DeviceInv, DeviceTypes, DeviceHolds
<1> QED BY <1>4, <1>5, <1>10

----------------------------------------------------------------------------
(* The calls and the solves in their names. *)

CallTypes ==
  /\ at \in [Calls -> {"new", "wait", "prime", "session", "done"}]
  /\ call \in [Calls -> [kind : {"get", "force", "session"}, key : Keys]]
  /\ DOMAIN ans = Calls /\ DOMAIN snap = Calls /\ DOMAIN held = Keys
  /\ flight \in [Calls -> Calls \cup {None}]
  /\ inflight \in [Keys -> Calls \cup {None}]
  /\ awaiting \in [Calls -> Seq(Calls)]

\* A solve at the device is the one in flight for its source, and what is in
\* flight has not landed.
SolvesHold ==
  /\ \A t \in Calls :
       /\ op[t].what = "solve" /\ Busy(t) => inflight[op[t].key] = t
       /\ phase[t] = "landed" => op[t].what = "solve"
  /\ \A k \in Keys : inflight[k] # None =>
       /\ op[inflight[k]].what = "solve" /\ op[inflight[k]].key = k
       /\ phase[inflight[k]] # "landed"

\* What a call does at the device in its own name, and which solve it awaits.
CallsHold ==
  \A c \in Calls :
    /\ at[c] = "new" => op[c].what = "none"
    /\ at[c] \in {"prime", "session"} => op[c].what \notin {"none", "solve"}
    /\ at[c] \in {"new", "prime", "session"} => flight[c] = None
    /\ at[c] = "wait" => flight[c] # None
    /\ at[c] # "done" => ans[c] = None
    /\ flight[c] # None => op[flight[c]].what = "solve" /\ op[flight[c]].key = call[c].key
    /\ Resumed(c) => phase[flight[c]] = "landed"

\* A solve will resume the calls that await it, each once.
WaitersHold ==
  \A t \in Calls :
    /\ IsInjective(awaiting[t])
    /\ ToSet(awaiting[t]) = {c \in Calls : at[c] = "wait" /\ flight[c] = t}

CallInv == CallTypes /\ SolvesHold /\ CallsHold /\ WaitersHold

\* What a call that resumed from a blocked solve had discarded is held again
\* until the last call of that solve has resumed.
BlockHolds ==
  \A d \in Calls : Resumed(d) /\ flight[d] \in Turns /\ result[flight[d]] = Blocked =>
    snap[d] = None \/ snap[d] \in expired \/ Valid(call[d].key)

\* No call resumes from a solve, and none comes to await one that has landed.
Quiet ==
  /\ \A d \in Calls : Resumed(d)' => Resumed(d) /\ flight'[d] = flight[d]
  /\ \A w \in Calls : at'[w] = "wait" =>
       (at[w] = "wait" /\ flight'[w] = flight[w]) \/ phase[flight'[w]] # "landed"

LEMMA NoNone == None \notin Calls /\ None \notin Keys /\ Refresh \notin Calls /\ Warm \notin Calls
  BY AndroidAssumption DEF Users

\* A step that changes nothing of the calls, and only how far solves are.
LEMMA OthersKeepCalls ==
  ASSUME CallInv, DeviceTypes, DOMAIN held' = Keys, DOMAIN snap' = Calls,
         UNCHANGED <<at, call, ans, flight, inflight, awaiting>>,
         \A t \in Calls :
           /\ op'[t].what = "solve" <=> op[t].what = "solve"
           /\ op'[t].what = "none" <=> op[t].what = "none"
           /\ op[t].what = "solve" => op'[t].key = op[t].key /\ (Busy(t)' => Busy(t))
           /\ phase'[t] = "landed" <=> phase[t] = "landed"
  PROVE  CallInv' /\ Quiet
<1>1. CallTypes'
  BY DEF CallInv, CallTypes
<1>2. SolvesHold'
  <2>1. ASSUME NEW t \in Calls
        PROVE  /\ op'[t].what = "solve" /\ Busy(t)' => inflight'[op'[t].key] = t
               /\ phase'[t] = "landed" => op'[t].what = "solve"
    BY DEF CallInv, SolvesHold
  <2>2. ASSUME NEW k \in Keys, inflight'[k] # None
        PROVE  /\ op'[inflight'[k]].what = "solve" /\ op'[inflight'[k]].key = k
               /\ phase'[inflight'[k]] # "landed"
    <3>1. inflight[k] \in Calls /\ inflight'[k] = inflight[k]
      BY <2>2 DEF CallInv, CallTypes
    <3> QED BY <2>2, <3>1 DEF CallInv, SolvesHold
  <2> QED BY <2>1, <2>2 DEF SolvesHold
<1>3. \A d \in Calls : Resumed(d)' <=> Resumed(d)
  BY DEF Resumed
<1>4. CallsHold'
  <2> SUFFICES ASSUME NEW c \in Calls
      PROVE  /\ at'[c] = "new" => op'[c].what = "none"
             /\ at'[c] \in {"prime", "session"} => op'[c].what \notin {"none", "solve"}
             /\ at'[c] \in {"new", "prime", "session"} => flight'[c] = None
             /\ at'[c] = "wait" => flight'[c] # None
             /\ at'[c] # "done" => ans'[c] = None
             /\ flight'[c] # None => op'[flight'[c]].what = "solve" /\ op'[flight'[c]].key = call'[c].key
             /\ Resumed(c)' => phase'[flight'[c]] = "landed"
    BY DEF CallsHold
  <2>1. flight[c] # None => flight[c] \in Calls
    BY DEF CallInv, CallTypes
  <2>2. Resumed(c) => flight[c] # None
    BY DEF Resumed
  <2> QED BY <1>3, <2>1, <2>2 DEF CallInv, CallsHold
<1>5. WaitersHold'
  BY DEF CallInv, WaitersHold
<1>6. Quiet
  BY <1>3 DEF Quiet
<1> QED BY <1>1, <1>2, <1>4, <1>5, <1>6 DEF CallInv

\* A call that awaits no solve goes to the device for itself, or ends.
LEMMA OwnStepsKeepCalls ==
  ASSUME CallInv, DeviceTypes, DOMAIN held' = Keys,
         NEW c \in Calls, at[c] \in {"new", "prime", "session"},
         NEW a \in {"prime", "session", "done"}, at' = [at EXCEPT ![c] = a],
         UNCHANGED <<call, snap, flight, inflight, awaiting>>,
         \/ a # "done" /\ UNCHANGED ans /\ op'[c].what \notin {"none", "solve"}
         \/ a = "done" /\ (\E r : ans' = [ans EXCEPT ![c] = r]) /\ op'[c].what # "solve",
         phase'[c] # "landed",
         \A t \in Calls : t # c => op'[t] = op[t] /\ phase'[t] = phase[t]
  PROVE  CallInv' /\ Quiet
<1>1. CallTypes'
  BY DEF CallInv, CallTypes
<1>2. op[c].what # "solve" /\ flight[c] = None
  BY DEF CallInv, CallsHold
<1>3. \A t \in Calls : op[t].what = "solve" => t # c
  BY <1>2
<1>4. at'[c] = a /\ \A d \in Calls : d # c => at'[d] = at[d] /\ ans'[d] = ans[d]
  BY DEF CallInv, CallTypes
<1>5. SolvesHold'
  <2>1. ASSUME NEW t \in Calls
        PROVE  /\ op'[t].what = "solve" /\ Busy(t)' => inflight'[op'[t].key] = t
               /\ phase'[t] = "landed" => op'[t].what = "solve"
    <3>1. CASE t = c
      BY <3>1
    <3>2. CASE t # c
      BY <3>2 DEF CallInv, SolvesHold, Busy
    <3> QED BY <3>1, <3>2
  <2>2. ASSUME NEW k \in Keys, inflight'[k] # None
        PROVE  /\ op'[inflight'[k]].what = "solve" /\ op'[inflight'[k]].key = k
               /\ phase'[inflight'[k]] # "landed"
    <3>1. inflight[k] \in Calls /\ inflight'[k] = inflight[k] /\ op[inflight[k]].what = "solve"
      BY <2>2 DEF CallInv, CallTypes, SolvesHold
    <3> QED BY <1>3, <2>2, <3>1 DEF CallInv, SolvesHold
  <2> QED BY <2>1, <2>2 DEF SolvesHold
<1>6. \A d \in Calls : Resumed(d)' => d # c /\ Resumed(d) /\ flight[d] # None
  BY <1>2, <1>4 DEF Resumed
<1>7. CallsHold'
  <2> SUFFICES ASSUME NEW d \in Calls
      PROVE  /\ at'[d] = "new" => op'[d].what = "none"
             /\ at'[d] \in {"prime", "session"} => op'[d].what \notin {"none", "solve"}
             /\ at'[d] \in {"new", "prime", "session"} => flight'[d] = None
             /\ at'[d] = "wait" => flight'[d] # None
             /\ at'[d] # "done" => ans'[d] = None
             /\ flight'[d] # None => op'[flight'[d]].what = "solve" /\ op'[flight'[d]].key = call'[d].key
             /\ Resumed(d)' => phase'[flight'[d]] = "landed"
    BY DEF CallsHold
  <2>1. flight[d] # None => flight[d] \in Calls /\ flight[d] # c
    BY <1>3 DEF CallInv, CallTypes, CallsHold
  <2>2. CASE d = c
    BY <1>2, <1>4, <1>6, <2>2 DEF CallInv, CallsHold
  <2>3. CASE d # c
    BY <1>4, <1>6, <2>1, <2>3 DEF CallInv, CallsHold
  <2> QED BY <2>2, <2>3
<1>8. WaitersHold'
  BY <1>2, <1>4, NoNone DEF CallInv, WaitersHold
<1>9. Quiet
  BY <1>4, <1>6 DEF Quiet
<1> QED BY <1>1, <1>5, <1>7, <1>8, <1>9 DEF CallInv

\* A call starts a solve of its own, or joins the one in flight.
LEMMA CoalesceKeepsCalls ==
  ASSUME CallInv, DeviceInv, DOMAIN held' = Keys, DOMAIN snap' = Calls,
         NEW c \in Calls, at[c] = "new", Coalesce(c), UNCHANGED <<call, ans, result>>
  PROVE  CallInv' /\ DeviceInv' /\ Quiet
<1> DEFINE k == call[c].key
           t == IF Joins(k) THEN inflight[k] ELSE c
<1>1. k \in Keys /\ op[c].what = "none" /\ flight[c] = None /\ ans[c] = None
  BY DEF CallInv, CallTypes, CallsHold
<1>2. Joins(k) => /\ inflight[k] \in Calls /\ inflight[k] # c /\ op[inflight[k]].what = "solve"
                  /\ op[inflight[k]].key = k /\ phase[inflight[k]] \notin {"ended", "landed"}
  BY <1>1 DEF Joins, CallInv, CallTypes, SolvesHold
<1>3. /\ at' = [at EXCEPT ![c] = "wait"] /\ flight' = [flight EXCEPT ![c] = t]
      /\ awaiting' = [awaiting EXCEPT ![t] = Append(@, c)] /\ inflight' = [inflight EXCEPT ![k] = t]
      /\ IF Joins(k) THEN UNCHANGED <<op, phase, dev>> ELSE Queue(c, Op("solve", k))
  BY DEF Coalesce
<1>4. t \in Calls /\ phase[t] # "landed"
  BY <1>1, <1>2 DEF CallInv, SolvesHold
<1>5. DeviceInv'
  <2>1. CASE Joins(k)
    BY <1>3, <2>1 DEF DeviceInv, DeviceTypes, DeviceHolds, Ready
  <2>2. CASE ~ Joins(k)
    BY <1>1, <1>3, <2>2, QueueKeeps DEF Whats, Users
  <2> QED BY <2>1, <2>2
<1>6. /\ \A u \in Calls : u # c => op'[u] = op[u] /\ phase'[u] = phase[u]
      /\ IF Joins(k) THEN op'[c] = op[c] /\ phase'[c] = phase[c]
         ELSE op'[c].what = "solve" /\ op'[c].key = k /\ phase'[c] \in {"lock", "post"}
  <2>1. CASE Joins(k)
    BY <1>3, <2>1
  <2>2. CASE ~ Joins(k)
    <3>1. Op("solve", k).what = "solve" /\ Op("solve", k).key = k
      BY DEF Op
    <3>2. /\ op' = [op EXCEPT ![c] = Op("solve", k)]
          /\ phase' = [phase EXCEPT ![c] = IF dev = <<>> THEN "post" ELSE "lock"]
      BY <1>3, <2>2 DEF Queue
    <3> QED BY <2>2, <3>1, <3>2 DEF DeviceInv, DeviceTypes, Users
  <2> QED BY <2>1, <2>2
<1>7. /\ at'[c] = "wait" /\ flight'[c] = t
      /\ \A d \in Calls : d # c => at'[d] = at[d] /\ flight'[d] = flight[d]
      /\ inflight'[k] = t /\ \A x \in Keys : x # k => inflight'[x] = inflight[x]
      /\ awaiting'[t] = Append(awaiting[t], c)
      /\ \A u \in Calls : u # t => awaiting'[u] = awaiting[u]
  BY <1>1, <1>3, <1>4 DEF CallInv, CallTypes
<1>8. op'[t].what = "solve" /\ op'[t].key = k /\ phase'[t] # "landed" /\ phase[t] # "landed"
  BY <1>2, <1>4, <1>6
<1> HIDE DEF t
<1>9. c \notin ToSet(awaiting[t]) /\ IsInjective(awaiting[t]) /\ awaiting[t] \in Seq(Calls)
  BY <1>4 DEF CallInv, CallTypes, WaitersHold
<1>10. /\ awaiting'[t] \in Seq(Calls) /\ IsInjective(awaiting'[t])
       /\ ToSet(awaiting'[t]) = ToSet(awaiting[t]) \cup {c}
  BY <1>7, <1>9, JoinsQueue
<1>11. CallTypes'
  <2>1. awaiting' \in [Calls -> Seq(Calls)]
    BY <1>3, <1>7, <1>10 DEF CallInv, CallTypes, t
  <2> QED BY <1>1, <1>3, <1>4, <2>1 DEF CallInv, CallTypes, t
<1>12. SolvesHold'
  <2>1. ASSUME NEW u \in Calls
        PROVE  /\ op'[u].what = "solve" /\ Busy(u)' => inflight'[op'[u].key] = u
               /\ phase'[u] = "landed" => op'[u].what = "solve"
    <3>1. CASE u = c
      <4>1. CASE Joins(k)
        BY <1>1, <1>6, <3>1, <4>1 DEF CallInv, SolvesHold
      <4>2. CASE ~ Joins(k)
        BY <1>6, <1>7, <3>1, <4>2 DEF t
      <4> QED BY <4>1, <4>2
    <3>2. CASE u # c
      <4>1. op'[u] = op[u] /\ phase'[u] = phase[u] /\ (Busy(u)' <=> Busy(u))
        BY <1>6, <3>2 DEF Busy
      <4>2. ASSUME op[u].what = "solve", Busy(u) PROVE inflight'[op[u].key] = u
        <5>1. op[u].key \in Keys /\ inflight[op[u].key] = u
          BY <4>2 DEF CallInv, SolvesHold, DeviceInv, DeviceHolds, Users
        <5>2. CASE op[u].key = k
          <6>1. Joins(k)
            BY <4>2, <5>1, <5>2, NoNone DEF Joins, Busy
          <6> QED BY <1>7, <5>1, <5>2, <6>1 DEF t
        <5>3. CASE op[u].key # k
          BY <1>7, <5>1, <5>3
        <5> QED BY <5>2, <5>3
      <4> QED BY <4>1, <4>2 DEF CallInv, SolvesHold
    <3> QED BY <3>1, <3>2
  <2>2. ASSUME NEW x \in Keys, inflight'[x] # None
        PROVE  /\ op'[inflight'[x]].what = "solve" /\ op'[inflight'[x]].key = x
               /\ phase'[inflight'[x]] # "landed"
    <3>1. CASE x = k
      BY <1>7, <1>8, <3>1
    <3>2. CASE x # k
      <4>1. inflight[x] \in Calls /\ inflight'[x] = inflight[x] /\ op[inflight[x]].what = "solve"
        BY <1>7, <2>2, <3>2 DEF CallInv, CallTypes, SolvesHold
      <4>2. inflight[x] # c
        BY <1>1, <4>1
      <4> QED BY <1>6, <2>2, <4>1, <4>2 DEF CallInv, SolvesHold
    <3> QED BY <3>1, <3>2
  <2> QED BY <2>1, <2>2 DEF SolvesHold
<1>13. \A d \in Calls : Resumed(d)' => d # c /\ Resumed(d) /\ flight'[d] = flight[d] /\ flight[d] # None
  BY <1>7 DEF Resumed
<1>14. CallsHold'
  <2> SUFFICES ASSUME NEW d \in Calls
      PROVE  /\ at'[d] = "new" => op'[d].what = "none"
             /\ at'[d] \in {"prime", "session"} => op'[d].what \notin {"none", "solve"}
             /\ at'[d] \in {"new", "prime", "session"} => flight'[d] = None
             /\ at'[d] = "wait" => flight'[d] # None
             /\ at'[d] # "done" => ans'[d] = None
             /\ flight'[d] # None => op'[flight'[d]].what = "solve" /\ op'[flight'[d]].key = call'[d].key
             /\ Resumed(d)' => phase'[flight'[d]] = "landed"
    BY DEF CallsHold
  <2>1. CASE d = c
    BY <1>1, <1>4, <1>7, <1>8, <1>13, <2>1, NoNone
  <2>2. CASE d # c
    <3>1. flight[d] # None => flight[d] \in Calls /\ flight[d] # c
      BY <1>1 DEF CallInv, CallTypes, CallsHold
    <3> QED BY <1>6, <1>7, <1>13, <2>2, <3>1 DEF CallInv, CallsHold
  <2> QED BY <2>1, <2>2
<1>15. WaitersHold'
  <2> SUFFICES ASSUME NEW u \in Calls
      PROVE  /\ IsInjective(awaiting'[u])
             /\ ToSet(awaiting'[u]) = {d \in Calls : at'[d] = "wait" /\ flight'[d] = u}
    BY DEF WaitersHold
  <2>1. CASE u = t
    <3>1. ToSet(awaiting[t]) = {d \in Calls : at[d] = "wait" /\ flight[d] = t}
      BY <2>1 DEF CallInv, WaitersHold
    <3>2. {d \in Calls : at'[d] = "wait" /\ flight'[d] = t} = ToSet(awaiting[t]) \cup {c}
      BY <1>4, <1>7, <3>1
    <3> QED BY <1>10, <2>1, <3>2
  <2>2. CASE u # t
    <3>1. /\ awaiting'[u] = awaiting[u] /\ IsInjective(awaiting[u])
          /\ ToSet(awaiting[u]) = {d \in Calls : at[d] = "wait" /\ flight[d] = u}
      BY <1>7, <2>2 DEF CallInv, WaitersHold
    <3>2. \A d \in Calls : at'[d] = "wait" /\ flight'[d] = u <=> at[d] = "wait" /\ flight[d] = u
      BY <1>1, <1>7, <2>2
    <3> QED BY <3>1, <3>2
  <2> QED BY <2>1, <2>2
<1>16. Quiet
  BY <1>7, <1>8, <1>13 DEF Quiet
<1> QED BY <1>5, <1>11, <1>12, <1>14, <1>15, <1>16 DEF CallInv

\* A solve that nobody awaits any more is forgotten by all.
LEMMA ForgetsKeepsCalls ==
  ASSUME CallInv, DeviceInv, DOMAIN held' = Keys,
         NEW t \in Calls, op[t].what = "solve", phase[t] \in {"ended", "landed"}, Forgets(t),
         UNCHANGED <<call, dev>>,
         \A d \in Calls : \/ at'[d] = at[d] /\ ans'[d] = ans[d]
                          \/ at[d] = "wait" /\ at'[d] = "done" /\ flight[d] = t,
         at' \in [Calls -> {"new", "wait", "prime", "session", "done"}], DOMAIN ans' = Calls,
         \A d \in Calls : at'[d] = "wait" => flight[d] # t,
         inflight' \in [Keys -> Calls \cup {None}],
         \A k \in Keys : inflight'[k] = IF inflight[k] = t THEN None ELSE inflight[k],
         awaiting' \in [Calls -> Seq(Calls)], awaiting'[t] = <<>>,
         \A u \in Calls : u # t => awaiting'[u] = awaiting[u]
  PROVE  CallInv' /\ DeviceInv' /\ Quiet
<1>1. /\ snap' = [d \in Calls |-> IF flight[d] = t THEN None ELSE snap[d]]
      /\ flight' = [d \in Calls |-> IF flight[d] = t THEN None ELSE flight[d]]
      /\ Clears(t) /\ t \in Users /\ ~ Ready(t)
  BY DEF Forgets, Users, Ready
<1>2. /\ DeviceInv' /\ op'[t] = Idle /\ phase'[t] = "none"
      /\ \A u \in Calls : u # t => op'[u] = op[u] /\ phase'[u] = phase[u]
  BY <1>1, ClearKeeps DEF Users
<1>3. Idle.what = "none"
  BY DEF Idle
<1>4. \A d \in Calls : flight'[d] = (IF flight[d] = t THEN None ELSE flight[d])
                         /\ flight'[d] \in Calls \cup {None} /\ (at'[d] = "wait" => flight'[d] = flight[d])
  BY <1>1 DEF CallInv, CallTypes
<1>5. CallTypes'
  BY <1>1, <1>4 DEF CallInv, CallTypes
<1>6. at[t] \in {"wait", "done"} /\ at'[t] \in {"wait", "done"}
  BY DEF CallInv, CallTypes, CallsHold
<1>7. SolvesHold'
  <2>1. ASSUME NEW u \in Calls
        PROVE  /\ op'[u].what = "solve" /\ Busy(u)' => inflight'[op'[u].key] = u
               /\ phase'[u] = "landed" => op'[u].what = "solve"
    <3>1. CASE u = t
      BY <1>2, <1>3, <3>1
    <3>2. CASE u # t
      <4>1. op[u].what = "solve" => op[u].key \in Keys
        BY DEF DeviceInv, DeviceHolds, Users
      <4>2. op'[u] = op[u] /\ phase'[u] = phase[u]
        BY <1>2, <3>2
      <4>3. op[u].what = "solve" /\ Busy(u) => inflight'[op[u].key] = u
        BY <3>2, <4>1 DEF CallInv, SolvesHold
      <4> QED BY <4>2, <4>3 DEF CallInv, SolvesHold, Busy
    <3> QED BY <3>1, <3>2
  <2>2. ASSUME NEW k \in Keys, inflight'[k] # None
        PROVE  /\ op'[inflight'[k]].what = "solve" /\ op'[inflight'[k]].key = k
               /\ phase'[inflight'[k]] # "landed"
    <3>1. inflight'[k] = inflight[k] /\ inflight[k] \in Calls /\ inflight[k] # t
      BY <2>2 DEF CallInv, CallTypes
    <3>2. op'[inflight[k]] = op[inflight[k]] /\ phase'[inflight[k]] = phase[inflight[k]]
      BY <1>2, <3>1
    <3> QED BY <2>2, <3>1, <3>2 DEF CallInv, SolvesHold
  <2> QED BY <2>1, <2>2 DEF SolvesHold
<1>8. \A d \in Calls : Resumed(d)' => Resumed(d) /\ flight'[d] = flight[d] /\ flight[d] \in Calls /\ flight[d] # t
  BY <1>4, NoNone DEF Resumed
<1>9. CallsHold'
  <2> SUFFICES ASSUME NEW d \in Calls
      PROVE  /\ at'[d] = "new" => op'[d].what = "none"
             /\ at'[d] \in {"prime", "session"} => op'[d].what \notin {"none", "solve"}
             /\ at'[d] \in {"new", "prime", "session"} => flight'[d] = None
             /\ at'[d] = "wait" => flight'[d] # None
             /\ at'[d] # "done" => ans'[d] = None
             /\ flight'[d] # None => op'[flight'[d]].what = "solve" /\ op'[flight'[d]].key = call'[d].key
             /\ Resumed(d)' => phase'[flight'[d]] = "landed"
    BY DEF CallsHold
  <2>1. flight'[d] # None => flight'[d] = flight[d] /\ flight[d] \in Calls /\ flight[d] # t
    BY <1>4
  <2>a. /\ at[d] # "done" => ans[d] = None
        /\ at[d] = "wait" => flight[d] # None
        /\ flight[d] # None => op[flight[d]].what = "solve" /\ op[flight[d]].key = call[d].key
        /\ Resumed(d) => phase[flight[d]] = "landed"
    BY DEF CallInv, CallsHold
  <2>2. CASE d = t
    <3>1. at'[t] \notin {"new", "prime", "session"} /\ op'[t] = Idle
      BY <1>2, <1>6
    <3>2. at'[t] # "done" => ans'[t] = None
      <4>1. at'[t] # "done" => at'[t] = at[t] /\ ans'[t] = ans[t]
        OBVIOUS
      <4> QED BY <2>a, <2>2, <4>1
    <3>3. at'[t] = "wait" => flight'[t] # None
      <4>1. at'[t] = "wait" => at[t] = "wait"
        OBVIOUS
      <4> QED BY <1>4, <2>a, <2>2, <4>1
    <3>4. flight'[t] # None => op'[flight[t]] = op[flight[t]] /\ phase'[flight[t]] = phase[flight[t]]
      BY <1>2, <2>1, <2>2
    <3>5. flight'[t] # None => op'[flight'[t]].what = "solve" /\ op'[flight'[t]].key = call'[t].key
      BY <2>a, <2>1, <2>2, <3>4
    <3>6. Resumed(t)' => phase'[flight'[t]] = "landed"
      BY <1>2, <1>8, <2>a, <2>2
    <3> QED BY <2>2, <3>1, <3>2, <3>3, <3>5, <3>6
  <2>3. CASE d # t
    <3>1. op'[d] = op[d] /\ (flight'[d] # None => op'[flight[d]] = op[flight[d]] /\ phase'[flight[d]] = phase[flight[d]])
      BY <1>2, <2>1, <2>3
    <3>2. CASE at'[d] = at[d] /\ ans'[d] = ans[d]
      <4>1. /\ at[d] = "new" => op[d].what = "none"
            /\ at[d] \in {"prime", "session"} => op[d].what \notin {"none", "solve"}
            /\ at[d] \in {"new", "prime", "session"} => flight[d] = None
            /\ at[d] = "wait" => flight[d] # None
            /\ at[d] # "done" => ans[d] = None
            /\ flight[d] # None => op[flight[d]].what = "solve" /\ op[flight[d]].key = call[d].key
            /\ Resumed(d) => phase[flight[d]] = "landed"
        BY DEF CallInv, CallsHold
      <4>2. flight[d] = None => flight'[d] = None
        BY <1>4
      <4>3. call'[d] = call[d]
        OBVIOUS
      <4>4. at'[d] = "wait" => flight'[d] = flight[d]
        BY <1>4
      <4>5. Resumed(d)' => phase'[flight'[d]] = "landed"
        BY <1>2, <1>8, <4>1
      <4> QED BY <2>1, <3>1, <3>2, <4>1, <4>2, <4>3, <4>4, <4>5
    <3>3. CASE at[d] = "wait" /\ at'[d] = "done" /\ flight[d] = t
      BY <1>4, <1>8, <3>3
    <3> QED BY <3>2, <3>3
  <2> QED BY <2>2, <2>3
<1>10. WaitersHold'
  <2> SUFFICES ASSUME NEW u \in Calls
      PROVE  /\ IsInjective(awaiting'[u])
             /\ ToSet(awaiting'[u]) = {d \in Calls : at'[d] = "wait" /\ flight'[d] = u}
    BY DEF WaitersHold
  <2>1. CASE u = t
    <3>1. IsInjective(awaiting'[u]) /\ ToSet(awaiting'[u]) = {}
      <4>1. awaiting'[u] = <<>> /\ awaiting'[u] \in Seq(Calls)
        BY <2>1
      <4>2. DOMAIN awaiting'[u] = {}
        BY <4>1
      <4> QED BY <4>2 DEF IsInjective, ToSet
    <3>2. \A d \in Calls : ~ (at'[d] = "wait" /\ flight'[d] = t)
      BY <1>4
    <3> QED BY <2>1, <3>1, <3>2
  <2>2. CASE u # t
    <3>1. \A d \in Calls : at'[d] = "wait" /\ flight'[d] = u <=> at[d] = "wait" /\ flight[d] = u
      BY <1>4, <2>2, NoNone
    <3>2. awaiting'[u] = awaiting[u]
      BY <2>2
    <3> QED BY <3>1, <3>2 DEF CallInv, WaitersHold
  <2> QED BY <2>1, <2>2
<1>11. Quiet
  BY <1>4, <1>8 DEF Quiet
<1> QED BY <1>2, <1>5, <1>7, <1>9, <1>10, <1>11 DEF CallInv

\* The done callback of a solve.
LEMMA LandedKeepsCalls ==
  ASSUME CallInv, DeviceInv, NEW c \in Calls, Landed(c)
  PROVE  CallInv' /\ DeviceInv' /\ Quiet
<1>1. /\ op[c].what = "solve" /\ phase[c] = "ended" /\ c \in Users
      /\ inflight' = [k \in Keys |-> IF inflight[k] = c THEN None ELSE inflight[k]]
      /\ UNCHANGED <<at, call, ans, held, dev, awaiting>>
  BY DEF Landed, clearVars, Users
<1>2. CASE awaiting[c] = <<>>
  <2>1. Forgets(c)
    BY <1>2 DEF Landed, Lands
  <2>2. \A d \in Calls : at[d] = "wait" => flight[d] # c
    <3>1. ToSet(awaiting[c]) = {}
      BY <1>2, EmptyQueue DEF CallInv, CallTypes
    <3> QED BY <3>1 DEF CallInv, WaitersHold
  <2>3. inflight' \in [Keys -> Calls \cup {None}]
    BY <1>1 DEF CallInv, CallTypes
  <2>4. /\ DOMAIN held' = Keys /\ at' \in [Calls -> {"new", "wait", "prime", "session", "done"}]
        /\ DOMAIN ans' = Calls /\ awaiting' \in [Calls -> Seq(Calls)]
    BY <1>1 DEF CallInv, CallTypes
  <2> QED BY <1>1, <1>2, <2>1, <2>2, <2>3, <2>4, ForgetsKeepsCalls
<1>3. CASE awaiting[c] # <<>>
  <2>1. phase' = [phase EXCEPT ![c] = "landed"] /\ UNCHANGED <<op, result, snap, flight>>
    BY <1>3 DEF Landed, Lands
  <2>2. phase'[c] = "landed" /\ \A u \in Users : u # c => phase'[u] = phase[u]
    BY <1>1, <2>1 DEF DeviceInv, DeviceTypes
  <2>3. DeviceInv'
    <3>1. DeviceTypes'
      BY <1>1, <2>1 DEF DeviceInv, DeviceTypes, Phases
    <3>2. \A u \in Users : Ready(u)' <=> Ready(u)
      BY <1>1, <2>2 DEF Ready
    <3>3. DeviceHolds'
      BY <1>1, <2>1, <2>2, <3>2 DEF DeviceInv, DeviceHolds
    <3> QED BY <3>1, <3>3 DEF DeviceInv
  <2>4. CallTypes'
    BY <1>1, <2>1 DEF CallInv, CallTypes
  <2>5. \A k \in Keys : inflight'[k] # None => inflight'[k] = inflight[k] /\ inflight[k] \in Calls /\ inflight[k] # c
    BY <1>1 DEF CallInv, CallTypes
  <2>6. SolvesHold'
    <3>1. ASSUME NEW u \in Calls
          PROVE  /\ op'[u].what = "solve" /\ Busy(u)' => inflight'[op'[u].key] = u
                 /\ phase'[u] = "landed" => op'[u].what = "solve"
      <4>1. CASE u = c
        BY <1>1, <2>1, <2>2, <4>1 DEF Busy
      <4>2. CASE u # c
        <5>1. op[u].what = "solve" => op[u].key \in Keys
          BY DEF DeviceInv, DeviceHolds, Users
        <5>2. phase'[u] = phase[u]
          BY <2>2, <4>2 DEF Users
        <5> QED BY <1>1, <2>1, <4>2, <5>1, <5>2 DEF CallInv, SolvesHold, Busy
      <4> QED BY <4>1, <4>2
    <3>2. ASSUME NEW k \in Keys, inflight'[k] # None
          PROVE  /\ op'[inflight'[k]].what = "solve" /\ op'[inflight'[k]].key = k
                 /\ phase'[inflight'[k]] # "landed"
      BY <2>1, <2>2, <2>5, <3>2 DEF CallInv, SolvesHold, Users
    <3> QED BY <3>1, <3>2 DEF SolvesHold
  <2>7. \A d \in Calls : Resumed(d)' <=> Resumed(d)
    BY <1>1, <2>1 DEF Resumed
  <2>8. CallsHold'
    <3>1. ASSUME NEW d \in Calls, Resumed(d) PROVE phase'[flight[d]] = "landed"
      <4>1. flight[d] \in Calls /\ phase[flight[d]] = "landed"
        BY <3>1 DEF Resumed, CallInv, CallTypes, CallsHold
      <4> QED BY <2>2, <4>1 DEF Users
    <3> QED BY <1>1, <2>1, <2>7, <3>1 DEF CallInv, CallsHold
  <2>9. WaitersHold'
    BY <1>1, <2>1 DEF CallInv, WaitersHold
  <2>10. Quiet
    BY <1>1, <2>1, <2>7 DEF Quiet
  <2> QED BY <2>3, <2>4, <2>6, <2>8, <2>9, <2>10 DEF CallInv
<1> QED BY <1>2, <1>3

\* A call that awaits a solve, and what the queue of that solve is without it.
LEMMA WaiterIsQueued ==
  ASSUME CallInv, DeviceInv, NEW c \in Calls, at[c] = "wait"
  PROVE  LET t == flight[c]
         IN  /\ t \in Calls /\ op[t].what = "solve" /\ op[t].key = call[c].key /\ c \in ToSet(awaiting[t])
             /\ awaiting[t] \in Seq(Calls) /\ awaiting[t] # <<>> /\ IsInjective(awaiting[t])
             /\ ToSet(awaiting[t]) = {d \in Calls : at[d] = "wait" /\ flight[d] = t}
<1>1. flight[c] \in Calls
  BY DEF CallInv, CallTypes, CallsHold
<1>2. c \in ToSet(awaiting[flight[c]]) /\ awaiting[flight[c]] \in Seq(Calls)
  BY <1>1 DEF CallInv, CallTypes, WaitersHold
<1>3. awaiting[flight[c]] # <<>>
  BY <1>2, EmptyQueue
<1> QED BY <1>1, <1>2, <1>3, NoNone DEF CallInv, CallsHold, WaitersHold

\* A call leaves the others to the solve that it awaited.
LEMMA LeavingKeepsCalls ==
  ASSUME CallInv, DeviceInv, DOMAIN held' = Keys,
         NEW c \in Calls, at[c] = "wait", NEW r, Done(c, r),
         r = Cancelled \/ phase[flight[c]] = "landed",
         NEW q, q \in Seq(Calls), IsInjective(q), ToSet(q) = ToSet(awaiting[flight[c]]) \ {c},
         awaiting' = [awaiting EXCEPT ![flight[c]] = q],
         UNCHANGED <<call, snap, flight, inflight, op, phase, result, dev>>
  PROVE  CallInv' /\ DeviceInv'
<1> DEFINE t == flight[c]
<1>1. t \in Calls /\ op[t].what = "solve" /\ ToSet(awaiting[t]) = {d \in Calls : at[d] = "wait" /\ flight[d] = t}
  BY WaiterIsQueued
<1>2. /\ at'[c] = "done" /\ ans'[c] = r
      /\ \A d \in Calls : d # c => at'[d] = at[d] /\ ans'[d] = ans[d]
      /\ awaiting'[t] = q /\ \A u \in Calls : u # t => awaiting'[u] = awaiting[u]
  BY <1>1 DEF Done, CallInv, CallTypes
<1> HIDE DEF t
<1>3. DeviceInv'
  BY DEF DeviceInv, DeviceTypes, DeviceHolds, Ready
<1>4. CallTypes'
  <2>1. awaiting' \in [Calls -> Seq(Calls)]
    BY <1>1, <1>2 DEF CallInv, CallTypes, t
  <2> QED BY <2>1 DEF CallInv, CallTypes, Done
<1>5. SolvesHold'
  BY DEF CallInv, SolvesHold, Busy
<1>6. \A d \in Calls : d # c => (Resumed(d)' <=> Resumed(d))
  BY <1>2 DEF Resumed
<1>7. Resumed(c)' => phase[t] = "landed"
  BY <1>2 DEF Resumed, t
<1>8. CallsHold'
  <2> SUFFICES ASSUME NEW d \in Calls
      PROVE  /\ at'[d] = "new" => op'[d].what = "none"
             /\ at'[d] \in {"prime", "session"} => op'[d].what \notin {"none", "solve"}
             /\ at'[d] \in {"new", "prime", "session"} => flight'[d] = None
             /\ at'[d] = "wait" => flight'[d] # None
             /\ at'[d] # "done" => ans'[d] = None
             /\ flight'[d] # None => op'[flight'[d]].what = "solve" /\ op'[flight'[d]].key = call'[d].key
             /\ Resumed(d)' => phase'[flight'[d]] = "landed"
    BY DEF CallsHold
  <2>1. CASE d = c
    BY <1>2, <1>7, <2>1 DEF CallInv, CallsHold, t
  <2>2. CASE d # c
    BY <1>2, <1>6, <2>2 DEF CallInv, CallsHold
  <2> QED BY <2>1, <2>2
<1>9. WaitersHold'
  <2> SUFFICES ASSUME NEW u \in Calls
      PROVE  /\ IsInjective(awaiting'[u])
             /\ ToSet(awaiting'[u]) = {d \in Calls : at'[d] = "wait" /\ flight'[d] = u}
    BY DEF WaitersHold
  <2>1. CASE u = t
    BY <1>1, <1>2, <2>1 DEF t
  <2>2. CASE u # t
    BY <1>2, <2>2 DEF CallInv, WaitersHold, t
  <2> QED BY <2>1, <2>2
<1> QED BY <1>3, <1>4, <1>5, <1>8, <1>9 DEF CallInv

\* The solves that are resuming their calls are the one of this call, if any;
\* the next resumes after it.
LEMMA ResumeKeeps ==
  ASSUME CallInv, DeviceInv, BlockHolds, NEW c \in Calls, Resume(c)
  PROVE  CallInv' /\ DeviceInv' /\ BlockHolds'
<1> DEFINE t == flight[c]
           k == call[c].key
<1>1. /\ at[c] = "wait" /\ phase[t] = "landed" /\ Head(awaiting[t]) = c /\ Turns \subseteq {t}
      /\ awaiting' = [awaiting EXCEPT ![t] = Tail(@)]
      /\ IF Len(awaiting[t]) = 1 THEN Forgets(t) ELSE UNCHANGED <<op, phase, result, snap, flight>>
      /\ UNCHANGED <<call, expired, window, minted, dev, todo, inflight>>
  BY DEF Resume
<1>2. /\ t \in Calls /\ op[t].what = "solve" /\ op[t].key = k
      /\ awaiting[t] \in Seq(Calls) /\ awaiting[t] # <<>> /\ IsInjective(awaiting[t])
      /\ ToSet(awaiting[t]) = {d \in Calls : at[d] = "wait" /\ flight[d] = t}
  BY <1>1, WaiterIsQueued
<1>3. /\ Tail(awaiting[t]) \in Seq(Calls) /\ IsInjective(Tail(awaiting[t]))
      /\ ToSet(Tail(awaiting[t])) = ToSet(awaiting[t]) \ {c}
      /\ Len(awaiting[t]) = 1 <=> ToSet(awaiting[t]) = {c}
  BY <1>1, <1>2, HeadLeavesQueue
<1>4. k \in Keys
  BY DEF CallInv, CallTypes
<1>5. PICK r : Done(c, r) /\ (held' = held \/ \E x : held' = [held EXCEPT ![k] = x])
  <2>1. \/ Done(c, Value) /\ held' = [held EXCEPT ![k] = result[t]]
        \/ Done(c, Value) /\ held' = [held EXCEPT ![k] = snap[c]]
        \/ Done(c, Value) /\ UNCHANGED held
        \/ Done(c, result[t]) /\ UNCHANGED held
    BY DEF Resume
  <2> QED BY <2>1
<1>6. DOMAIN held' = Keys
  BY <1>5 DEF CallInv, CallTypes
<1>7. /\ at'[c] = "done" /\ \A d \in Calls : d # c => at'[d] = at[d] /\ ans'[d] = ans[d]
      /\ at' \in [Calls -> {"new", "wait", "prime", "session", "done"}] /\ DOMAIN ans' = Calls
  BY <1>5 DEF Done, CallInv, CallTypes
<1>8. awaiting'[t] = Tail(awaiting[t]) /\ \A u \in Calls : u # t => awaiting'[u] = awaiting[u]
  BY <1>1, <1>2 DEF CallInv, CallTypes
<1>9. CASE Len(awaiting[t]) = 1
  <2>1. Forgets(t) /\ \A d \in Calls : at[d] = "wait" /\ flight[d] = t <=> d = c
    BY <1>1, <1>2, <1>3, <1>9
  <2>2. \A d \in Calls : at'[d] = "wait" => flight[d] # t
    BY <1>7, <2>1
  <2>3. Tail(awaiting[t]) = <<>>
    <3>1. ToSet(Tail(awaiting[t])) = {}
      BY <1>3, <1>9
    <3> QED BY <1>3, <3>1, EmptyQueue
  <2>4. awaiting' \in [Calls -> Seq(Calls)]
    BY <1>1, <1>3, <1>8 DEF CallInv, CallTypes
  <2>5. \A x \in Keys : inflight'[x] = IF inflight[x] = t THEN None ELSE inflight[x]
    <3>1. \A x \in Keys : inflight[x] # t
      BY <1>1, <1>2, NoNone DEF CallInv, SolvesHold
    <3> QED BY <1>1, <3>1
  <2>6. inflight' \in [Keys -> Calls \cup {None}]
    BY <1>1 DEF CallInv, CallTypes
  <2>7. CallInv' /\ DeviceInv' /\ Quiet
    <3>1. \A d \in Calls : \/ at'[d] = at[d] /\ ans'[d] = ans[d]
                           \/ at[d] = "wait" /\ at'[d] = "done" /\ flight[d] = t
      BY <1>1, <1>7
    <3> HIDE DEF t
    <3> QED BY <1>1, <1>2, <1>6, <1>7, <1>8, <2>1, <2>2, <2>3, <2>4, <2>5, <2>6, <3>1, ForgetsKeepsCalls
  <2>8. \A d \in Calls : Resumed(d)' => flight'[d] = flight[d] /\ flight[d] # t /\ Resumed(d)
    <3>1. \A d \in Calls : flight'[d] = IF flight[d] = t THEN None ELSE flight[d]
      BY <2>1 DEF Forgets
    <3> QED BY <1>7, <2>7, <3>1 DEF Resumed, Quiet
  <2>9. \A d \in Calls : Resumed(d)' => flight'[d] \notin Turns'
    <3> SUFFICES ASSUME NEW d \in Calls, Resumed(d)', flight'[d] \in Turns' PROVE FALSE
      OBVIOUS
    <3>1. PICK w \in Calls : at'[w] = "wait" /\ flight'[w] = flight'[d]
      BY DEF Turns
    <3>2. at[w] = "wait" /\ flight[w] = flight[d]
      <4>1. phase[flight[d]] = "landed" /\ flight[d] # None
        BY <2>8 DEF CallInv, CallsHold, Resumed
      <4> QED BY <2>7, <2>8, <3>1, <4>1 DEF Quiet
    <3>3. flight[d] \in Turns
      BY <2>8, <3>2 DEF Turns
    <3> QED BY <1>1, <2>8, <3>3
  <2> QED BY <2>7, <2>9 DEF BlockHolds
<1>10. CASE Len(awaiting[t]) # 1
  <2>1. UNCHANGED <<op, phase, result, snap, flight>>
    BY <1>1, <1>10
  <2>2. CallInv' /\ DeviceInv'
    BY <1>1, <1>3, <1>5, <1>6, <2>1, LeavingKeepsCalls
  <2>3. PICK w \in Calls : w # c /\ at[w] = "wait" /\ flight[w] = t
    <3>1. c \in ToSet(awaiting[t])
      BY <1>1, <1>2
    <3> QED BY <1>2, <1>3, <1>10, <3>1
  <2>4. \A d \in Calls : Resumed(d)' => d = c \/ Resumed(d)
    BY <1>7, <2>1 DEF Resumed
  <2>5. ASSUME NEW d \in Calls, Resumed(d)', flight'[d] \in Turns', result'[flight'[d]] = Blocked
        PROVE  snap'[d] = None \/ snap'[d] \in expired' \/ Valid(call[d].key)'
    <3>1. flight[d] = t
      <4>1. CASE d = c
        BY <4>1
      <4>2. CASE d # c
        <5>1. PICK x \in Calls : at'[x] = "wait" /\ flight'[x] = flight'[d]
          BY <2>5 DEF Turns
        <5>2. Resumed(d) /\ at[x] = "wait" /\ flight[x] = flight[d]
          BY <1>7, <2>1, <2>4, <2>5, <4>2, <5>1
        <5>3. flight[d] \in Turns
          BY <5>2 DEF Turns
        <5> QED BY <1>1, <5>3
      <4> QED BY <4>1, <4>2
    <3>2. result[t] = Blocked /\ result[t] \notin 1..MaxMints
      BY <2>1, <2>5, <3>1, AndroidAssumption
    <3>3. call[d].key = k
      <4>1. flight[d] # None
        BY <1>2, <3>1, NoNone
      <4> QED BY <1>2, <3>1, <4>1 DEF CallInv, CallsHold
    <3>4. \/ Restorable(c) /\ held' = [held EXCEPT ![k] = snap[c]]
          \/ ~ Restorable(c) /\ Restored(k) /\ UNCHANGED held
          \/ ~ Restorable(c) /\ ~ Restored(k) /\ UNCHANGED held
      BY <3>2 DEF Resume
    <3>5. CASE Restorable(c) /\ held' = [held EXCEPT ![k] = snap[c]]
      <4>1. held'[k] = snap[c]
        BY <1>4, <3>5 DEF CallInv, CallTypes
      <4> QED BY <1>1, <3>3, <3>5, <4>1 DEF Restorable, Valid
    <3>6. CASE ~ Restorable(c) /\ Restored(k) /\ UNCHANGED held
      BY <1>1, <3>3, <3>6 DEF Restored, Valid
    <3>7. CASE ~ Restorable(c) /\ ~ Restored(k) /\ UNCHANGED held
      <4>1. CASE d = c
        BY <1>1, <2>1, <3>7, <4>1 DEF Restorable
      <4>2. CASE d # c
        <5>1. Resumed(d) /\ flight[d] \in Turns
          BY <1>1, <2>4, <2>5, <3>1, <4>2 DEF Turns
        <5>2. snap[d] = None \/ snap[d] \in expired \/ Valid(call[d].key)
          BY <3>1, <3>2, <5>1 DEF BlockHolds
        <5> QED BY <1>1, <2>1, <3>7, <5>2 DEF Valid
      <4> QED BY <4>1, <4>2
    <3> QED BY <3>4, <3>5, <3>6, <3>7
  <2> QED BY <2>2, <2>5 DEF BlockHolds
<1> QED BY <1>9, <1>10

----------------------------------------------------------------------------
(* The steps. *)

\* What the warm-up works on is the first of what it has left.
WarmHolds == todo \in Seq(Keys) /\ (op[Warm].what # "none" => todo # <<>>)

AInv == DeviceInv /\ CallInv /\ BlockHolds /\ WarmHolds

LEMMA DeviceSame ==
  ASSUME DeviceInv, UNCHANGED <<op, phase, result, dev>>
  PROVE  DeviceInv'
BY DEF DeviceInv, DeviceTypes, DeviceHolds, Ready

\* No solve begins to resume its calls in a quiet step.
LEMMA TurnsStay ==
  ASSUME CallInv, Quiet, Turns = {}
  PROVE  Turns' = {}
<1> SUFFICES ASSUME NEW w \in Calls, at'[w] = "wait", NEW d \in Calls, Resumed(d)', flight'[d] = flight'[w]
             PROVE  FALSE
  BY DEF Turns
<1>1. Resumed(d) /\ flight'[d] = flight[d] /\ phase[flight[d]] = "landed"
  BY DEF Quiet, CallInv, CallsHold
<1>2. at[w] = "wait" /\ flight[w] = flight[d]
  BY <1>1 DEF Quiet
<1> QED BY <1>1, <1>2 DEF Turns

\* A call goes to the device in its own name.
LEMMA QueuedInOwnName ==
  ASSUME CallInv, DeviceInv, DOMAIN held' = Keys, NEW c \in Calls, at[c] = "new",
         NEW a \in {"prime", "session"}, at' = [at EXCEPT ![c] = a],
         NEW what \in {"prime", "eval"}, Queue(c, Op(what, call[c].key)),
         UNCHANGED <<call, ans, snap, flight, result, inflight, awaiting>>
  PROVE  CallInv' /\ DeviceInv' /\ Quiet
<1>1. op[c].what = "none" /\ call[c].key \in Keys /\ c \in Users
  BY DEF CallInv, CallTypes, CallsHold, Users
<1>2. DeviceInv'
  BY <1>1, QueueKeeps DEF Whats
<1>3. Op(what, call[c].key).what = what
  BY DEF Op
<1>4. /\ op' = [op EXCEPT ![c] = Op(what, call[c].key)]
      /\ phase' = [phase EXCEPT ![c] = IF dev = <<>> THEN "post" ELSE "lock"]
  BY DEF Queue
<1>5. /\ op'[c].what = what /\ phase'[c] # "landed"
      /\ \A t \in Calls : t # c => op'[t] = op[t] /\ phase'[t] = phase[t]
  BY <1>1, <1>3, <1>4 DEF DeviceInv, DeviceTypes, Users
<1>6. CallInv' /\ Quiet
  BY <1>5, OwnStepsKeepCalls DEF DeviceInv
<1> QED BY <1>2, <1>6

\* A call ends with an answer of its own, and its operation with it.
LEMMA EndsInOwnName ==
  ASSUME CallInv, DeviceInv, DOMAIN held' = Keys, NEW c \in Calls, at[c] \in {"new", "prime", "session"},
         NEW r, Done(c, r),
         \/ at[c] = "new" /\ UNCHANGED <<op, phase, result, dev>>
         \/ Clears(c) /\ (dev' = RemoveFirst(dev, c) \/ (~ Ready(c) /\ UNCHANGED dev)),
         UNCHANGED <<call, snap, flight, inflight, awaiting>>
  PROVE  CallInv' /\ DeviceInv' /\ Quiet
<1>1. c \in Users
  BY DEF Users
<1>2. /\ DeviceInv' /\ op'[c].what # "solve" /\ phase'[c] # "landed"
      /\ \A t \in Calls : t # c => op'[t] = op[t] /\ phase'[t] = phase[t]
  <2>1. CASE at[c] = "new" /\ UNCHANGED <<op, phase, result, dev>>
    <3>1. op[c].what = "none" /\ phase[c] = "none"
      BY <1>1, <2>1 DEF CallInv, CallsHold, DeviceInv, DeviceHolds
    <3> QED BY <2>1, <3>1, DeviceSame
  <2>2. CASE Clears(c) /\ (dev' = RemoveFirst(dev, c) \/ (~ Ready(c) /\ UNCHANGED dev))
    <3>1. Idle.what = "none"
      BY DEF Idle
    <3> QED BY <1>1, <2>2, <3>1, ClearKeeps DEF Users
  <2> QED BY <2>1, <2>2
<1>3. at' = [at EXCEPT ![c] = "done"] /\ ans' = [ans EXCEPT ![c] = r]
  BY DEF Done
<1>4. CallInv' /\ Quiet
  BY <1>2, <1>3, OwnStepsKeepCalls DEF DeviceInv
<1> QED BY <1>2, <1>4

\* The refresh and the warm-up change no call and no solve of a call.
LEMMA BackgroundKeepsCalls ==
  ASSUME CallInv, DeviceInv, DOMAIN held' = Keys, NEW u \in {Refresh, Warm},
         \/ op[u].what = "none" /\ UNCHANGED result
               /\ \E what \in {"solve", "prime"}, k \in Keys : Queue(u, Op(what, k))
         \/ Clears(u) /\ ~ Ready(u) /\ UNCHANGED dev,
         UNCHANGED callVars, UNCHANGED <<inflight, awaiting>>
  PROVE  /\ CallInv' /\ DeviceInv' /\ Quiet
         /\ \A v \in Users : v # u => op'[v] = op[v]
<1>1. u \in Users /\ u \notin Calls
  BY NoNone DEF Users
<1>2. DeviceInv' /\ \A v \in Users : v # u => op'[v] = op[v] /\ phase'[v] = phase[v]
  <2>1. CASE op[u].what = "none" /\ UNCHANGED result
               /\ \E what \in {"solve", "prime"}, k \in Keys : Queue(u, Op(what, k))
    <3>1. PICK what \in {"solve", "prime"}, k \in Keys : Queue(u, Op(what, k))
      BY <2>1
    <3>2. DeviceInv'
      BY <1>1, <2>1, <3>1, QueueKeeps DEF Whats
    <3>3. /\ op' = [op EXCEPT ![u] = Op(what, k)]
          /\ phase' = [phase EXCEPT ![u] = IF dev = <<>> THEN "post" ELSE "lock"]
      BY <3>1 DEF Queue
    <3> QED BY <3>2, <3>3 DEF DeviceInv, DeviceTypes
  <2>2. CASE Clears(u) /\ ~ Ready(u) /\ UNCHANGED dev
    BY <1>1, <2>2, ClearKeeps
  <2> QED BY <2>1, <2>2
<1>3. \A t \in Calls : op'[t] = op[t] /\ phase'[t] = phase[t]
  BY <1>1, <1>2 DEF Users
<1>4. DOMAIN snap' = Calls
  BY DEF CallInv, CallTypes, callVars
<1>5. CallInv' /\ Quiet
  BY <1>3, <1>4, OthersKeepCalls DEF callVars, DeviceInv, Busy
<1> QED BY <1>2, <1>5

\* Every step but a resumption keeps the device and the calls.
LEMMA StepKeeps ==
  ASSUME AInv, Step
  PROVE  CallInv' /\ DeviceInv' /\ Quiet /\ WarmHolds'
<1> USE DEF AInv
<1>1. DOMAIN held = Keys /\ DOMAIN snap = Calls /\ Calls \subseteq Users /\ {Refresh, Warm} \subseteq Users
  BY DEF CallInv, CallTypes, Users
<1>2. ASSUME NEW u \in Users, Device(u)
      PROVE  CallInv' /\ DeviceInv' /\ Quiet /\ WarmHolds'
  <2>1. /\ Moves(u) /\ DOMAIN held' = Keys /\ DOMAIN snap' = Calls
        /\ UNCHANGED <<at, call, ans, snap, flight, inflight, awaiting>>
    BY <1>1, <1>2, DeviceMoves
  <2>2. /\ DeviceInv' /\ Busy(u)
        /\ \A v \in Users : v # u => op'[v] = op[v] /\ phase'[v] = phase[v]
        /\ op'[u].key = op[u].key /\ op'[u].what # "none"
        /\ op'[u].what = "solve" <=> op[u].what = "solve"
        /\ phase'[u] \in {"lock", "post", "backoff", "ended"} /\ op[u].what # "none"
    BY <2>1, MovesKeep DEF Moves, DeviceInv, DeviceHolds, Busy, Ready
  <2>3. ASSUME NEW t \in Calls
        PROVE  /\ op'[t].what = "solve" <=> op[t].what = "solve"
               /\ op'[t].what = "none" <=> op[t].what = "none"
               /\ op[t].what = "solve" => op'[t].key = op[t].key /\ (Busy(t)' => Busy(t))
               /\ phase'[t] = "landed" <=> phase[t] = "landed"
    BY <1>1, <2>2 DEF Busy
  <2>4. CallInv' /\ Quiet
    BY <2>1, <2>3, OthersKeepCalls DEF DeviceInv
  <2>5. WarmHolds'
    <3>1. UNCHANGED todo
      BY <1>2 DEF Device, Acquire, LockTimeout, SolvePosted, EvalPosted, PrimePosted, Return
    <3>2. op'[Warm].what # "none" => op[Warm].what # "none"
      BY <1>1, <2>2
    <3> QED BY <3>1, <3>2 DEF WarmHolds
  <2> QED BY <2>2, <2>4, <2>5
<1>3. ASSUME NEW c \in Calls, Get(c)
      PROVE  CallInv' /\ DeviceInv' /\ Quiet
  <2>1. at[c] = "new" /\ DOMAIN held' = Keys /\ UNCHANGED <<call, snap, result>>
    BY <1>1, <1>3 DEF Get, clearVars
  <2>2. CASE held[call[c].key] # None
    BY <1>3, <2>1, <2>2, EndsInOwnName DEF Get
  <2>3. CASE ~ (held[call[c].key] # None)
    BY <1>1, <1>3, <2>1, <2>3, CoalesceKeepsCalls DEF Get
  <2> QED BY <2>2, <2>3
<1>4. ASSUME NEW c \in Calls, ForceSolve(c)
      PROVE  CallInv' /\ DeviceInv' /\ Quiet
  <2> DEFINE k == call[c].key
  <2>1. at[c] = "new" /\ UNCHANGED <<call, result>>
    BY <1>4 DEF ForceSolve
  <2>2. CASE k \in window /\ Valid(k)
    BY <1>1, <1>4, <2>1, <2>2, EndsInOwnName DEF ForceSolve
  <2>3. CASE ~ (k \in window /\ Valid(k))
    BY <1>1, <1>4, <2>1, <2>3, CoalesceKeepsCalls DEF ForceSolve
  <2> QED BY <2>2, <2>3
<1>5. ASSUME NEW c \in Calls, ForceHolder(c)
      PROVE  CallInv' /\ DeviceInv' /\ Quiet
  BY <1>1, <1>5, QueuedInOwnName DEF ForceHolder
<1>6. ASSUME NEW c \in Calls, HolderPrimed(c)
      PROVE  CallInv' /\ DeviceInv' /\ Quiet
  BY <1>1, <1>6, EndsInOwnName DEF HolderPrimed, clearVars, Ready
<1>7. ASSUME NEW c \in Calls, Enter(c)
      PROVE  CallInv' /\ DeviceInv' /\ Quiet
  BY <1>1, <1>7, QueuedInOwnName DEF Enter, clearVars
<1>8. ASSUME NEW c \in Calls, Exit(c)
      PROVE  CallInv' /\ DeviceInv' /\ Quiet
  BY <1>1, <1>8, EndsInOwnName DEF Exit, clearVars, Ready
<1>9. ASSUME NEW c \in Calls, Cancel(c)
      PROVE  CallInv' /\ DeviceInv' /\ Quiet
  <2>1. /\ DOMAIN held' = Keys /\ Done(c, Cancelled)
        /\ UNCHANGED <<call, snap, flight, inflight>>
    BY <1>1, <1>9 DEF Cancel, clearVars
  <2>2. CASE at[c] = "wait"
    <3> DEFINE t == flight[c]
               q == RemoveFirst(awaiting[t], c)
    <3>1. awaiting' = [awaiting EXCEPT ![t] = q] /\ UNCHANGED <<op, phase, result, dev>>
      BY <1>9, <2>2 DEF Cancel, devVars
    <3>2. awaiting[t] \in Seq(Calls) /\ IsInjective(awaiting[t])
      BY <2>2, WaiterIsQueued
    <3>3. q \in Seq(Calls) /\ IsInjective(q) /\ ToSet(q) = ToSet(awaiting[t]) \ {c}
      BY <3>2, LeavesQueue
    <3>4. CallInv' /\ DeviceInv'
      <4> HIDE DEF q
      <4> QED BY <2>1, <2>2, <3>1, <3>3, LeavingKeepsCalls
    <3>5. Quiet
      <4>1. at'[c] = "done" /\ ans'[c] = Cancelled /\ \A d \in Calls : d # c => at'[d] = at[d] /\ ans'[d] = ans[d]
        BY <2>1 DEF Done, CallInv, CallTypes
      <4> QED BY <2>1, <4>1 DEF Quiet, Resumed
    <3> QED BY <3>4, <3>5
  <2>3. CASE at[c] # "wait"
    BY <1>9, <2>1, <2>3, EndsInOwnName DEF Cancel, Leaves
  <2> QED BY <2>2, <2>3
<1>10. ASSUME NEW c \in Calls, Calling(c) \/ Landed(c) \/ Cancel(c)
       PROVE  CallInv' /\ DeviceInv' /\ Quiet /\ WarmHolds'
  <2>1. CallInv' /\ DeviceInv' /\ Quiet
    BY <1>3, <1>4, <1>5, <1>6, <1>7, <1>8, <1>9, <1>10, LandedKeepsCalls DEF Calling
  <2>2. UNCHANGED todo /\ (op' = op \/ \E o : op' = [op EXCEPT ![c] = o])
    BY <1>10 DEF Calling, Get, ForceSolve, ForceHolder, HolderPrimed, Enter, Exit, Cancel, Landed, Lands,
                 Forgets, Clears, Leaves, Coalesce, Queue, Done, devVars
  <2>3. op'[Warm] = op[Warm]
    BY <1>1, <2>2, NoNone DEF DeviceInv, DeviceTypes
  <2> QED BY <2>1, <2>2, <2>3 DEF WarmHolds
<1>11. ASSUME NEW k \in Plain, RefreshTick(k)
       PROVE  CallInv' /\ DeviceInv' /\ Quiet /\ WarmHolds'
  <2>1. CallInv' /\ DeviceInv' /\ Quiet /\ \A v \in Users : v # Refresh => op'[v] = op[v]
    BY <1>1, <1>11, BackgroundKeepsCalls DEF RefreshTick, clearVars, Keys
  <2> QED BY <1>1, <1>11, <2>1, AndroidAssumption DEF RefreshTick, WarmHolds
<1>12. CASE Refreshed
  <2>1. DOMAIN held' = Keys
    BY <1>1, <1>12 DEF Refreshed
  <2>2. CallInv' /\ DeviceInv' /\ Quiet /\ \A v \in Users : v # Refresh => op'[v] = op[v]
    BY <1>12, <2>1, BackgroundKeepsCalls DEF Refreshed, Ready
  <2> QED BY <1>1, <1>12, <2>2, AndroidAssumption DEF Refreshed, WarmHolds
<1>13. CASE WarmNext
  <2>1. todo # <<>> /\ Head(todo) \in Keys /\ op[Warm].what = "none" /\ DOMAIN held' = Keys
        /\ UNCHANGED <<inflight, awaiting, result>> /\ UNCHANGED callVars
    BY <1>1, <1>13 DEF WarmNext, WarmHolds, clearVars
  <2>2. CASE todo' = Tail(todo) /\ UNCHANGED <<op, phase, dev>>
    <3>1. DeviceInv' /\ UNCHANGED <<op, phase, result, dev>>
      BY <2>1, <2>2, DeviceSame
    <3>2. CallInv' /\ Quiet
      BY <1>1, <2>1, <3>1, OthersKeepCalls DEF callVars, DeviceInv, Busy
    <3>3. WarmHolds'
      BY <2>1, <2>2 DEF WarmHolds
    <3> QED BY <3>1, <3>2, <3>3
  <2>3. CASE (\E what \in {"solve", "prime"} : Queue(Warm, Op(what, Head(todo)))) /\ UNCHANGED todo
    <3>1. CallInv' /\ DeviceInv' /\ Quiet
      BY <2>1, <2>3, BackgroundKeepsCalls
    <3> QED BY <2>1, <2>3, <3>1 DEF WarmHolds
  <2> QED BY <1>13, <2>2, <2>3 DEF WarmNext
<1>14. CASE Warmed
  <2>1. DOMAIN held' = Keys
    BY <1>1, <1>14 DEF Warmed
  <2>2. CallInv' /\ DeviceInv' /\ Quiet
    BY <1>14, <2>1, BackgroundKeepsCalls DEF Warmed, Ready
  <2>3. todo # <<>> /\ op'[Warm].what = "none"
    <3>1. op[Warm].what # "none"
      BY <1>1, <1>14 DEF Warmed, DeviceInv, DeviceHolds
    <3>2. op' = [op EXCEPT ![Warm] = Idle]
      BY <1>14 DEF Warmed, Clears
    <3> QED BY <1>1, <3>1, <3>2 DEF WarmHolds, Idle, DeviceInv, DeviceTypes
  <2> QED BY <1>14, <2>2, <2>3 DEF Warmed, WarmHolds
<1>15. CASE Expire \/ Lapse
  <2>1. UNCHANGED <<callVars, held, devVars, todo, inflight, awaiting>>
    BY <1>15 DEF Expire, Lapse
  <2>2. DeviceInv'
    BY <2>1, DeviceSame DEF devVars
  <2>3. CallInv' /\ Quiet
    BY <1>1, <2>1, OthersKeepCalls DEF callVars, devVars, DeviceInv, Busy
  <2> QED BY <2>1, <2>2, <2>3 DEF WarmHolds, devVars
<1> QED BY <1>2, <1>10, <1>11, <1>12, <1>13, <1>14, <1>15 DEF Step, Background

\* The sources in some order: the warm-up lists each once.
LEMMA SetToSeqIs ==
  ASSUME NEW S, IsFiniteSet(S)
  PROVE  SetToSeq(S) \in Seq(S)
<1>1. PICK n \in Nat : ExistsBijection(1..n, S)
  BY FS_NatBijection
<1>2. Cardinality(S) = n
  BY <1>1, FS_CountingElements
<1>3. PICK f \in Bijection(1..n, S) : TRUE
  BY <1>1 DEF ExistsBijection
<1>4. f \in [1..Cardinality(S) -> S] /\ IsInjective(f)
  BY <1>2, <1>3 DEF Bijection, Injection, Surjection, IsInjective
<1>5. SetToSeq(S) \in [1..Cardinality(S) -> S]
  BY <1>4 DEF SetToSeq
<1> QED BY <1>2, <1>5

LEMMA InitHolds ==
  ASSUME Init PROVE AInv
<1>1. DeviceInv
  <2>1. DeviceTypes /\ dev = <<>> /\ \A u \in Users : op[u].what = "none" /\ phase[u] = "none"
    BY DEF Init, DeviceTypes, Idle, Ops, Whats, Phases
  <2>2. DOMAIN dev = {}
    BY <2>1
  <2>3. IsInjective(dev) /\ ToSet(dev) = {}
    BY <2>2 DEF IsInjective, ToSet
  <2> QED BY <2>1, <2>3 DEF DeviceInv, DeviceHolds, Ready
<1>2. CallTypes
  <2>1. [kind : {"get", "force"}, key : Plain] \cup [kind : HolderKinds, key : Holders]
          \subseteq [kind : {"get", "force", "session"}, key : Keys]
    BY AndroidAssumption DEF Keys
  <2>2. call \in [Calls -> [kind : {"get", "force", "session"}, key : Keys]]
    BY <2>1 DEF Init
  <2> QED BY <2>2 DEF Init, CallTypes
<1>3. SolvesHold /\ CallsHold
  BY NoNone DEF Init, SolvesHold, CallsHold, Resumed, Idle, Users
<1>4. WaitersHold
  <2> SUFFICES ASSUME NEW t \in Calls
               PROVE  IsInjective(awaiting[t]) /\ ToSet(awaiting[t]) = {c \in Calls : at[c] = "wait" /\ flight[c] = t}
    BY DEF WaitersHold
  <2>1. awaiting[t] = <<>> /\ \A c \in Calls : at[c] # "wait"
    BY DEF Init
  <2>2. DOMAIN awaiting[t] = {}
    BY <2>1
  <2> QED BY <2>1, <2>2 DEF IsInjective, ToSet
<1>5. BlockHolds
  BY DEF Init, BlockHolds, Resumed
<1>6. WarmHolds
  <2>1. SetToSeq(Plain) \in Seq(Plain) /\ SetToSeq(Holders) \in Seq(Holders)
    BY SetToSeqIs, AndroidAssumption
  <2>2. SetToSeq(Plain) \in Seq(Keys) /\ SetToSeq(Holders) \in Seq(Keys)
    BY <2>1 DEF Keys
  <2>3. todo \in Seq(Keys)
    BY <2>2 DEF Init
  <2> QED BY <2>3 DEF Init, WarmHolds, Idle, Users
<1> QED BY <1>1, <1>2, <1>3, <1>4, <1>5, <1>6 DEF AInv, CallInv

LEMMA NextKeeps ==
  ASSUME AInv, [Next]_vars PROVE AInv'
<1>1. ASSUME NEW c \in Calls, Resume(c) PROVE AInv'
  <2>1. CallInv' /\ DeviceInv' /\ BlockHolds'
    BY <1>1, ResumeKeeps DEF AInv
  <2>2. UNCHANGED todo /\ op'[Warm] = op[Warm]
    <3>1. flight[c] \in Calls
      BY <1>1, WaiterIsQueued DEF AInv, Resume
    <3>2. op' = op \/ op' = [op EXCEPT ![flight[c]] = Idle]
      BY <1>1 DEF Resume, Forgets, Clears
    <3>3. flight[c] # Warm /\ op \in [Users -> Ops]
      BY <3>1, NoNone DEF AInv, DeviceInv, DeviceTypes
    <3>4. op'[Warm] = op[Warm]
      BY <3>2, <3>3 DEF Users
    <3> QED BY <1>1, <3>4 DEF Resume
  <2> QED BY <2>1, <2>2 DEF AInv, WarmHolds
<1>2. CASE Turns = {} /\ Step
  <2>1. CallInv' /\ DeviceInv' /\ Quiet /\ WarmHolds'
    BY <1>2, StepKeeps
  <2>2. Turns' = {}
    BY <1>2, <2>1, TurnsStay DEF AInv
  <2> QED BY <2>1, <2>2 DEF AInv, BlockHolds
<1>3. CASE UNCHANGED vars
  <2>1. UNCHANGED <<at, call, ans, snap, flight, held, expired, op, phase, result, dev, todo, inflight, awaiting>>
    BY <1>3 DEF vars, callVars, clearVars, devVars
  <2>2. DeviceInv'
    BY <2>1, DeviceSame DEF AInv
  <2>3. CallInv'
    BY <2>1, OthersKeepCalls DEF AInv, DeviceInv, CallInv, CallTypes, Busy
  <2>4. BlockHolds' /\ WarmHolds'
    BY <2>1 DEF AInv, BlockHolds, WarmHolds, Resumed, Turns, Valid
  <2> QED BY <2>2, <2>3, <2>4 DEF AInv
<1> QED BY <1>1, <1>2, <1>3 DEF Next

----------------------------------------------------------------------------
\* The invariant that the other results rest on: the lock, the solves in
\* flight and the queues of the calls that await them agree with one another.
THEOREM ClientInductive == Spec => []AInv
<1>1. Init => AInv
  BY InitHolds
<1>2. AInv /\ [Next]_vars => AInv'
  BY NextKeeps
<1> QED BY <1>1, <1>2, PTL DEF Spec

\* Foreground solves of one source are single flight (_coalesce): with
\* any number of calls, no two of them have a solve of it at the device.
THEOREM SolvesAreSingleFlight == Spec => []OneForegroundSolve
<1>1. AInv => OneForegroundSolve
  BY DEF AInv, CallInv, SolvesHold, OneForegroundSolve, Running, Busy
<1> QED BY <1>1, ClientInductive, PTL

\* Whoever waits for the device waits behind a user that is there to release
\* it, and whoever waits for a solve is in its queue: no cancellation, lock
\* timeout or lost race leaves a call behind (_device_op, _coalesce).
THEOREM WaitsAreAnswered == Spec => []NoVainWait
<1>1. AInv => DeviceIsFreed
  <2> SUFFICES ASSUME AInv, NEW i \in DOMAIN dev PROVE phase[dev[i]] \in {"lock", "post"}
    BY DEF DeviceIsFreed
  <2>1. dev[i] \in ToSet(dev)
    BY DEF ToSet
  <2> QED BY <2>1 DEF AInv, DeviceInv, DeviceHolds, Ready
<1>2. AInv => WaitsForASolve
  <2> SUFFICES ASSUME AInv, NEW c \in Calls, at[c] = "wait"
               PROVE  /\ flight[c] # None
                      /\ \E i \in DOMAIN awaiting[flight[c]] : awaiting[flight[c]][i] = c
                      /\ op[flight[c]].what = "solve" /\ phase[flight[c]] # "none"
    BY DEF WaitsForASolve
  <2>1. /\ flight[c] \in Calls /\ op[flight[c]].what = "solve" /\ c \in ToSet(awaiting[flight[c]])
    BY WaiterIsQueued DEF AInv
  <2> QED BY <2>1, NoNone DEF ToSet, AInv, DeviceInv, DeviceHolds, Users
<1> QED BY <1>1, <1>2, ClientInductive, PTL DEF NoVainWait

\* A refresh or a warm solve that waited for the lock does not use the device
\* while a page sequence holds its lease (the re-check in _device_op).
THEOREM LeasesKeepTheDevice == Spec => LeaseKeepsDevice
<1> DEFINE Kept == \A u \in {Refresh, Warm} :
                     op[u].what = "solve" /\ phase[u] = "lock" /\ phase'[u] = "post" => Leased = {}
<1>1. ASSUME AInv, Next, NEW u \in {Refresh, Warm}, op[u].what = "solve", phase[u] = "lock", phase'[u] = "post"
      PROVE  Leased = {}
  <2>1. u \in Users /\ u \notin Calls /\ u \in Users /\ phase \in [Users -> Phases]
    BY <1>1, NoNone DEF Users, AInv, DeviceInv, DeviceTypes
  <2>2. ASSUME NEW v \in Users, Device(v) PROVE Leased = {}
    <3>1. Moves(v)
      BY <1>1, <2>2, DeviceMoves DEF AInv
    <3>2. v = u
      BY <1>1, <2>1, <2>2, <3>1, MovesKeep DEF AInv
    <3>3. Deferrable(u)
      BY <1>1 DEF Deferrable
    <3>4. phase' = [phase EXCEPT ![u] = "post"] /\ (Deferrable(u) => Leased = {})
      BY <1>1, <2>1, <3>1, <3>2 DEF Moves
    <3> QED BY <3>3, <3>4
  <2>3. ASSUME phase' = phase \/ \E v, p : phase' = [phase EXCEPT ![v] = p] /\ v # u PROVE FALSE
    BY <1>1, <2>1, <2>3
  <2>4. ASSUME NEW p, phase' = [phase EXCEPT ![u] = p], p # "post" PROVE FALSE
    BY <1>1, <2>1, <2>4
  <2>5. ASSUME NEW c \in Calls, Resume(c) PROVE FALSE
    <3>1. flight[c] \in Calls
      BY <1>1, <2>5, WaiterIsQueued DEF AInv, Resume
    <3>2. phase' = phase \/ phase' = [phase EXCEPT ![flight[c]] = "none"]
      BY <2>5 DEF Resume, Forgets, Clears
    <3> QED BY <2>1, <2>3, <3>1, <3>2
  <2>6. ASSUME NEW c \in Calls, Calling(c) \/ Landed(c) \/ Cancel(c) PROVE FALSE
    <3>1. phase' = phase \/ \E p : phase' = [phase EXCEPT ![c] = p]
      BY <2>6 DEF Calling, Get, ForceSolve, ForceHolder, HolderPrimed, Enter, Exit, Cancel, Landed, Lands,
                  Forgets, Clears, Leaves, Coalesce, Queue, Done, devVars
    <3> QED BY <2>1, <2>3, <3>1
  <2>7. ASSUME NEW k \in Plain, RefreshTick(k) PROVE FALSE
    <3>1. u = Warm
      BY <1>1, <2>7 DEF RefreshTick
    <3> QED BY <2>3, <2>7, <3>1, AndroidAssumption DEF RefreshTick, Queue
  <2>8. ASSUME Refreshed PROVE FALSE
    <3>1. phase' = [phase EXCEPT ![Refresh] = "none"]
      BY <2>8 DEF Refreshed, Clears
    <3> QED BY <1>1, <2>3, <2>4, <3>1
  <2>9. ASSUME WarmNext PROVE FALSE
    <3>1. u = Refresh
      BY <1>1, <2>9 DEF WarmNext
    <3> QED BY <2>3, <2>9, <3>1, AndroidAssumption DEF WarmNext, Queue
  <2>10. ASSUME Warmed PROVE FALSE
    <3>1. phase' = [phase EXCEPT ![Warm] = "none"]
      BY <2>10 DEF Warmed, Clears
    <3> QED BY <1>1, <2>3, <2>4, <3>1
  <2>11. ASSUME Expire \/ Lapse PROVE FALSE
    BY <2>3, <2>11 DEF Expire, Lapse, devVars
  <2> QED BY <1>1, <2>2, <2>5, <2>6, <2>7, <2>8, <2>9, <2>10, <2>11 DEF Next, Step, Background
<1>2. AInv /\ [Next]_vars => [Kept]_vars
  BY <1>1
<1> QED BY <1>2, ClientInductive, PTL DEF Spec, LeaseKeepsDevice

\* "A failed RE-solve must not surface as a user-facing search failure while
\* a still-valid clearance is cached" (get_clearance), whichever of the calls
\* that shared the solve had discarded it, and what is served is valid.
THEOREM BlocksAreServedThrough == Spec => ServedThroughBlock
<1> DEFINE Served ==
      \A c \in Calls : at[c] = "wait" /\ result[flight[c]] = Blocked =>
        /\ ans'[c] = Blocked =>
             \A d \in Calls : flight[d] = flight[c] /\ (d = c \/ Resumed(d))
                               => snap[d] = None \/ snap[d] \in expired
        /\ ans'[c] = Value => held'[call[c].key] \notin expired
<1>1. ASSUME AInv, Next, NEW c \in Calls, at[c] = "wait", result[flight[c]] = Blocked
      PROVE  /\ ans'[c] = Blocked =>
                  \A d \in Calls : flight[d] = flight[c] /\ (d = c \/ Resumed(d))
                                    => snap[d] = None \/ snap[d] \in expired
             /\ ans'[c] = Value => held'[call[c].key] \notin expired
  <2> DEFINE t == flight[c]
             k == call[c].key
  <2>1. /\ ans[c] = None /\ None \notin {Blocked, Value} /\ Cancelled \notin {Blocked, Value}
        /\ Blocked # Value /\ Blocked \notin 1..MaxMints /\ DOMAIN ans = Calls /\ k \in Keys /\ DOMAIN held = Keys
    BY <1>1, AndroidAssumption DEF AInv, CallInv, CallTypes, CallsHold
  <2>2. CASE ans'[c] \in {None, Cancelled}
    BY <2>1, <2>2
  <2>3. CASE Resume(c)
    <3>1. \/ Restorable(c) /\ Done(c, Value) /\ held' = [held EXCEPT ![k] = snap[c]]
          \/ ~ Restorable(c) /\ Restored(k) /\ Done(c, Value) /\ UNCHANGED held
          \/ ~ Restorable(c) /\ ~ Restored(k) /\ Done(c, Blocked)
      BY <1>1, <2>1, <2>3 DEF Resume
    <3>2. CASE Restorable(c) /\ Done(c, Value) /\ held' = [held EXCEPT ![k] = snap[c]]
      <4>1. ans'[c] = Value /\ held'[k] = snap[c]
        BY <2>1, <3>2 DEF Done
      <4> QED BY <2>1, <3>2, <4>1 DEF Restorable
    <3>3. CASE ~ Restorable(c) /\ Restored(k) /\ Done(c, Value) /\ UNCHANGED held
      <4>1. ans'[c] = Value
        BY <2>1, <3>3 DEF Done
      <4> QED BY <2>1, <3>3, <4>1 DEF Restored, Valid
    <3>4. CASE ~ Restorable(c) /\ ~ Restored(k) /\ Done(c, Blocked)
      <4>1. ans'[c] = Blocked
        BY <2>1, <3>4 DEF Done
      <4>2. ASSUME NEW d \in Calls, flight[d] = t, d = c \/ Resumed(d)
            PROVE  snap[d] = None \/ snap[d] \in expired
        <5>1. CASE d = c
          BY <3>4, <5>1 DEF Restorable
        <5>2. CASE Resumed(d)
          <6>1. flight[d] \in Turns
            BY <1>1, <4>2, <5>2 DEF Turns
          <6>2. call[d].key = k
            BY <1>1, <4>2, <5>2 DEF AInv, CallInv, CallsHold, Resumed
          <6>3. snap[d] = None \/ snap[d] \in expired \/ Valid(k)
            BY <1>1, <4>2, <5>2, <6>1, <6>2 DEF AInv, BlockHolds
          <6> QED BY <3>4, <6>3 DEF Restored
        <5> QED BY <4>2, <5>1, <5>2
      <4> QED BY <2>1, <4>1, <4>2
    <3> QED BY <3>1, <3>2, <3>3, <3>4
  <2>4. ASSUME NEW d \in Calls, d # c, UNCHANGED ans \/ \E r : ans' = [ans EXCEPT ![d] = r] PROVE ans'[c] = None
    BY <2>1, <2>4
  <2>5. ASSUME UNCHANGED ans PROVE ans'[c] = None
    BY <2>1, <2>5
  <2>6. ASSUME NEW d \in Calls, d # c, Resume(d) PROVE ans'[c] = None
    BY <2>4, <2>6 DEF Resume, Done
  <2>7. ASSUME NEW d \in Calls, Calling(d) \/ Landed(d) \/ Cancel(d) PROVE ans'[c] \in {None, Cancelled}
    <3>1. CASE d # c
      <4>1. UNCHANGED ans \/ \E r : ans' = [ans EXCEPT ![d] = r]
        BY <2>7 DEF Calling, Get, ForceSolve, ForceHolder, HolderPrimed, Enter, Exit, Cancel, Landed, Done
      <4> QED BY <2>4, <3>1, <4>1
    <3>2. CASE d = c
      <4>1. UNCHANGED ans \/ Done(c, Cancelled)
        BY <1>1, <2>7, <3>2 DEF Calling, Get, ForceSolve, ForceHolder, HolderPrimed, Enter, Exit, Cancel, Landed
      <4> QED BY <2>1, <4>1 DEF Done
    <3> QED BY <3>1, <3>2
  <2>8. ASSUME NEW u \in Users, Device(u) PROVE ans'[c] = None
    BY <1>1, <2>5, <2>8, DeviceMoves DEF AInv
  <2>9. ASSUME \/ \E x \in Plain : RefreshTick(x)
               \/ Background \/ Expire \/ Lapse
        PROVE  ans'[c] = None
    BY <2>5, <2>9 DEF RefreshTick, Background, Refreshed, WarmNext, Warmed, Expire, Lapse, callVars
  <2> QED BY <1>1, <2>2, <2>3, <2>6, <2>7, <2>8, <2>9 DEF Next, Step
<1>2. AInv /\ [Next]_vars => [Served]_vars
  BY <1>1
<1> QED BY <1>2, ClientInductive, PTL DEF Spec, ServedThroughBlock
=============================================================================
