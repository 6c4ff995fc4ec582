------------------------------- MODULE ProxyPool -------------------------------
(***************************************************************************)
(* The pool of residential proxies (framework/proxy_pool.py) and the one   *)
(* proxy that it has pinned for a source (framework/source_pin.py).        *)
(*                                                                         *)
(* A cooldown is the membership of its proxy in cooled: how long it lasts  *)
(* is up to Thaw.  acquire picks at random: any available proxy.           *)
(***************************************************************************)
EXTENDS FiniteSets

CONSTANTS
  Proxies,
  NoProxy    \* the direct egress, and the None of acquire and current

ASSUME ProxyAssumption == NoProxy \notin Proxies /\ IsFiniteSet(Proxies)

VARIABLES
  cooled,    \* _cooldowns: the proxies on a live cooldown
  pin        \* _pins[source_key]

poolVars == <<cooled, pin>>

PoolInit == cooled = {} /\ pin = NoProxy

PoolTypeOK == cooled \subseteq Proxies /\ pin \in Proxies \cup {NoProxy}

\* What acquire(exclude) may return: never a cooled proxy, not even as a last
\* resort.
Acquired(exclude, cooling) ==
  LET available == Proxies \ (exclude \cup cooling)
  IN  IF available = {} THEN {NoProxy} ELSE available

MarkFailed(p) == cooled' = cooled \cup {p}

\* get_or_acquire returns proxy p: the pin, whatever its cooldown, or a new one.
GetOrAcquire(p) ==
  /\ IF pin # NoProxy THEN p = pin ELSE p \in Acquired({}, cooled)
  /\ pin' = p
  /\ UNCHANGED cooled

\* rotate(exclude) returns proxy p: the pin of that moment is cooled down, whoever
\* has put it there.
BugRotate(exclude, p) ==  \* the old pin is dropped but not cooled
  /\ UNCHANGED cooled
  /\ p \in Acquired(exclude \cup {pin}, cooled)
  /\ pin' = p
Rotate(exclude, p) ==
  /\ IF pin = NoProxy THEN UNCHANGED cooled ELSE MarkFailed(pin)
  /\ p \in Acquired(exclude, cooled')
  /\ pin' = p

\* The cooldown of p expires.
Thaw(p) ==
  /\ p \in cooled
  /\ cooled' = cooled \ {p}
  /\ UNCHANGED pin
=============================================================================
