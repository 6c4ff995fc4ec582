SPECIFICATION MCSpec
CONSTANTS
  j1 = j1
  j2 = j2
  l1 = l1
  l2 = l2
  u1 = u1
  x = x
  k1 = k1
  Watchdog = Watchdog
  Closer = Closer
  Jobs = {j1, j2}
  Lanes = {l1, l2}
  DefaultLane = l1
  Upstreams = {u1}
  Direct = Direct
  None = None
  Ops = {"solve", "eval", "recycle"}
  MaxBoots = 1
  MaxOps = 3
  Batches = 2
INVARIANTS HopIsSound OneDriverPerDevice NothingIsStuck
PROPERTIES DriveIsSound SolvesAreSingleFlight
SYMMETRY Symmetric
CHECK_DEADLOCK FALSE
