SPECIFICATION Spec
CONSTANTS
  j1 = j1
  j2 = j2
  l1 = l1
  l2 = l2
  u1 = u1
  Jobs = {j1, j2}
  Lanes = {l1, l2}
  DefaultLane = l1
  Upstreams = {u1}
  Direct = Direct
  None = None
  Ops = {"solve", "eval", "recycle"}
  MaxBoots = 0
INVARIANT LanesAreIsolated
SYMMETRY Symmetric
CHECK_DEADLOCK FALSE
