SPECIFICATION Spec
CONSTANTS
  c1 = c1
  c2 = c2
  k1 = k1
  h1 = h1
  Calls = {c1, c2}
  Plain = {k1}
  Holders = {h1}
  Refresh = Refresh
  Warm = Warm
  None = None
  Value = Value
  Nothing = Nothing
  Failed = Failed
  Blocked = Blocked
  Deferred = Deferred
  Cancelled = Cancelled
  MaxMints = 2
  Attempts = 2
  Recoveries = 1
  HolderKinds = {"session", "force"}
INVARIANTS OneForegroundSolve NoVainWait
PROPERTIES LeaseKeepsDevice ServedThroughBlock
SYMMETRY Symmetric
CHECK_DEADLOCK FALSE
