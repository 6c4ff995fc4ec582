SPECIFICATION Spec
CONSTANTS
  a = a
  x = x
  f = f
  k1 = k1
  Solvers = {a}
  Forcers = {x}
  Fetchers = {f}
  Watchdog = Watchdog
  Closer = Closer
  Keys = {k1}
  KeyOf <- MCKeyOf
  Nobody = Nobody
  SolveCap = 1
  FetchCap = 2
  Recycles = FALSE
  MaxLaunches = 2
  MaxDeaths = 1
INVARIANT NoOrphan
CHECK_DEADLOCK FALSE
