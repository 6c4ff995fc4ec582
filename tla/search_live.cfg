SPECIFICATION MCSpec
CONSTANTS
  r1 = r1
  r2 = r2
  s1 = s1
  s2 = s2
  Requests = {r1, r2}
  Sources = {s1}
  Callers <- MCCallers
  Keys = {s1}
  KeyOf <- MCKeyOf
  Nobody = Nobody
  BaseSeconds = 2
  MaxSeconds = 5
  StreakCap = 4
  fast = fast
  demand = demand
  Threshold = 2
  MaxOutages = 2
  solver = solver
  forcer = forcer
  fetcher = fetcher
  Watchdog = Watchdog
  Closer = Closer
INVARIANTS PendingHasLeader OneFetchUnlessDropped
PROPERTIES CooldownIsFair SourceRecovers SearchEnds Recovers CallsEnd
CHECK_DEADLOCK FALSE
