SPECIFICATION Spec
CONSTANTS
  r1 = r1
  r2 = r2
  s1 = s1
  s2 = s2
  Requests = {r1, r2}
  Sources = {s1, s2}
  Callers <- MCCallers
  Keys = {s1, s2}
  KeyOf <- MCKeyOf
  Nobody = Nobody
  BaseSeconds = 1
  MaxSeconds = 2
  StreakCap = 3
INVARIANT SourcesAreIsolated
