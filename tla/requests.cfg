SPECIFICATION FairSpec
CONSTANTS
  r1 = r1
  r2 = r2
  g1 = g1
  g2 = g2
  p1 = p1
  p2 = p2
  p3 = p3
  Requests = {r1, r2}
  Pages = {g1, g2}
  Proxies = {p1, p2, p3}
  NoProxy = NoProxy
  MaxAttempts = 3
  RetryAttempts = 2
  MaxInFlight = 2
INVARIANTS NoProxyTwice
PROPERTIES RequestsEnd
