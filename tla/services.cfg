SPECIFICATION MCSpec
CONSTANTS
  a = a
  b = b
  c = c
  h1 = h1
  h2 = h2
  Handles = {h1, h2}
  Clients = {a, b}
  TTL = 2
  MaxSize = 1
  MaxTime = 5
  MaxRestarts = 2
  Calls = {a, b, c}
  MaxMints = 4
  MaxDrops = 2
  Requests = {a, b}
  MaxEvents = 2
  MaxRows = 1
  MaxBoots = 1
  Searchers = {a, b}
  Sites <- MCSites
  Queries <- MCQueries
  Langs = {"en", "ja"}
  FeedPage = 1
  Today = 10
  MaxGrowth = 1
  Jobs = {a, b}
  Chapters <- MCChapters
  NumPages = 3
  Zones = {1, 2}
  HomeZone = 1
  ColdAttempts = 2
  MaxCalls = 4
  MaxReresolves = 1
  MaxFlips = 1
  Sources = {"mangadex", "mangadot", "mangaball", "mangafire", "kagane", "atsumaru", "weebcentral", "projectsuki", "comix"}
  None = None
INVARIANTS AgesOut StillResolvable RetryIsNewer SearchIsSound PagesAreTheChapters
PROPERTIES RefusedIfExpired MetricsSurvive
SYMMETRY Symmetric
CHECK_DEADLOCK FALSE
