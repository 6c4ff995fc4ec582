SPECIFICATION MCSpec
CONSTANTS
  j1 = j1
  j2 = j2
  h1 = h1
  h2 = h2
  p1 = p1
  c1 = c1
  c2 = c2
  Jobs = {j1, j2}
  Handles = {h1, h2}
  Paths = {p1}
  Clients = {c1}
  HandleOf <- TwoHandles
  DestOf <- MCDestOf
  FolderPaths = {}
  KeepHistory = 1
  MaxRestarts = 2
  DeleteModes = {TRUE}
  NoPath = NoPath
  JobObject = JobObject
  Missing = Missing
  Unlinked = Unlinked
  t1 = t1
  t2 = t2
  t3 = t3
  t4 = t4
  t5 = t5
  slow = slow
  wide = wide
  Tasks = {t1, t2, t3, t4, t5}
  Sources = {slow, wide}
  SourceOf <- MCSourceOf
  MaxConcurrentChapters = 2
  MaxConcurrentPerSource = 1
  Override <- MCOverride
  NoOverride = NoOverride
  Global = Global
  MaxPages = 3
  PageSize <- MCPageSize
  Concurrency = 2
  Attempts = 2
  ReresolveOn403 = TRUE
INVARIANTS CompletedHasOutput AdmissionIsSound PassIsWhole
PROPERTIES JobsSettle LiveRowOnlyDeleted EveryJobRuns FetchEnds
CHECK_DEADLOCK FALSE
