SPECIFICATION Spec
CONSTANTS
  j1 = j1
  j2 = j2
  h1 = h1
  h2 = h2
  p1 = p1
  c1 = c1
  c2 = c2
  Jobs = {j1, j2}
  Handles = {h1}
  Paths = {p1}
  Clients = {c1}
  HandleOf <- OneHandle
  DestOf <- MCDestOf
  FolderPaths = {}
  KeepHistory = 2
  MaxRestarts = 0
  DeleteModes = {TRUE}
  NoPath = NoPath
  JobObject = JobObject
  Missing = Missing
  Unlinked = Unlinked
INVARIANT DeletedDataIsGone
