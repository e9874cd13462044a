SPECIFICATION Spec
CONSTANTS
  Addrs <- MCAddrs
  Cells = {1, 2, 3, 4, 5}
  Ways = 2
  NumSets = 2
  Programs <- MCPrograms
  Target = 1
  Plt <- MCPlt
  Got <- MCGot
  Unresolved = {17}
  Wrappers = {7, 9}
  JniTable = {30}
  Kind <- MCKind
  Fds = {0, 1}
  Shared = FALSE
  CleanInterval = 5
  LongLines = FALSE
  MaxRuns = 2
  MaxOthers = 1
INVARIANTS
  BlCallsShown
  AnnotationsOfOwnLine
  CacheKeepsPending
