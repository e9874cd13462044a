SPECIFICATION Spec
CONSTANTS
  Threads = {t1, t2}
  Addrs = {a1}
  Pages = {1, 2, 3}
  Segment <- MCSegment
  HugeSegments = {"dalvik"}
  StackPages <- MCStack
  SoPages = {}
  Paths = {p1}
  MappedPaths = {}
  NoThread = NoThread
  MaxMasters = 2
  MaxCalls = 2
  MaxWrites = 2
INVARIANTS
  DumpIsEntry
  DumpComplete
  NoStaleSession
SYMMETRY MCSymmetry
