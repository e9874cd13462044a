SPECIFICATION ToolsSpec
CONSTANTS
  Which = {"file", "block", "tree"}
  BufLines = 2
  CallSites = {s1, s2}
  NoSite = NoSite
  Recursive = FALSE
  Where <- MCAnywhere
  Recovers = TRUE
  Modes = {FALSE, TRUE}
  MaxInsns = 7
  MaxSignals = 1
  Symbols = {0, 1}
  Sizes = {4, 5, 6, 9, 10}
  Hashes = {0, 1, 2}
  MinMatch = 3
  LastLits = 2
  MFLimit = 5
  RunMask = 3
  ByteMax = 1
  Slack = 4
  Accel = 2
  MaxBlocks = 2
  Funcs = {10, 20, 30}
  Entry = 10
  Leaves = TRUE
  TailCalls = TRUE
  TreeDepth = 2
  MaxDepth = 3
  MaxLines = 6
INVARIANTS
  CrashKeepsTrace
  FirstSiteFlushes
  NoHoles
  RoundTrip
  CallsCounted
  TreeShowsCalls
