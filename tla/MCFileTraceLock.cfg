SPECIFICATION FairSpec
CONSTANTS
  BufLines = 2
  CallSites = {s1, s2}
  NoSite = NoSite
  Recursive = FALSE
  Where <- MCTracer
  Recovers = TRUE
  Modes = {TRUE}
  MaxInsns = 4
  MaxSignals = 1
PROPERTY
  CrashProceeds
CHECK_DEADLOCK FALSE
