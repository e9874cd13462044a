SPECIFICATION FairSpec
CONSTANTS
  c1 = c1
  c2 = c2
  Clones = {c1, c2}
  Tids <- MCTids
  TidOf <- MCTidOf
  MaxIndex = 2
  TimedOut = TRUE
  MaxLines = 2
  MaxRounds = 2
INVARIANTS
  FramesIntact
  LogsArePrefixes
  EndMeansComplete
PROPERTIES
  ReceiverEnds
  FlushedLinesArrive
