SPECIFICATION FairSpec
CONSTANTS
  BufSize = 2
  Lens <- MCLens
  MaxBytes = 7
  MaxInits = 2
  MaxSpurious = 1
INVARIANTS
  NoOverlap
  SleepersHaveNoWork
  StreamIntact
  DestroyDrains
PROPERTIES
  ImplementsDoubleBuffer
  CallsReturn
  FlushedBytesArrive
