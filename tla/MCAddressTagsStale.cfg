SPECIFICATION Spec
CONSTANTS
  A = A
  B = B
  Threads = {t1}
  Libs = {A, B}
  Anon = Anon
  NoMap = NoMap
  Segs <- MCSegs
  SegSize = 1
  Layouts <- MCApart
  Symbols <- MCSymbols
  DefaultSize = 1
  Cells = {1, 2, 3, 4}
  ReuseCells = FALSE
  QuietFrees = TRUE
  MaxVersion = 2
  MaxFrees = 1
  MaxLookups = 3
INVARIANTS
  TablesAlive
