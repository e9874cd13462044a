SPECIFICATION Spec
CONSTANTS
  A = A
  B = B
  Threads = {t1, t2}
  Libs = {A, B}
  Anon = Anon
  NoMap = NoMap
  Segs <- MCSegs
  SegSize = 1
  Layouts <- MCReloaded
  Symbols <- MCSymbols
  DefaultSize = 1
  Cells = {1, 2}
  ReuseCells = TRUE
  QuietFrees = TRUE
  MaxVersion = 2
  MaxFrees = 1
  MaxLookups = 3
INVARIANTS
  RegionsTrue
SYMMETRY MCSymmetry
