SPECIFICATION Spec
CONSTANTS
  NoAddr = NoAddr
  NoFunc = NoFunc
  AppThreads = {t1, t2}
  SpawnThreads = {}
  UserFuncs = {f1, f2}
  StartRoutines = {g1}
  Addrs = {a1, a2, a3}
  AutoTrace = FALSE
  MaxTraces = 3
  HookTraces = 0
INVARIANTS
  RefcountExact
  ClonesOnOpenSocket
  FreedSessionsComplete
PROPERTIES
  ImplementsSharedConnection
SYMMETRY MCSymmetry
