SPECIFICATION Spec
CONSTANTS
  NoAddr = NoAddr
  NoFunc = NoFunc
  AppThreads = {t1, t2}
  SpawnThreads = {}
  UserFuncs = {f1}
  StartRoutines = {g1}
  Addrs = {a1}
  AutoTrace = FALSE
  MaxTraces = 2
  HookTraces = 0
INVARIANTS
  NoStaleClone
SYMMETRY MCSymmetry
