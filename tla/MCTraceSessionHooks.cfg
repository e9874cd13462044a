SPECIFICATION FairSpec
CONSTANTS
  NoAddr = NoAddr
  NoFunc = NoFunc
  AppThreads = {t1, t2}
  SpawnThreads = {c1}
  UserFuncs = {f1}
  StartRoutines = {g1}
  Addrs = {a1, a2}
  AutoTrace = TRUE
  MaxTraces = 3
  HookTraces = 0
INVARIANTS
  SocketOutlivesSessions
PROPERTIES
  CallsReturn
