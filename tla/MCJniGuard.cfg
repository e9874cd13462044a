SPECIFICATION Spec
CONSTANTS
  Members <- MCMembers
  Sort <- MCSort
  Params <- MCParams
  MayFail <- MCMayFail
  MaxRefs = 1
  MaxFrames = 2
INVARIANTS
  HandlersTransparent
  ChainedCallsClean
  PartialOnlyAfterThrow
