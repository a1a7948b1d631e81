SPECIFICATION FairSpec
CONSTANTS
  NULL = NULL
  main = main
  tab = tab
  obj = obj
  other = other
  co = co
  fn = fn
  gn = gn
  up = up
  vp = vp
  str = str
  Objs <- IncObjs
  Kind <- IncKind
  MayHold <- IncMayHold
  Roots = {main}
  MainThread = main
  SweepMax = 1
  MayMode <- IncMode
  MayFinalize = {obj}
  Calls = {"step", "cycle", "emergency"}
  CloseStates = {}
INVARIANTS TypeOK NoDangling BarriersHold
PROPERTIES LeavesWeakValues GarbageCollected FinalizersCalled
