SPECIFICATION Spec
CONSTANTS
  NULL = NULL
  main = main
  tab = tab
  obj = obj
  other = other
  co = co
  fn = fn
  gn = gn
  up = up
  vp = vp
  str = str
  Objs <- GenObjs
  Kind <- GenKind
  MayHold <- GenMayHold
  Roots = {main}
  MainThread = main
  SweepMax = 2
  MayMode <- NoMode
  MayFinalize = {other}
  Calls = {"step", "gen", "inc"}
  CloseStates = {}
INVARIANTS NoDangling BarriersHold GrayListsExact GenerationsExact
