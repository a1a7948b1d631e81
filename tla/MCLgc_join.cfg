SPECIFICATION Spec
CONSTANTS
  NULL = NULL
  main = main
  tab = tab
  obj = obj
  other = other
  co = co
  fn = fn
  gn = gn
  up = up
  vp = vp
  str = str
  Objs <- JoinObjs
  Kind <- JoinKind
  MayHold <- JoinMayHold
  Roots = {main}
  MainThread = main
  SweepMax = 1
  MayMode <- NoMode
  MayFinalize = {}
  Calls = {"step", "gen", "join"}
  CloseStates = {}
INVARIANT UpvaluesNotOlder
