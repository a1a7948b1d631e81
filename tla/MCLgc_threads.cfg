SPECIFICATION Spec
CONSTANTS
  NULL = NULL
  main = main
  tab = tab
  obj = obj
  other = other
  co = co
  fn = fn
  gn = gn
  up = up
  vp = vp
  str = str
  Objs <- ThreadObjs
  Kind <- ThreadKind
  MayHold <- ThreadMayHold
  Roots = {main}
  MainThread = main
  SweepMax = 1
  MayMode <- NoMode
  MayFinalize = {}
  Calls = {"step", "gen", "emergency", "join"}
  CloseStates = {}
INVARIANTS NoDangling ThreadsListed UpvaluesNotOlder
