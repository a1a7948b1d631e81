SPECIFICATION Spec
CONSTANTS
  NULL = NULL
  main = main
  tab = tab
  obj = obj
  other = other
  co = co
  fn = fn
  gn = gn
  up = up
  vp = vp
  str = str
  Objs <- CloseObjs
  Kind <- CloseKind
  MayHold <- CloseMayHold
  Roots = {main}
  MainThread = main
  SweepMax = 1
  MayMode <- NoMode
  MayFinalize = {obj, other}
  Calls = {"step", "emergency", "close"}
  CloseStates = {"swptobefnz"}
INVARIANT ResurrectedAlive
CHECK_DEADLOCK FALSE
