SPECIFICATION Spec
CONSTANTS
  main = main
  co = co
  Main = main
  Thr = {main, co}
  Calls = {"xpcall", "yield", "resume", "close"}
  MaxFrames = 4
  MaxTbc = 1
  MaxCCalls = 5
  ErrCCalls = 7
INVARIANT HandlerExact
