SPECIFICATION Spec
CONSTANTS
  main = main
  co = co
  Main = main
  Thr = {main, co}
  Calls = {"pcall", "xpcall", "cfun", "yield", "resume", "wrap", "close"}
  MaxFrames = 4
  MaxTbc = 1
  MaxCCalls = 4
  ErrCCalls = 6
INVARIANTS CStackExact FramesFinishable ErrorsAimed NoLostVariable StatusTruthful
           StackMirrorsFrames
