SPECIFICATION Spec
CONSTANTS
  Bits = 4
  MaxArgC = 7
  MaxArgVC = 15
  MaxArgBx = 15
  LongStr = 10000
  LimLineDiff = 8
  MaxIwthAbs = 6
  MaxEvents = 6
  Digits <- MCDigits
  Externals <- MCExternals
  Programs <- MCPrograms
  Load <- MCLoad
  FuncName <- MCFuncName
  ObjName <- MCObjName
  Means <- MCMeans
  VarBase = 4
INVARIANTS SourceMeaning RejectsExactly CodeSound DebugInfoExact LinesTraced BlamesTruly
