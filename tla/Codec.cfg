INIT MCInit
NEXT MCNext
CONSTANTS
  Bytes = 56
  UnitBytes = 2
  Groups <- MCGroups
  Index2Units <- MCIndex2Units
  GlueEvery = 2
  MaxGlue = 10
  Symbols = {0, 1, 2, 3, 4, 5, 6, 7}
  Coded <- MCCoded
  MaxOrder = 2
  MaxFreq = 12
  EscWrap = 3
  InitEscs = {2}
  MaxReads = 18
INVARIANTS SymbolsRight CopiesMeant FiltersInvert BlocksRight
           UnitsPartitioned CurrentIsRecent ContextsRight EscapeLeft EverySymbolOffered
CHECK_DEADLOCK FALSE
