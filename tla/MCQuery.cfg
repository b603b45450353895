CONSTANTS
  Syms <- MCSyms
  Null <- MCNull
  MaxHeight = 9
  Tables <- MCTables
  Preds <- MCPreds
  Aggs <- MCAggs
  Sets <- MCSets
  Keys <- MCKeys
  Orders <- MCOrders
  MaxCalls = 3
  MinI64 <- MCMinI64
SPECIFICATION Spec
INVARIANTS
  
  MaskedSumsAnswered
  UpdateMeansCalls
  HeadTailSplit
