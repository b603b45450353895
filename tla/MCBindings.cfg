CONSTANTS
  Threads = {t1, t2}
  NoThread = NoThread
  Lambdas = {l1, l2}
  NoLambda = NoLambda
  Names = {f}
  Fns = {f1, f2}
  Exprs = {e1, e2}
  Handlers = {h1, h2}
  NoHandler = NoHandler
  MaxCount = 2
  MaxDefs = 2
  MaxScopes = 3
SPECIFICATION Spec
SYMMETRY Symmetry
CHECK_DEADLOCK FALSE
INVARIANTS
  ApplyAgreesWithCall
  StaleExprNamesNothing
