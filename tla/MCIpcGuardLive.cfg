CONSTANTS
  Clients = {c1}
  NoClient = NoClient
  Ports = {5011, 5012}
  Budget = 1
  MaxStarts = 2
  MaxSends = 2
  MaxPushes = 0
  MaxTime = 1
  MaxNest = 1
SPECIFICATION FairSpec
INVARIANTS
  WatcherOfInstalled
PROPERTIES
  BudgetEnforced
  CleanHangupStops
  DropReturns
  LockIsGranted
  ImplementsRequestLog
