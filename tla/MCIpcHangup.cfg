CONSTANTS
  Clients = {c1}
  NoClient = NoClient
  Ports = {5011}
  Budget = 0
  MaxStarts = 1
  MaxSends = 2
  MaxPushes = 0
  MaxTime = 0
  MaxNest = 1
SPECIFICATION FairSpec
PROPERTY EveryHangupStops
