CONSTANTS
  Clients = {c1, c2}
  NoClient = NoClient
  Ports = {5011}
  Budget = 1
  MaxStarts = 1
  MaxSends = 1
  MaxPushes = 1
  MaxTime = 2
  MaxNest = 2
SPECIFICATION Spec
SYMMETRY Symmetry
INVARIANTS
  InterruptOnlyInRequest
  EveryRequestEndsOnce
  StopHitsItsRequest

  
