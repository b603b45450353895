CONSTANTS
  Addrs = {a1, a2}
  NoAddr = NoAddr
  Slots = 2
  MaxConns = 3
  MaxCalls = 2
SPECIFICATION Spec
SYMMETRY Symmetry
CHECK_DEADLOCK FALSE
INVARIANTS
  SubscriptionsNeverCross
  ConnectedIsAlive
  ClaimsAreHeld
  ConnectionsAreHeld
  
