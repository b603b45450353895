CONSTANTS
  TicksPerMs = 2
  Timeouts = {0, 1, 2, 3, 20}
  MaxI64 = 7
  MaxNow = 8
  MaxConns = 2
  MaxSends = 3
  None = None
SPECIFICATION FairSpec
CHECK_DEADLOCK FALSE
INVARIANTS
  AnswersMatch
  NeverEarly
PROPERTY ExchangesEnd
