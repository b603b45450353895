CONSTANTS
  MinI <- MCMinI
  MaxI = 7
  Plain = 3
  NanosPerSec = 4
  NanosPerMs = 2
  SecsPerDay = 2
  Instants <- MCInstants
  MaxLen = 2
SPECIFICATION SentinelsSpec
INVARIANTS
  NullsReadBack
  ChronoReadsBack
