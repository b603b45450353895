CONSTANTS
  Threads = {t1, t2}
  NoThread = NoThread
  MaxRuntimes = 3
SPECIFICATION Spec
INVARIANT EscapedPollIsInert
