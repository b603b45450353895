CONSTANTS
  Threads = {t1, t2, t3}
  NoThread = NoThread
  MaxRuntimes = 3
SPECIFICATION FairSpec
INVARIANTS
  OneCoreRuntime
  NoCallWithoutVM
  LoopWithinRuntime
PROPERTIES
  RefusalIsTruthful
  EscapedPollInertOutside
  ImplementsScopeLock
  LiveIsGivenBack
