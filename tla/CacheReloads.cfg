CONSTANTS
  Task = {t1, t2, t3}
  Call = {r1}
  MaxClient = 3
  MaxPrompt = 1
  NoTask = NoTask
SPECIFICATION FairSpec
CHECK_DEADLOCK FALSE
INVARIANTS CacheInv SessionNotDisposed 
PROPERTIES EveryConnectReturns RestartEnds
