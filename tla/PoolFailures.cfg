CONSTANTS
  NumWorkers = 1
  Request = {r1, r2}
  ReplaceLimits = {0, 2}
  kMaxRequestRetries = 1
  MaxGen = 2
  Fragile = {0}
  PromptInit = FALSE
  NoRequest = NoRequest
  NoWorker = NoWorker
SPECIFICATION FairSpec
CHECK_DEADLOCK FALSE
INVARIANT TypeOK
PROPERTIES OfflineStaysEmpty LossesNamed EveryLineAnswered FailedReplaced ShutdownEnds
