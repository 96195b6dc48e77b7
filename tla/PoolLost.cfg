CONSTANTS
  NumWorkers = 1
  Request = {r1, r2}
  ReplaceLimits = {2}
  kMaxRequestRetries = 2
  MaxGen = 1
  Fragile = {0}
  PromptInit = TRUE
  NoRequest = NoRequest
  NoWorker = NoWorker
SPECIFICATION Spec
CHECK_DEADLOCK FALSE
INVARIANT NoRequestLost
