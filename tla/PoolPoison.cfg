CONSTANTS
  NumWorkers = 1
  Request = {r1}
  ReplaceLimits = {9}
  kMaxRequestRetries = 2
  MaxGen = 3
  Fragile = {0}
  PromptInit = FALSE
  NoRequest = NoRequest
  NoWorker = NoWorker
SPECIFICATION Spec
CHECK_DEADLOCK FALSE
INVARIANT PoisonPillBounded
