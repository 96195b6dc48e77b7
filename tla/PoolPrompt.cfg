CONSTANTS
  NumWorkers = 2
  Request = {r1, r2}
  ReplaceLimits = {2}
  kMaxRequestRetries = 2
  MaxGen = 2
  Fragile = {0}
  PromptInit = TRUE
  NoRequest = NoRequest
  NoWorker = NoWorker
SPECIFICATION Spec
SYMMETRY Symmetry
CHECK_DEADLOCK FALSE
INVARIANTS ReadyCountExact ReadySlotQueued
