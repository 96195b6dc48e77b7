CONSTANTS
  NumWorkers = 2
  Request = {r1, r2}
  ReplaceLimits = {2}
  kMaxRequestRetries = 2
  MaxGen = 1
  Fragile = {0}
  PromptInit = FALSE
  NoRequest = NoRequest
  NoWorker = NoWorker
SPECIFICATION Spec
SYMMETRY Symmetry
CHECK_DEADLOCK FALSE
INVARIANTS ReadySlotsCounted OneHolder
PROPERTIES ImplementsLedger
