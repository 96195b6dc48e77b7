CONSTANTS
  Request = {r1, r2}
  Pieces = 2
  NL = NL
SPECIFICATION FairSpec
CHECK_DEADLOCK FALSE
INVARIANTS StreamsFit ResolvedComplete ResolvedLeavesNothing ResponsesApart
PROPERTY ThreadEnds
