CONSTANTS
  Call = {plain, upload}
  Streamed = {upload}
  MaxClient = 2
  NoLine = NoLine
  Garbled = Garbled
SPECIFICATION FairSpec
CHECK_DEADLOCK FALSE
INVARIANTS ClientInv StdoutWhole ResolvedMeansTransferred
PROPERTIES SilencedLeftAlone EveryCallSettles
