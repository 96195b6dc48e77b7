CONSTANTS
  Request = {r1, r2, r3}
  Original = Original
  NoBase = NoBase
  Pieces = 2
  MaxClock = 2
  Hole = Hole
SPECIFICATION Spec
SYMMETRY Symmetry
CHECK_DEADLOCK FALSE
INVARIANTS TypeOK OwnSaveAccepted
PROPERTY SavesOverKnown
