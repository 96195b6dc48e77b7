SPECIFICATION Spec
CONSTANTS
  Dsn = {a, b}
  Copier = {c}
  Member = {1, 2}
  Whole = Whole
  Absent = Absent
  Empty = Empty
  Cut = Cut
  MaxChanges = 2
SYMMETRY Names
INVARIANTS DataSetInv CopiedWhole
PROPERTIES KeepsWhatWasThere
CHECK_DEADLOCK FALSE
