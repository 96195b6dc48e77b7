CONSTANTS
  Writer = {w1, w2}
  Member = {m1, m2}
  NoWriter = NoWriter
  Lost = Lost
  MaxLost = 1
  MaxLines = 2
  PerBlock = 2
SPECIFICATION Spec
SYMMETRY ThreadsAndMembers
INVARIANTS WriterInv OneOpen
PROPERTIES ChangedUnderLocks SuccessIsWhole
