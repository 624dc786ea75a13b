CONSTANTS
  Agents = {a1}
  Writers = {w1, w2}
  Bodies = {b1}
  MaxSeq = 2
  MaxPuts = 3
  NoRow = NoRow
  NoWriter = NoWriter
  NoPut = NoPut
SPECIFICATION Spec
PROPERTY StaleOverwritesRejected
CHECK_DEADLOCK FALSE
