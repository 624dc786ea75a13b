CONSTANTS
  Agents = {a1}
  Writers = {w1, w2, w3}
  Bodies = {b1, b2}
  MaxSeq = 1
  MaxPuts = 4
  NoRow = NoRow
  NoWriter = NoWriter
  NoPut = NoPut
SYMMETRY Symmetry
SPECIFICATION Spec
INVARIANTS
  TypeOK
  SeenIsCurrent
PROPERTIES
  NeverRegresses
  ReplacedIsArchived
  ImplementsRegister
CHECK_DEADLOCK FALSE
