CONSTANTS
  Keys = {c1, c2}
  Admins = {p1, p2}
  MaxRequests = 5
  NoChange = NoChange
SYMMETRY Symmetry
SPECIFICATION Spec
INVARIANTS
  TypeOK
  StatusIsAudited
  AuditedWasMade
  LatestEventStands
CHECK_DEADLOCK FALSE
