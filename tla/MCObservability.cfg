CONSTANTS
  Clients = {c1, c2}
  Routes <- MCRoutes
  MaxRequests = 3
SYMMETRY Symmetry
SPECIFICATION Spec
INVARIANTS
  CounterFollowsLog
  PageIsConsistent
CHECK_DEADLOCK FALSE
