CONSTANTS
  a1 = a1
  d1 = d1
  d2 = d2
  d3 = d3
  Agents = {a1}
  Registrars = {r1, r2}
  Documents = {d1, d2, d3}
  Bodies <- MCBodies
  DocumentOf <- MCDocumentOf
  Malformed = {d3}
  MaxSeq = 1
  MaxRequests = 3
  NoRow = NoRow
  NoWriter = NoWriter
  NoPut = NoPut
  Requests <- MCRequests
SPECIFICATION FairSpec
INVARIANTS
  TypeOK
  IndexedIsStored
  IndexedIsAudited
  AcceptedWasCurrent
PROPERTIES
  ImplementsPublication
  RegisterReturns
CHECK_DEADLOCK FALSE
