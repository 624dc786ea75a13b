CONSTANTS
  a1 = a1
  chat = chat
  issuer = issuer
  k1 = k1
  k2 = k2
  Issuers = {issuer}
  NoCapability = NoCapability
  Agents = {a1}
  Resolvers = {r1}
  Documents <- MCDocuments
  Bodies <- MCBodies
  SigningKeys = {k1, k2}
  Capabilities = {chat}
  MaxSeq = 1
  TicksPerSecond = 2
  MaxTime = 2
  MaxRequests = 1
  MaxCommits = 2
  BlankAgent = BlankAgent
  NoRow = NoRow
SPECIFICATION Spec
INVARIANTS
  TypeOK
  AnsweredFromCurrentRecord
  CachedWithinBothTTLs
  RevocationIsEffective
  NotFoundIsTrue
CONSTRAINT RequestsLeft
CHECK_DEADLOCK FALSE
