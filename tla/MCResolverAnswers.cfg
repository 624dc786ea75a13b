CONSTANTS
  a1 = a1
  chat = chat
  issuer = issuer
  k1 = k1
  k2 = k2
  Issuers = {issuer}
  NoCapability = NoCapability
  Agents = {a1}
  Resolvers = {r1}
  Documents <- MCOneDocument
  Bodies <- MCOneBody
  SigningKeys = {k1}
  Capabilities = {chat}
  MaxSeq = 1
  TicksPerSecond = 2
  MaxTime = 0
  MaxRequests = 2
  MaxCommits = 2
  BlankAgent = BlankAgent
  NoRow = NoRow
SPECIFICATION Spec
INVARIANTS
  SequencesNeverGoBack
  AnswersAreAudited
CHECK_DEADLOCK FALSE
