CONSTANTS
  Writers = {w1, w2}
  Readers = {r1}
  a1 = a1
  a2 = a2
  registered = registered
  denied = denied
  bogus = bogus
  allow = allow
  deny = deny
  Agents = {a1, a2}
  Supported = {registered, denied}
  Decisions = {allow, deny}
  Inputs <- MCInputs
  Filters <- MCFilters
  Any = Any
  Times <- MCTimes
  DefaultLimit = 1
  MaxLimit = 2
  MaxAppends = 3
  NoWriter = NoWriter
  NoEvent = NoEvent
SPECIFICATION FairSpec
INVARIANTS
  TypeOK
  ChainVerifies
  IdsFollowCommits
  PagesAreExact
PROPERTIES
  AppendReturns
  ImplementsLog
CHECK_DEADLOCK FALSE
