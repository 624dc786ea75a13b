CONSTANTS
  k1 = k1
  mixed = mixed
  p1 = p1
  p2 = p2
  f1 = f1
  f2 = f2
  Servers = {s1, s2}
  Settings <- MCSettings
  PrivateKeys = {k1, mixed}
  FreshKeys = {f1, f2}
  PublicHalf <- MCPublicHalf
  MaxStarts = 4
  MaxOpen = 2
  NoConfig = NoConfig
SPECIFICATION FairSpec
INVARIANTS
  TypeOK
  ServesWholeSchema
  ExitZeroMeansAnswered
PROPERTIES
  StaysAppendOnly
  StartAndStopEnd
CHECK_DEADLOCK FALSE
