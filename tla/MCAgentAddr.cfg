CONSTANTS
  Base = 2
  HashSize = 1
  Keys = {k1, k2}
  Forged = Forged
  Nothing = Nothing
SPECIFICATION Spec
INVARIANTS
  RoundTrip
CHECK_DEADLOCK FALSE
