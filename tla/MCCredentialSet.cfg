CONSTANTS
  Fields = {1, 2}
  Capabilities = {1, 2}
  MaxLength = 2
SPECIFICATION CommitmentSpec
INVARIANT CommitsToTheSet
CHECK_DEADLOCK FALSE
