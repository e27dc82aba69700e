SPECIFICATION Spec
CONSTANTS
  Ids = {a, b}
  Workers = {w1, w2}
  NoToken = none
  MaxTokens = 2
  MaxStarts = 3
  MaxRestarts = 1
  MaxFailures = 1
SYMMETRY Symmetry
INVARIANTS
  StoredTokenAccepted FileFollowsMemory
PROPERTIES
  SessionKept
CHECK_DEADLOCK FALSE
